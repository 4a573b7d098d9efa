------------------------------ MODULE Channels ------------------------------
(* Facts about the sequences that model channels and message queues, and   *)
(* about the tables of state machines, which the proofs keep needing.      *)
EXTENDS Integers, Sequences, TLAPS

(* What a message more leaves in a channel.                                *)
LEMMA Appended ==
  ASSUME NEW S, NEW s \in Seq(S), NEW e \in S
  PROVE  /\ Append(s, e) \in Seq(S) /\ Append(s, e) # <<>>
         /\ DOMAIN Append(s, e) = 1 .. Len(s) + 1 /\ Len(Append(s, e)) = Len(s) + 1
         /\ \A i \in 1 .. Len(s) : Append(s, e)[i] = s[i]
         /\ Append(s, e)[Len(s) + 1] = e
         /\ DOMAIN s = 1 .. Len(s) /\ Len(s) \in Nat
         /\ s # <<>> => Head(Append(s, e)) = Head(s)
         /\ s = <<>> => Head(Append(s, e)) = e
OBVIOUS

(* A channel is empty when its length is zero.                             *)
LEMMA Emptied == ASSUME NEW S, NEW s \in Seq(S) PROVE s = <<>> <=> Len(s) = 0
OBVIOUS

(* What taking the first message leaves in a channel.                      *)
LEMMA Popped ==
  ASSUME NEW S, NEW s \in Seq(S), s # <<>>
  PROVE  /\ Tail(s) \in Seq(S) /\ Len(Tail(s)) = Len(s) - 1
         /\ DOMAIN Tail(s) = 1 .. Len(s) - 1
         /\ \A i \in 1 .. Len(s) - 1 : Tail(s)[i] = s[i + 1]
         /\ Head(s) = s[1] /\ Head(s) \in S
         /\ DOMAIN s = 1 .. Len(s) /\ Len(s) \in Nat \ {0}
         /\ Tail(s) = <<>> <=> Len(s) = 1
<1>1. Tail(s) \in Seq(S) /\ Len(Tail(s)) = Len(s) - 1
  OBVIOUS
<1>0. Len(s) \in Nat \ {0}
  BY Emptied
<1>2. Tail(s) = <<>> <=> Len(s) = 1
  <2>1. Tail(s) = <<>> <=> Len(Tail(s)) = 0
    BY <1>1, Emptied, Zenon
  <2> QED
    BY <1>0, <1>1, <2>1
<1>3. \A i \in 1 .. Len(s) - 1 : Tail(s)[i] = s[i + 1]
  OBVIOUS
<1>4. Head(s) = s[1] /\ Head(s) \in S /\ DOMAIN s = 1 .. Len(s)
  OBVIOUS
<1>5. DOMAIN Tail(s) = 1 .. Len(s) - 1
  OBVIOUS
<1> QED
  BY <1>0, <1>1, <1>2, <1>3, <1>4, <1>5, Zenon

(* EXCEPT keeps a function in its set.                                     *)
LEMMA Replaced ==
  ASSUME NEW A, NEW B, NEW f \in [A -> B], NEW a, NEW b \in B
  PROVE  [f EXCEPT ![a] = b] \in [A -> B]
OBVIOUS

(* Setting one entry of a table with two keys.                             *)
LEMMA Replaced2 ==
  ASSUME NEW A, NEW B, NEW C, NEW f \in [A -> [B -> C]],
         NEW a \in A, NEW b \in B, NEW v \in C
  PROVE  /\ [f EXCEPT ![a][b] = v] \in [A -> [B -> C]]
         /\ [f EXCEPT ![a][b] = v][a][b] = v
         /\ \A r \in A, y \in B :
              r # a \/ y # b => [f EXCEPT ![a][b] = v][r][y] = f[r][y]
<1>1. [f[a] EXCEPT ![b] = v] \in [B -> C]
  OBVIOUS
<1> QED
  BY <1>1

(* Setting one entry of a table with three keys.                           *)
LEMMA Replaced3 ==
  ASSUME NEW A, NEW B, NEW C, NEW D, NEW f \in [A -> [B -> [C -> D]]],
         NEW a \in A, NEW b \in B, NEW c \in C, NEW v \in D
  PROVE  /\ [f EXCEPT ![a][b][c] = v] \in [A -> [B -> [C -> D]]]
         /\ [f EXCEPT ![a][b][c] = v][a][b][c] = v
         /\ \A r \in A, y \in B, z \in C :
              r # a \/ y # b \/ z # c => [f EXCEPT ![a][b][c] = v][r][y][z] = f[r][y][z]
<1> DEFINE g == [f[a][b] EXCEPT ![c] = v]
<1>1. g \in [C -> D] /\ g[c] = v /\ \A z \in C : z # c => g[z] = f[a][b][z]
  OBVIOUS
<1>2. [f EXCEPT ![a][b][c] = v] = [f EXCEPT ![a][b] = g]
  OBVIOUS
<1> HIDE DEF g
<1>3. /\ [f EXCEPT ![a][b] = g] \in [A -> [B -> [C -> D]]]
      /\ [f EXCEPT ![a][b] = g][a][b] = g
      /\ \A r \in A, y \in B : r # a \/ y # b => [f EXCEPT ![a][b] = g][r][y] = f[r][y]
  <2>1. f \in [A -> [B -> [C -> D]]]
    OBVIOUS
  <2> QED
    BY <1>1, <2>1, Replaced2
<1> QED
  BY <1>1, <1>2, <1>3

(* One channel's messages after another's.                                  *)
LEMMA Concat ==
  ASSUME NEW S, NEW q \in Seq(S), NEW r \in Seq(S)
  PROVE  /\ q \o r \in Seq(S) /\ Len(q \o r) = Len(q) + Len(r)
         /\ DOMAIN (q \o r) = 1 .. Len(q) + Len(r)
         /\ \A i \in 1 .. Len(q) : (q \o r)[i] = q[i]
         /\ \A i \in 1 .. Len(r) : (q \o r)[Len(q) + i] = r[i]
<1>1. q \o r \in Seq(S) /\ Len(q \o r) = Len(q) + Len(r)
  OBVIOUS
<1>2. DOMAIN (q \o r) = 1 .. Len(q) + Len(r)
  BY <1>1
<1>3. \A i \in 1 .. Len(q) : (q \o r)[i] = q[i]
  OBVIOUS
<1>4. \A i \in 1 .. Len(r) : (q \o r)[Len(q) + i] = r[i]
  OBVIOUS
<1> QED BY <1>1, <1>2, <1>3, <1>4

(* Two messages, one after the other.                                       *)
LEMMA Pair ==
  ASSUME NEW S, NEW a \in S, NEW b \in S
  PROVE  /\ <<a>> \o <<b>> \in Seq(S) /\ Len(<<a>> \o <<b>>) = 2 /\ DOMAIN (<<a>> \o <<b>>) = 1 .. 2
         /\ (<<a>> \o <<b>>)[1] = a /\ (<<a>> \o <<b>>)[2] = b
<1> DEFINE x == <<a>>
           y == <<b>>
<1>1. x \in Seq(S) /\ y \in Seq(S) /\ Len(x) = 1 /\ Len(y) = 1 /\ x[1] = a /\ y[1] = b
  OBVIOUS
<1> HIDE DEF x, y
<1>0. x \in Seq(S) /\ y \in Seq(S)
  BY <1>1
<1>2. /\ x \o y \in Seq(S) /\ Len(x \o y) = Len(x) + Len(y) /\ DOMAIN (x \o y) = 1 .. Len(x) + Len(y)
      /\ \A i \in 1 .. Len(x) : (x \o y)[i] = x[i]
      /\ \A i \in 1 .. Len(y) : (x \o y)[Len(x) + i] = y[i]
  BY <1>0, Concat
<1>3. (x \o y)[1] = a
  BY <1>1, <1>2
<1>4. (x \o y)[Len(x) + 1] = b
  BY <1>1, <1>2
<1>5. (x \o y)[2] = b
  BY <1>1, <1>4, SMTT(60)
<1> QED BY <1>1, <1>2, <1>3, <1>5 DEF x, y

(* What is left when a message is dropped or the channel emptied comes     *)
(* from it, one place later; what is added has another type.               *)
Shifted(old, new, type) ==
  \E s \in {0, 1} : \A i \in DOMAIN new :
    \/ i + s \in DOMAIN old /\ new[i] = old[i + s]
    \/ new[i].type # type

(* A channel nobody touches.                                               *)
LEMMA ShiftedSame ==
  ASSUME NEW S, NEW s \in Seq(S), NEW type
  PROVE  Shifted(s, s, type)
BY DEF Shifted

(* A channel whose first message is taken.                                 *)
LEMMA ShiftedTail ==
  ASSUME NEW S, NEW s \in Seq(S), s # <<>>, NEW type
  PROVE  Shifted(s, Tail(s), type)
<1>1. \A i \in DOMAIN Tail(s) : i + 1 \in DOMAIN s /\ Tail(s)[i] = s[i + 1]
  BY Popped
<1> QED
  BY <1>1 DEF Shifted

(* A channel that gets a message of another type.                          *)
LEMMA ShiftedAppend ==
  ASSUME NEW S, NEW s \in Seq(S), NEW e \in S, NEW type, e.type # type
  PROVE  Shifted(s, Append(s, e), type)
<1>1. \A i \in DOMAIN Append(s, e) :
        \/ i + 0 \in DOMAIN s /\ Append(s, e)[i] = s[i + 0]
        \/ Append(s, e)[i] = e
  BY Appended
<1> QED
  BY <1>1 DEF Shifted

(* A channel that is emptied.                                              *)
LEMMA ShiftedEmpty == ASSUME NEW s, NEW type PROVE Shifted(s, <<>>, type)
BY DEF Shifted
=============================================================================
