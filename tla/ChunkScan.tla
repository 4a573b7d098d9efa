------------------------------ MODULE ChunkScan ------------------------------
(***************************************************************************)
(* What a parallel scan of a file's chunks promises, whoever performs it:  *)
(* every chunk is claimed by one worker and scanned at most once, and the  *)
(* scan reports success only when each chunk has been scanned or when the  *)
(* rows already found satisfy the query's limit.  The TypeScript runtime's *)
(* chunk queue (ChunkQueue) and the native thread pool (NativePool) both   *)
(* implement it.                                                           *)
(***************************************************************************)
CONSTANTS
  Chunks,   (* The chunk ids of the file.                                 *)
  Workers,  (* Whatever scans chunks: async loops, threads.               *)
  NoChunk   (* The claim of a worker that holds no chunk.                 *)

VARIABLES
  unclaimed,  (* Chunks no worker has claimed.                            *)
  claim,      (* The chunk each worker is scanning.                       *)
  scanned,    (* Chunks whose scan finished without an error.             *)
  enough,     (* The rows found so far satisfy the query's limit.         *)
  result      (* What the caller has been told.                           *)

vars == <<unclaimed, claim, scanned, enough, result>>

Results == {"running", "complete", "failed"}

Init ==
  /\ unclaimed = Chunks
  /\ claim     = [w \in Workers |-> NoChunk]
  /\ scanned   = {}
  /\ enough    = FALSE
  /\ result    = "running"

Claim(w, c) ==
  /\ claim[w] = NoChunk
  /\ c \in unclaimed
  /\ unclaimed' = unclaimed \ {c}
  /\ claim' = [claim EXCEPT ![w] = c]
  /\ UNCHANGED <<scanned, enough, result>>

Finish(w) ==
  /\ claim[w] # NoChunk
  /\ scanned' = scanned \cup {claim[w]}
  /\ claim' = [claim EXCEPT ![w] = NoChunk]
  /\ enough' \in BOOLEAN
  /\ enough => enough'
  /\ UNCHANGED <<unclaimed, result>>

(* A worker drops its chunk on an error; the caller may hear of it at once *)
(* or later, and the other workers go on.                                  *)
Lose(w) ==
  /\ claim[w] # NoChunk
  /\ claim' = [claim EXCEPT ![w] = NoChunk]
  /\ UNCHANGED <<unclaimed, scanned, enough, result>>

(* The caller is told of an error, together with a loss or after it.       *)
Fail ==
  /\ result = "running"
  /\ result' = "failed"
  /\ UNCHANGED <<unclaimed, claim, scanned, enough>>

LoseAndFail(w) ==
  /\ result = "running"
  /\ claim[w] # NoChunk
  /\ claim' = [claim EXCEPT ![w] = NoChunk]
  /\ result' = "failed"
  /\ UNCHANGED <<unclaimed, scanned, enough>>

Complete ==
  /\ result = "running"
  /\ scanned = Chunks \/ enough
  /\ result' = "complete"
  /\ UNCHANGED <<unclaimed, claim, scanned, enough>>

Next ==
  \/ \E w \in Workers, c \in Chunks : Claim(w, c)
  \/ \E w \in Workers : Finish(w) \/ Lose(w) \/ LoseAndFail(w)
  \/ Fail
  \/ Complete

Spec == Init /\ [][Next]_vars
=============================================================================
