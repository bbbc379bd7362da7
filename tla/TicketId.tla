------------------------------ MODULE TicketId ------------------------------
(***************************************************************************)
(* The identifier enqueue gives to a job (algorithm_runner.cpp):           *)
(*     (ts << 16) | (seq & 0xFFFF)     in uint64_t                         *)
(* ts is the steady clock in nanoseconds, which never goes back, and seq   *)
(* counts the jobs of the process.  The identifier is the key of the map   *)
(* jobs: a job that gets the key of another one replaces it.               *)
(***************************************************************************)
EXTENDS Integers

CONSTANTS
    SeqRange,   \* values of the low part (2^16 in the code)
    TsRange     \* values of the high part (2^48 in the code)

ASSUME TicketIdAssumption ==
    /\ SeqRange \in Nat \ {0}
    /\ TsRange \in Nat \ {0}

(* Dropping the mask of the sequence number. *)
Bug_NoMask(ts, seq) == ((ts * SeqRange) % (TsRange * SeqRange)) + seq

(* The shift loses what exceeds the width; the two parts share no bit, so   *)
(* that | is a sum.                                                         *)
reqId(ts, seq) ==
    ((ts * SeqRange) % (TsRange * SeqRange)) + (seq % SeqRange)
=============================================================================
