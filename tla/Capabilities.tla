---------------------------- MODULE Capabilities ----------------------------
(***************************************************************************)
(* Execution capabilities (includes/ipc.h, ipc.cpp, server/application.cpp)*)
(* A bit mask is the set of the positions of its bits.                     *)
(***************************************************************************)
EXTENDS JobTypes

(* enum ExecFunFlags : uint8_t *)
ExecFunFlags == [ADD |-> 0, SUB |-> 1, MUL |-> 2, DIV |-> 3, CONCAT |-> 4,
                 FIND_START |-> 5]

Uint8 == SUBSET (0..7)

(* static_cast<uint8_t> of the handshake's uint32. *)
ToUint8(mask) == mask \intersect 0..7

verifyExecCaps(flags) ==
    /\ flags \subseteq {ExecFunFlags[f] : f \in DOMAIN ExecFunFlags}
    /\ flags # {}

OpOf(r) == IF has_math(r) THEN r.math.op ELSE r.str.op

Bug_PayloadSuffices(r, caps) == HasWork(r)

clientHasCapabilityFor(r, caps) ==
    /\ HasWork(r)
    /\ OpOf(r) \in DOMAIN ExecFunFlags
    /\ ExecFunFlags[OpOf(r)] \in caps
=============================================================================
