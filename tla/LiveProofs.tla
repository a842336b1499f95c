------------------------------ MODULE LiveProofs ------------------------------
(***************************************************************************)
(* Proofs about Live, for any set of ACL entries: type correctness and the   *)
(* four safety invariants of connectAndCollect.                               *)
(***************************************************************************)
EXTENDS Live, TLAPS

-----------------------------------------------------------------------------
(* Types.                                                                    *)

\* Whatever the ACLs are, connectAndCollect starts well typed.
LEMMA TypeInit == Init => TypeOK
<1> SUFFICES ASSUME Init
             PROVE  TypeOK
    OBVIOUS
<1>1. chk.supported \in BOOLEAN /\ chk.violations \subseteq Acls
  BY DEF Init
<1> QED BY <1>1 DEF Init, TypeOK

\* Every step of connectAndCollect, of the clock and of the ACLs keeps the types.
LEMMA TypeStep == TypeOK /\ [Next]_vars => TypeOK'
<1> SUFFICES ASSUME TypeOK, [Next]_vars
             PROVE  TypeOK'
    OBVIOUS
<1> USE DEF TypeOK, flow
<1>1. CASE RequireBootstrap
  BY <1>1 DEF RequireBootstrap, Return
<1>2. CASE Connect
  BY <1>2 DEF Connect, Return
<1>3. CASE MetadataOK
  BY <1>3 DEF MetadataOK
<1>4. CASE MetadataError
  BY <1>4 DEF MetadataError
<1>5. ASSUME NEW failed \in SUBSET Filters, CheckReadOnly(failed)
      PROVE  TypeOK'
  BY <1>5 DEF CheckReadOnly, Filters
<1>6. CASE CheckReadOnlyError
  BY <1>6 DEF CheckReadOnlyError
<1>7. CASE enforceReadOnly
  BY <1>7 DEF enforceReadOnly, Return
<1>8. CASE BuildOK
  BY <1>8 DEF BuildOK, Return
<1>9. CASE BuildError
  BY <1>9 DEF BuildError, Return
<1>10. CASE Close
  BY <1>10 DEF Close
<1>11. CASE Deadline
  BY <1>11 DEF Deadline
<1>12. ASSUME NEW a \in Acls, ChangeAcl(a)
       PROVE  TypeOK'
  BY <1>12 DEF ChangeAcl
<1>13. CASE Returned \/ UNCHANGED vars
  BY <1>13 DEF Returned, vars
<1> QED BY <1>1, <1>2, <1>3, <1>4, <1>5, <1>6, <1>7, <1>8, <1>9, <1>10, <1>11,
           <1>12, <1>13 DEF Next, Local

\* Every reachable state of connectAndCollect is well typed (live.go:52-97).
THEOREM TypeCorrect == Spec => []TypeOK
  BY TypeInit, TypeStep, PTL DEF Spec

-----------------------------------------------------------------------------
(* The client and the banner.                                                *)

\* Before Connect there is no client; after it the banner has been printed.
ReleaseInv ==
    /\ ClientReleased /\ BannerFirst
    /\ phase \in {"flags", "connect"} => client = "none"
    /\ phase \in {"connect", "metadata", "gate", "enforce", "build"} => banner

\* Every step keeps it: a client is opened after the banner, and each return
\* from then on closes it.
LEMMA ReleaseStep == TypeOK /\ ReleaseInv /\ [Next]_vars => ReleaseInv'
<1> SUFFICES ASSUME TypeOK, ReleaseInv, [Next]_vars
             PROVE  ReleaseInv'
    OBVIOUS
<1> USE DEF TypeOK, flow, ReleaseInv, ClientReleased, BannerFirst
<1>1. CASE RequireBootstrap
  BY <1>1 DEF RequireBootstrap, Return
<1>2. CASE Connect
  BY <1>2 DEF Connect, Return
<1>3. CASE MetadataOK
  BY <1>3 DEF MetadataOK
<1>4. CASE MetadataError
  BY <1>4 DEF MetadataError
<1>5. ASSUME NEW failed \in SUBSET Filters, CheckReadOnly(failed)
      PROVE  ReleaseInv'
  BY <1>5 DEF CheckReadOnly
<1>6. CASE CheckReadOnlyError
  BY <1>6 DEF CheckReadOnlyError
<1>7. CASE enforceReadOnly
  BY <1>7 DEF enforceReadOnly, Return
<1>8. CASE BuildOK \/ BuildError
  BY <1>8 DEF BuildOK, BuildError, Return
<1>9. CASE Close
  BY <1>9 DEF Close
<1>10. CASE Deadline
  BY <1>10 DEF Deadline
<1>11. ASSUME NEW a \in Acls, ChangeAcl(a)
       PROVE  ReleaseInv'
  BY <1>11 DEF ChangeAcl
<1>12. CASE Returned \/ UNCHANGED vars
  BY <1>12 DEF Returned, vars
<1> QED BY <1>1, <1>2, <1>3, <1>4, <1>5, <1>6, <1>7, <1>8, <1>9, <1>10, <1>11,
           <1>12 DEF Next, Local

\* It holds all the time.
LEMMA ReleaseInvariant == Spec => []ReleaseInv
<1>1. Init => ReleaseInv
  BY DEF Init, ReleaseInv, ClientReleased, BannerFirst
<1> QED BY <1>1, ReleaseStep, TypeCorrect, PTL DEF Spec

\* No path out of connectAndCollect leaves its client open (live.go:73,
\* client.go:109-112).
THEOREM ClientIsReleased == Spec => []ClientReleased
<1>1. ReleaseInv => ClientReleased
  BY DEF ReleaseInv
<1> QED BY <1>1, ReleaseInvariant, PTL

\* Nothing is sent to the cluster before the banner (live.go:57-58).
THEOREM BannerComesFirst == Spec => []BannerFirst
<1>1. ReleaseInv => BannerFirst
  BY DEF ReleaseInv
<1> QED BY <1>1, ReleaseInvariant, PTL

-----------------------------------------------------------------------------
(* The gate.                                                                 *)

\* What a complete answer listed is exactly what it held that is too much.
ListedAll ==
    chk.supported => \A a \in probed :
        a.permission = "allow" /\ writeishViolation(a) => a \in chk.violations

\* There is no verdict before enforceReadOnly and no blindness before the probe;
\* a blinded gate is past its deadline for good.
GateInv ==
    /\ PassedIsClean
    /\ phase = "enforce" => ListedAll
    /\ phase \in {"flags", "connect", "metadata", "gate", "enforce"} => verdict = "none"
    /\ phase \in {"flags", "connect", "metadata", "gate"} => ~blind
    /\ phase \notin {"closing", "returned"} => result = "none"
    /\ blind => expired /\ result # "snapshot"

\* Every step keeps it: the probe lists what it saw, and enforceReadOnly looks at
\* the list before it lets build run.
LEMMA GateStep == TypeOK /\ GateInv /\ [Next]_vars => GateInv'
<1> SUFFICES ASSUME TypeOK, GateInv, [Next]_vars
             PROVE  GateInv'
    OBVIOUS
<1> USE DEF TypeOK, flow, GateInv, PassedIsClean, ListedAll, writeishViolation
<1>1. CASE RequireBootstrap
  BY <1>1 DEF RequireBootstrap, Return
<1>2. CASE Connect
  BY <1>2 DEF Connect, Return
<1>3. CASE MetadataOK
  BY <1>3 DEF MetadataOK
<1>4. CASE MetadataError
  BY <1>4 DEF MetadataError
<1>5. ASSUME NEW failed \in SUBSET Filters, CheckReadOnly(failed)
      PROVE  GateInv'
  <2>1. chk'.supported => failed = {}
    BY <1>5 DEF CheckReadOnly
  <2>2. chk'.violations = {a \in acls : /\ a.permission \notin failed
                                        /\ a.permission = "allow"
                                        /\ writeishViolation(a)}
    BY <1>5 DEF CheckReadOnly
  <2>3. probed' = acls
    BY <1>5 DEF CheckReadOnly
  <2>4. ListedAll'
    BY <2>1, <2>2, <2>3
  <2> QED BY <1>5, <2>4 DEF CheckReadOnly
<1>6. CASE CheckReadOnlyError
  BY <1>6 DEF CheckReadOnlyError
<1>7. CASE enforceReadOnly
  BY <1>7 DEF enforceReadOnly, Return
<1>8. CASE BuildOK
  BY <1>8 DEF BuildOK, Return
<1>9. CASE BuildError
  BY <1>9 DEF BuildError, Return
<1>10. CASE Close
  BY <1>10 DEF Close
<1>11. CASE Deadline
  BY <1>11 DEF Deadline
<1>12. ASSUME NEW a \in Acls, ChangeAcl(a)
       PROVE  GateInv'
  BY <1>12 DEF ChangeAcl
<1>13. CASE Returned \/ UNCHANGED vars
  BY <1>13 DEF Returned, vars
<1> QED BY <1>1, <1>2, <1>3, <1>4, <1>5, <1>6, <1>7, <1>8, <1>9, <1>10, <1>11,
           <1>12, <1>13 DEF Next, Local

\* It holds all the time.
LEMMA GateInvariant == Spec => []GateInv
<1>1. Init => GateInv
  BY DEF Init, GateInv, PassedIsClean
<1> QED BY <1>1, GateStep, TypeCorrect, PTL DEF Spec

\* A passed gate saw no grant that ReadOnlyCheck names (readonly.go:23-26,
\* live.go:108-121).
THEOREM PassedGateIsClean == Spec => []PassedIsClean
<1>1. GateInv => PassedIsClean
  BY DEF GateInv, PassedIsClean
<1> QED BY <1>1, GateInvariant, PTL

\* What the deadline hid from the gate never ends in a snapshot
\* (readonly.go:45-48, collect.go:73-76).
THEOREM BlindGateEndsInError == Spec => []BlindGateFails
<1>1. GateInv => BlindGateFails
  BY DEF GateInv, BlindGateFails
<1> QED BY <1>1, GateInvariant, PTL
=============================================================================
