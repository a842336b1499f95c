-------------------------------- MODULE Live --------------------------------
(***************************************************************************)
(* connectAndCollect: flags, banner, kafka.Connect, the --require-readonly   *)
(* gate, collect.Build, and the deferred Close, under one context deadline.  *)
(* Build is its outcome here (module Collect has its steps); ACLs can be     *)
(* granted and revoked by others at any time.                                *)
(***************************************************************************)
EXTENDS Integers, FiniteSets

CONSTANTS
    Acls        \* the ACL entries that can exist on the cluster
                \* [principal, permission, op, resource]

\* The principal brod authenticates as.
Brod == "brod"

ASSUME AclsAssumption ==
    \A a \in Acls : a.permission \in {"allow", "deny"}

VARIABLES
    input,      \* the flags: bootstrap, sasl, creds, requireReadOnly
    phase,      \* where connectAndCollect is; "returned" at its end
    expired,    \* the context of cmdCollect / cmdScan is done
    banner,     \* the read-only banner was printed
    contacted,  \* a request was sent to the cluster
    client,     \* the kgo client: "none", "open" or "closed"
    acls,       \* the cluster's ACL entries
    chk,        \* ReadOnlyCheck: supported, violations
    verdict,    \* what enforceReadOnly told the user
    result,     \* what is returned: "none" so far, "error" or "snapshot"
    probed,     \* history: acls when they were described
    blind       \* history: the ACL probe failed because the context was done

flow == <<input, banner, contacted, client, chk, verdict, result, probed, blind>>
vars == <<phase, expired, acls, flow>>

\* kadm asks one filter per permission; each answers on its own.
Filters == {"allow", "deny"}

Inputs == [bootstrap : {"blank", "commas", "hosts"},
           sasl : {"none", "plain", "unknown"},
           creds : BOOLEAN,
           requireReadOnly : BOOLEAN]

\* A deadline of window + 60s has already passed when --sample-window is -60s
\* or less.
Init ==
    /\ input \in Inputs
    /\ phase = "flags" /\ expired \in BOOLEAN
    /\ banner = FALSE /\ contacted = FALSE /\ client = "none"
    /\ acls \in SUBSET Acls
    /\ chk = [supported |-> TRUE, violations |-> {}]
    /\ verdict = "none" /\ result = "none" /\ probed = {} /\ blind = FALSE

\* A return runs the deferred Close once Connect has succeeded.
Return(r) ==
    /\ phase' = IF client = "open" THEN "closing" ELSE "returned"
    /\ result' = r

\* Slips: an operator named Slip_... is its neighbour with a plausible mistake,
\* used to check that a property would notice it.
\* Slip: the banner is left to the end.
Slip_BannerLater ==
    /\ phase = "flags"
    /\ input.bootstrap # "blank"
    /\ phase' = "connect"
    /\ UNCHANGED <<expired, acls, flow>>

RequireBootstrap ==
    /\ phase = "flags"
    /\ \/ /\ input.bootstrap = "blank"
          /\ Return("error")
          /\ UNCHANGED banner
       \/ /\ input.bootstrap # "blank"
          /\ banner' = TRUE
          /\ phase' = "connect"
          /\ UNCHANGED result
    /\ UNCHANGED <<expired, acls, input, contacted, client, chk, verdict, probed, blind>>

\* splitCSV keeps no host of a list of commas and blanks.
splitCSV(s) == IF s = "hosts" THEN {"host"} ELSE {}

\* saslMechanism: credentials come from flags or the environment.
saslMechanismFails == /\ input.sasl # "none"
                      /\ ~input.creds \/ input.sasl = "unknown"

\* Connect, up to the client that its metadata request goes through; building
\* it can fail too.
Connect ==
    /\ phase = "connect"
    /\ \/ Return("error") /\ UNCHANGED client
       \/ /\ splitCSV(input.bootstrap) # {} /\ ~saslMechanismFails
          /\ client' = "open"
          /\ phase' = "metadata"
          /\ UNCHANGED result
    /\ UNCHANGED <<expired, acls, input, banner, contacted, chk, verdict, probed, blind>>

\* The eager metadata read; on an error Connect closes the client itself.
MetadataOK ==
    /\ phase = "metadata" /\ ~expired
    /\ contacted' = TRUE
    /\ phase' = IF input.requireReadOnly THEN "gate" ELSE "build"
    /\ UNCHANGED <<expired, acls, input, banner, client, chk, verdict, result, probed, blind>>

\* Slip: a failed Connect forgets its client.
Slip_ClientLeaked ==
    /\ phase = "metadata"
    /\ contacted' = TRUE
    /\ phase' = "returned" /\ result' = "error"
    /\ UNCHANGED <<expired, acls, input, banner, client, chk, verdict, probed, blind>>

MetadataError ==
    /\ phase = "metadata"
    /\ contacted' = TRUE
    /\ client' = "closed"
    /\ phase' = "returned" /\ result' = "error"
    /\ UNCHANGED <<expired, acls, input, banner, chk, verdict, probed, blind>>

\* Slip: reading a topic is taken for metadata.
Slip_TopicReadBenign(a) ==
    a.op \in {"All", "Write", "Alter", "AlterConfigs", "Delete", "Create"}

\* Operations the documentation of ReadOnlyCheck calls more than read-only.
writeishViolation(a) ==
    \/ a.op \in {"All", "Write", "Alter", "AlterConfigs", "Delete", "Create"}
    \/ a.op = "Read" /\ a.resource = "topic"

\* CheckReadOnly over the filters that answered.
CheckReadOnly(failed) ==
    /\ phase = "gate" /\ ~expired
    /\ chk' = [supported  |-> failed = {},
               violations |-> {a \in acls : /\ a.permission \notin failed
                                            /\ a.permission = "allow"
                                            /\ writeishViolation(a)}]
    /\ probed' = acls
    /\ phase' = "enforce"
    /\ UNCHANGED <<expired, acls, input, banner, contacted, client, verdict, result, blind>>

\* Slip: the error text is listed as a violation.
Slip_ErrorIsViolation ==
    /\ phase = "gate"
    /\ chk' = [supported |-> FALSE,
               violations |-> {[principal |-> Brod, permission |-> "allow",
                                op |-> "error", resource |-> "error"]}]
    /\ blind' = expired
    /\ phase' = "enforce"
    /\ UNCHANGED <<expired, acls, input, banner, contacted, client, verdict, result, probed>>

\* An error of the request, the context's included, is "unverified".
CheckReadOnlyError ==
    /\ phase = "gate"
    /\ chk' = [supported |-> FALSE, violations |-> {}]
    /\ blind' = expired
    /\ phase' = "enforce"
    /\ UNCHANGED <<expired, acls, input, banner, contacted, client, verdict, result, probed>>

enforceReadOnly ==
    /\ phase = "enforce"
    /\ \/ /\ ~chk.supported
          /\ verdict' = "unverified" /\ phase' = "build" /\ UNCHANGED result
       \/ /\ chk.supported /\ chk.violations # {}
          /\ verdict' = "refused" /\ Return("error")
       \/ /\ chk.supported /\ chk.violations = {}
          /\ verdict' = "passed" /\ phase' = "build" /\ UNCHANGED result
    /\ UNCHANGED <<expired, acls, input, banner, contacted, client, chk, probed, blind>>

\* Slip: Build runs on a context of its own.
Slip_OwnContext ==
    /\ phase = "build"
    /\ Return("snapshot")
    /\ UNCHANGED <<expired, acls, input, banner, contacted, client, chk, verdict, probed, blind>>

\* collect.Build: its first read already needs a live context.
BuildOK ==
    /\ phase = "build" /\ ~expired
    /\ Return("snapshot")
    /\ UNCHANGED <<expired, acls, input, banner, contacted, client, chk, verdict, probed, blind>>

BuildError ==
    /\ phase = "build"
    /\ Return("error")
    /\ UNCHANGED <<expired, acls, input, banner, contacted, client, chk, verdict, probed, blind>>

Close ==
    /\ phase = "closing"
    /\ client' = "closed"
    /\ phase' = "returned"
    /\ UNCHANGED <<expired, acls, input, banner, contacted, chk, verdict, result, probed, blind>>

\* Slip: the context has no deadline.
Slip_NoDeadline == FALSE /\ UNCHANGED vars

Deadline ==
    /\ ~expired /\ phase # "returned"
    /\ expired' = TRUE
    /\ UNCHANGED <<phase, acls, flow>>

\* Someone else grants or revokes an ACL.
ChangeAcl(a) ==
    /\ phase # "returned"
    /\ acls' = IF a \in acls THEN acls \ {a} ELSE acls \cup {a}
    /\ UNCHANGED <<phase, expired, flow>>

Returned == phase = "returned" /\ UNCHANGED vars

Local == RequireBootstrap \/ Connect \/ enforceReadOnly \/ Close

Next ==
    \/ Local \/ MetadataOK \/ MetadataError
    \/ \E failed \in SUBSET Filters : CheckReadOnly(failed)
    \/ CheckReadOnlyError
    \/ BuildOK \/ BuildError \/ Deadline
    \/ \E a \in Acls : ChangeAcl(a)
    \/ Returned

Spec == Init /\ [][Next]_vars

\* The code runs its own steps, the deadline comes, and a request on a context
\* that is done returns an error.
FairSpec ==
    /\ Spec
    /\ WF_vars(Local) /\ WF_vars(Deadline)
    /\ WF_vars(expired /\ (MetadataError \/ CheckReadOnlyError \/ BuildError))

(***************************************************************************)
(* Properties.                                                               *)
(***************************************************************************)
\* The state of connectAndCollect is well formed; in particular what
\* ReadOnlyCheck lists are ACL entries of the cluster (readonly.go:18-27).
TypeOK ==
    /\ input \in Inputs
    /\ phase \in {"flags", "connect", "metadata", "gate", "enforce", "build",
                  "closing", "returned"}
    /\ expired \in BOOLEAN /\ banner \in BOOLEAN /\ contacted \in BOOLEAN
    /\ client \in {"none", "open", "closed"}
    /\ acls \subseteq Acls /\ probed \subseteq Acls
    /\ chk.supported \in BOOLEAN /\ chk.violations \subseteq Acls
    /\ verdict \in {"none", "unverified", "refused", "passed"}
    /\ result \in {"none", "error", "snapshot"}
    /\ blind \in BOOLEAN

\* On every path out, the early returns of Connect and of the gate included, no
\* client is left open (live.go:73, client.go:109-112).
ClientReleased == phase = "returned" => client # "open"

\* The cluster is never contacted before the banner was printed (live.go:57-58).
BannerFirst == contacted => banner

\* "passed" is only said of a cluster that, when its ACLs were described, held
\* no entry that allows, to any principal, one of the operations ReadOnlyCheck
\* names: whichever filter failed or lost an entry meanwhile
\* (readonly.go:23-26, live.go:108-121).
PassedIsClean ==
    verdict = "passed" =>
        \A a \in probed : a.permission = "allow" =>
            /\ a.op \notin {"Write", "Alter", "AlterConfigs", "Delete", "Create", "All"}
            /\ a.op = "Read" => a.resource # "topic"

\* A gate the deadline blinded never ends in a snapshot: the error it swallows
\* comes back from Build's first read (readonly.go:45-48, collect.go:73-76).
BlindGateFails == blind => result # "snapshot"

\* connectAndCollect returns, whatever the cluster does or does not answer.
Returns == <>(phase = "returned")

(***************************************************************************)
(* What the code's words say and the code does not do.                       *)
(***************************************************************************)
\* live.go:45: "fail closed if the credential has detectable write/topic-READ
\* ACLs".
FailsClosed ==
    result = "snapshot" /\ input.requireReadOnly =>
        \A a \in chk.violations : a.principal # Brod
=============================================================================
