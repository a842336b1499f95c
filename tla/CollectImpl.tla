----------------------------- MODULE CollectImpl -----------------------------
(***************************************************************************)
(* Collect implements Sampling, once per read.                               *)
(***************************************************************************)
EXTENDS Collect

\* Where the collection is with the read of phase p; `before` are the phases
\* that come before it.
StatusOf(before, p) == IF phase \in before THEN "waiting"
                       ELSE IF phase = p THEN "reading" ELSE "over"

UntilTopics  == {"brokers"}
UntilStarts  == UntilTopics \cup {"topics", "configs", "logdirs"}
UntilEnds    == UntilStarts \cup {"start"}
UntilStates  == UntilEnds \cup {"end"}
UntilCommits == UntilStates \cup {"groups"}
UntilAgain   == UntilCommits \cup {"committed", "sleep"}

Layout == INSTANCE Sampling WITH
    Items <- TP, Nothing <- {}, Atomic <- TRUE, Once <- TRUE,
    value <- replicas, sample <- listed,
    status <- StatusOf(UntilTopics, "topics")

Starts == INSTANCE Sampling WITH
    Items <- TP, Nothing <- Absent, Atomic <- FALSE, Once <- TRUE,
    value <- start, sample <- startOff,
    status <- StatusOf(UntilStarts, "start")

Ends == INSTANCE Sampling WITH
    Items <- TP, Nothing <- Absent, Atomic <- FALSE, Once <- TRUE,
    value <- end, sample <- endOff,
    status <- StatusOf(UntilEnds, "end")

EndsAgain == INSTANCE Sampling WITH
    Items <- TP, Nothing <- Absent, Atomic <- FALSE, Once <- TRUE,
    value <- end, sample <- endOff2,
    status <- StatusOf(UntilAgain, "end2")

\* Brokers answer one by one, and a group that moves between them may be in two
\* answers, of which either stays.
States == INSTANCE Sampling WITH
    Items <- Groups, Nothing <- NoGroup, Atomic <- FALSE, Once <- FALSE,
    value <- state, sample <- groupInfo,
    status <- StatusOf(UntilStates, "groups")

\* Whether a group has committed on a topic; an error hides that it has.
Commits == INSTANCE Sampling WITH
    Items <- Groups \X Topics, Nothing <- FALSE, Atomic <- FALSE, Once <- TRUE,
    value <- [x \in Groups \X Topics |-> x[2] \in commits[x[1]]],
    sample <- [x \in Groups \X Topics |-> x[2] \in committed[x[1]]],
    status <- StatusOf(UntilCommits, "committed")

\* The topic list and the offset probes each keep what they promise: every
\* entry of a snapshot was the cluster's at a moment of that read and before
\* the deadline, and a second probe leaves the first one's answers alone
\* (collect.go:77-133, reads.go:74-103, 177-208).
OffsetReads == Layout!Spec /\ Starts!Spec /\ Ends!Spec /\ EndsAgain!Spec

\* So do the group list and the committed offsets: each state is one its group
\* had while the brokers were asked for their groups, though the states of two
\* groups may be of two moments; and no commit is held that the group did not
\* have while the offsets were fetched (collect.go:102-114, reads.go:213-248).
GroupReads == States!Spec /\ Commits!Spec
=============================================================================
