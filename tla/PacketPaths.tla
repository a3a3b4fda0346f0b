----------------------------- MODULE PacketPaths -----------------------------
(***************************************************************************)
(* Which resolvers a packet of a stream is sent by (stream_resolver.go,    *)
(* over the sets that balancer.go publishes): the stream's preferred       *)
(* resolver and its failover, the duplicates beside it, the plan that is   *)
(* kept for the next packet, and the draw for control packets.             *)
(*                                                                         *)
(* The selection takes no lock across its reads: between any two of them   *)
(* the health loop takes a resolver out and rechecks bring others back.    *)
(* Every balancing strategy is some order of the published set, and a      *)
(* resolver's pacing may change at any time: a draw is any choice.         *)
(***************************************************************************)
EXTENDS Integers, FiniteSets

CONSTANTS
    Resolvers,      \* connections, 1..n
    Primary,        \* those that are not Backup
    Domain,         \* the tunnel domain of each
    Target,         \* runtimePacketDuplicationCount
    Diverse,        \* dupPreferDistinctDomains
    Threshold,      \* streamResolverFailoverResendThreshold
    MaxChanges      \* bound: snapshots published

VARIABLES
    valid,      \* IsValid in the snapshot
    version,    \* of the snapshot
    marked,     \* runtimeDisabled
    moving,     \* the resolver that the health loop is taking out: [r, step]
    back,       \* resolvers that are valid again and whose mark is still to go
    preferred, streak, cooling,     \* the stream's resolver, its resends, its failover cooldown
    plan,       \* CachedResolverPlan; crossed: a snapshot was published while it was made
    sel,        \* the selection under way
    copies,     \* its result
    seen, steady    \* resolvers that were active at some time of it, and all along

pathVars == <<valid, version, marked, moving, back, preferred, streak, cooling, plan, sel, copies, seen, steady>>

None   == 0
NoPlan == [for |-> None, members |-> {}, version |-> 0, crossed |-> FALSE]
NoSel  == [at |-> "idle", kind |-> "data", from |-> None, first |-> None, exclude |-> None, keep |-> None,
           moves |-> FALSE, version |-> 0, crossed |-> FALSE]
Least(a, b) == IF a < b THEN a ELSE b

(* selectResolverTier: the backups serve only when no primary is left. *)
Tier(rs) == IF rs \cap Primary # {} THEN rs \cap Primary ELSE rs
Active == Tier(valid)

Init ==
    /\ valid = Resolvers /\ version = 0 /\ marked = {} /\ moving = [r |-> None, step |-> "none"] /\ back = {}
    /\ preferred \in {None} \cup Resolvers /\ streak = 0 /\ cooling = FALSE
    /\ plan = NoPlan /\ sel = NoSel /\ copies = {} /\ seen = {} /\ steady = {}

----------------------------------------------------------------------------
(* The resolvers' health *)

Watched == /\ seen' = IF sel.at = "idle" THEN {} ELSE seen \cup Tier(valid')
           /\ steady' = IF sel.at = "idle" THEN {} ELSE steady \cap (Tier(valid') \ marked')
Publish == version < MaxChanges /\ version' = version + 1

(* disableResolverConnection: marked, taken out of the snapshot, marked    *)
(* again whatever came between, and then taken from the streams that       *)
(* prefer it                                                               *)
Mark(r) ==
    /\ moving.step = "none" /\ r \in valid /\ Cardinality(valid) > 1 /\ version < MaxChanges
    /\ marked' = marked \cup {r} /\ moving' = [r |-> r, step |-> "out"]
    /\ UNCHANGED <<valid, version, back, preferred, streak, plan>>

TakeOut ==
    /\ moving.step = "out" /\ Publish
    /\ valid' = valid \ {moving.r} /\ moving' = [moving EXCEPT !.step = "clear"]
    /\ UNCHANGED <<marked, back, preferred, streak, plan>>

ClearPreferred ==
    /\ moving.step = "clear" /\ moving' = [r |-> None, step |-> "none"]
    /\ marked' = marked \cup {moving.r}
    /\ IF preferred = moving.r THEN preferred' = None /\ streak' = 0 /\ plan' = NoPlan
                               ELSE UNCHANGED <<preferred, streak, plan>>
    /\ UNCHANGED <<valid, version, back>>

(* reactivateResolverConnection: valid first, its mark removed later *)
Revalidate(r) ==
    /\ r \in Resolvers \ (valid \cup back) /\ Publish
    /\ valid' = valid \cup {r} /\ back' = back \cup {r}
    /\ UNCHANGED <<marked, moving, preferred, streak, plan>>

Unmark(r) ==
    /\ r \in back /\ back' = back \ {r} /\ marked' = marked \ {r}
    /\ UNCHANGED <<valid, version, moving, preferred, streak, plan>>

(* SetConnectionMTU and the other updates that publish a snapshot *)
Update == Publish /\ UNCHANGED <<valid, marked, moving, back, preferred, streak, plan>>

Health ==
    /\ TakeOut \/ ClearPreferred \/ Update \/ \E r \in Resolvers : Mark(r) \/ Revalidate(r) \/ Unmark(r)
    /\ Watched /\ UNCHANGED <<cooling, sel, copies>>

(* noteStreamProgress, and the end of the failover cooldown *)
Progress == streak > 0 /\ streak' = 0 /\ UNCHANGED <<valid, version, marked, moving, back, preferred, cooling, plan, sel,
                                                     copies, seen, steady>>
Rested == cooling /\ cooling' = FALSE /\ UNCHANGED <<valid, version, marked, moving, back, preferred, streak, plan, sel,
                                                     copies, seen, steady>>

----------------------------------------------------------------------------
(* The selection *)

healthVars == <<valid, version, marked, moving, back>>
Step(place) == sel' = [sel EXCEPT !.at = place]
Chosen(r) == sel' = [sel EXCEPT !.at = "plan", !.first = r]
Usable(r) == r \in valid \ marked

(* selectTargetConnectionsForPacket; a resend counts first                 *)
(* (selectStreamPreferredConnectionForResend).                             *)
Begin(kind) ==
    LET s == IF kind = "resend" THEN Least(streak + 1, Threshold) ELSE streak IN
    /\ sel.at = "idle"
    /\ streak' = s
    /\ sel' = [NoSel EXCEPT !.kind = kind, !.from = preferred,
                            !.at = IF kind = "control" \/ Active = {} THEN "draw"
                                   ELSE IF kind = "resend" /\ s = Threshold THEN "failover" ELSE "ensure"]
    /\ seen' = Active /\ steady' = Active \ marked
    /\ UNCHANGED <<healthVars, preferred, cooling, plan, copies>>

(* ensureStreamPreferredConnection: a preferred resolver that is throttled *)
(* is left, but not twice within the cooldown.                             *)
Ensure ==
    /\ sel.at = "ensure"
    /\ IF preferred # None /\ Usable(preferred)
       THEN \/ Chosen(preferred)
            \/ ~cooling /\ sel' = [sel EXCEPT !.at = "alternate", !.exclude = preferred, !.keep = preferred, !.moves = TRUE]
       ELSE sel' = [sel EXCEPT !.at = "alternate", !.exclude = preferred, !.keep = None, !.moves = FALSE]
    /\ UNCHANGED <<healthVars, preferred, streak, cooling, plan, copies, seen, steady>>

(* maybeFailoverStreamPreferredConnection *)
Failover ==
    /\ sel.at = "failover"
    /\ IF preferred = None \/ ~Usable(preferred) THEN Step("ensure")
       ELSE IF cooling THEN Chosen(preferred)
       ELSE sel' = [sel EXCEPT !.at = "alternate", !.exclude = preferred, !.keep = preferred, !.moves = TRUE]
    /\ UNCHANGED <<healthVars, preferred, streak, cooling, plan, copies, seen, steady>>

(* selectAlternateStreamConnection: any that is not marked, a throttled    *)
(* one at last                                                             *)
Alternate ==
    LET others == Active \ (marked \cup {sel.exclude}) IN
    /\ sel.at = "alternate"
    /\ \/ \E r \in others : sel' = [sel EXCEPT !.at = "assign", !.first = r]
       \/ others = {} /\ IF sel.keep # None THEN Chosen(sel.keep) ELSE Step("draw")
    /\ UNCHANGED <<healthVars, preferred, streak, cooling, plan, copies, seen, steady>>

(* assignStreamPreferredConnection *)
Assign ==
    /\ sel.at = "assign" /\ Step("plan")
    /\ preferred' = sel.first /\ streak' = 0 /\ plan' = NoPlan
    /\ cooling' = (cooling \/ sel.moves)
    /\ UNCHANGED <<healthVars, copies, seen, steady>>

\* MUTANT a plan outlives the snapshot it was made from
Planned_Always == plan.members # {} /\ plan.for = sel.first

(* getCachedStreamConnectionPlan *)
Planned == plan.members # {} /\ plan.for = sel.first /\ plan.version = version

Consult ==
    /\ sel.at = "plan"
    /\ IF Target <= 1 THEN Step("done") /\ copies' = {sel.first}
       ELSE IF Planned THEN sel' = [sel EXCEPT !.at = "done", !.crossed = plan.crossed] /\ copies' = plan.members
       ELSE Step("fill") /\ UNCHANGED copies
    /\ UNCHANGED <<healthVars, preferred, streak, cooling, plan, seen, steady>>

Domains(rs) == {Domain[r] : r \in rs}

(* The n duplicates beside the first: any others of the active set, but    *)
(* with appendDomainDiverseDuplicates a new domain goes before a known one *)
Duplicates(first, others, n) ==
    {more \in SUBSET others :
        /\ Cardinality(more) = n
        /\ Diverse => Cardinality(Domains(more \cup {first})) = Least(n + 1, Cardinality(Domains(others \cup {first})))}

(* As many as wanted as far as there are any. The plan is kept when it is  *)
(* diverse or came short.                                                  *)
Fill ==
    LET others == Active \ {sel.first}
        wanted == Least(Target - 1, Cardinality(others))
    IN
    /\ sel.at = "fill"
    /\ \E more \in Duplicates(sel.first, others, wanted) : copies' = more \cup {sel.first}
    /\ sel' = [sel EXCEPT !.at = IF Diverse \/ wanted < Target - 1 THEN "cache" ELSE "done", !.version = version]
    /\ UNCHANGED <<healthVars, preferred, streak, cooling, plan, seen, steady>>

(* cacheStreamConnectionPlan: under the version of the moment *)
Cache ==
    /\ sel.at = "cache" /\ Step("done")
    /\ plan' = [for |-> sel.first, members |-> copies, version |-> version, crossed |-> version # sel.version]
    /\ UNCHANGED <<healthVars, preferred, streak, cooling, copies, seen, steady>>

(* selectUniqueRuntimeConnections: twice as many as needed are drawn, the  *)
(* marked ones dropped.                                                    *)
Draw ==
    /\ sel.at = "draw" /\ Step("filter")
    /\ \E drawn \in SUBSET Active :
        /\ Cardinality(drawn) = Least(2 * Target, Cardinality(Active))
        /\ copies' = drawn
    /\ UNCHANGED <<healthVars, preferred, streak, cooling, plan, seen, steady>>

Filter ==
    LET kept == copies \ marked IN
    /\ sel.at = "filter" /\ Step("done")
    /\ \E few \in SUBSET kept : Cardinality(few) = Least(Target, Cardinality(kept)) /\ copies' = few
    /\ UNCHANGED <<healthVars, preferred, streak, cooling, plan, seen, steady>>

Hand ==
    /\ sel.at = "done" /\ sel' = NoSel /\ copies' = {} /\ seen' = {} /\ steady' = {}
    /\ UNCHANGED <<healthVars, preferred, streak, cooling, plan>>

Next ==
    \/ Health \/ Progress \/ Rested
    \/ \E kind \in {"data", "resend", "control"} : Begin(kind)
    \/ Ensure \/ Failover \/ Alternate \/ Assign \/ Consult \/ Fill \/ Cache \/ Draw \/ Filter \/ Hand

Spec == Init /\ [][Next]_pathVars

----------------------------------------------------------------------------
TypeOK ==
    /\ valid \subseteq Resolvers /\ marked \subseteq Resolvers /\ version \in 0..MaxChanges
    /\ preferred \in {None} \cup Resolvers /\ streak \in 0..Threshold /\ cooling \in BOOLEAN
    /\ copies \subseteq Resolvers /\ plan.members \subseteq Resolvers

Done == sel.at = "done"

(* A packet goes only by resolvers that were in use at some time of its    *)
(* selection: what was taken out before it began gets nothing of it. A     *)
(* plan kept under a snapshot published while it was made is the exception *)
(* (cacheStreamConnectionPlan reads the version last).                     *)
InUse == Done /\ ~sel.crossed => copies \subseteq seen \cup {sel.keep, sel.from}

(* It goes by as many as wanted when that many were in use all along       *)
(* (selectTargetConnectionsForPacket): no race leaves it short, or stuck.  *)
Enough == Done /\ ~sel.crossed => Cardinality(copies) >= Least(Target, Cardinality(steady))

(* A resend that reaches the threshold outside the cooldown leaves the     *)
(* resolver it had when another was in use all along                       *)
(* (maybeFailoverStreamPreferredConnection).                               *)
LeavesLoser ==
    Done /\ sel.kind = "resend" /\ sel.moves /\ steady \ {sel.keep} # {} => sel.first # sel.keep

PathsSound == TypeOK /\ InUse /\ Enough /\ LeavesLoser
=============================================================================
