---------------------------- MODULE SessionStore ----------------------------
(***************************************************************************)
(* The server's session table (internal/udpserver/session.go): session IDs *)
(* split between two wire formats, the index of SESSION_INIT signatures    *)
(* that lets a repeated INIT find the session it already has, the closing  *)
(* of sessions by notice and by the idle sweep, and the cleanup that       *)
(* follows outside the table's lock (cleanupClosedSession).                *)
(*                                                                         *)
(* A step is what the table's lock covers.  A session is known by a serial *)
(* number, which stands for its record and for its cookie.                 *)
(***************************************************************************)
EXTENDS Integers, FiniteSets

CONSTANTS
    Signatures,   \* the SESSION_INIT payloads
    Codecs,       \* the codecs that a client may use
    Inits,        \* the INITs that clients send: <<signature, format, codec>>
    MaxLegacyId,  \* the last ID a legacy header can carry (255)
    MaxId,        \* the last session ID (65535)
    Cap,          \* maxActiveSessions
    ReuseTTL,     \* sessionInitTTL
    IdleTimeout, Retention,
    Notices,      \* whether clients send close notices
    MaxTime,      \* bound: the clock
    MaxSerial     \* bound: sessions created

ASSUME StoreAssumption ==
    /\ Inits \subseteq Signatures \X {"legacy", "native"} \X Codecs
    /\ MaxLegacyId \in Nat \ {0} /\ MaxId \in Nat /\ MaxLegacyId < MaxId
    /\ Cap \in Nat \ {0} /\ ReuseTTL \in Nat \ {0} /\ IdleTimeout \in Nat \ {0}
    /\ Retention \in Nat /\ Notices \in BOOLEAN
    /\ MaxTime \in Nat \ {0} /\ MaxSerial \in Nat

Ids       == 1 .. MaxId
Formats   == {"legacy", "native"}
Low(f)    == IF f = "legacy" THEN 1 ELSE MaxLegacyId + 1
High(f)   == IF f = "legacy" THEN MaxLegacyId ELSE MaxId
Half(f)  == Low(f) .. High(f)
Records   == [serial : Nat \ {0}, sig : Signatures, format : Formats, codec : Codecs,
              until : Nat \ {0}, active : Nat]
NoSession == [serial |-> 0]

VARIABLES
    now,
    byId,      \* the record of each ID, NoSession when free
    bySig,     \* the ID a signature leads to, 0 when none
    sweepAt,   \* nextReuseSweepUnixNano, 0 when unset
    nextId,    \* where the search for a free ID starts, by format
    total,     \* activeCount
    count,     \* activeNative and activeLegacy
    recent,    \* recentClosed: when the entry expires, 0 when absent
    created,   \* sessions created
    notice,    \* the close notice being handled: <<ID, serial>> or <<>>
    cleaning,  \* sessions closed whose cleanup is still to come
    work,      \* whose deferred packets and tasks an ID holds
    harm,      \* history: what was done to the session of an ID on account of an
               \* earlier one
    mislaid    \* history: the signatures whose entry was taken from a session that
               \* may be reused when an older one of theirs, that may not, went

vars == <<now, byId, bySig, sweepAt, nextId, total, count, recent, created, notice, cleaning, work,
          harm, mislaid>>

Live     == {i \in Ids : byId[i] # NoSession}
LiveOf(f) == {i \in Live : byId[i].format = f}

Init ==
    /\ now = 1
    /\ byId = [i \in Ids |-> NoSession]
    /\ bySig = [g \in Signatures |-> 0]
    /\ sweepAt = 0
    /\ nextId = [f \in Formats |-> Low(f)]
    /\ total = 0 /\ count = [f \in Formats |-> 0]
    /\ recent = [i \in Ids |-> 0]
    /\ created = 0
    /\ notice = <<>> /\ cleaning = {}
    /\ work = [i \in Ids |-> {}]
    /\ harm = {} /\ mislaid = {}

----------------------------------------------------------------------------
(* expireReuseLocked: drop the expired signatures, unless the time noted   *)
(* says that there is none.                                                *)
Indexed     == {g \in Signatures : bySig[g] # 0}
Reusable(g) == bySig[g] # 0 /\ byId[bySig[g]] # NoSession /\ now <= byId[bySig[g]].until
SweepDue    == sweepAt = 0 \/ now >= sweepAt

Kept == IF SweepDue THEN {g \in Signatures : Reusable(g)} ELSE Indexed
SweptSig == [g \in Signatures |-> IF g \in Kept THEN bySig[g] ELSE 0]

(* The time to sweep next: the earliest expiry of what is left.            *)
NextSweep(t) ==
    IF Indexed = {} THEN t = 0
    ELSE IF ~SweepDue THEN t = sweepAt
    ELSE IF Kept = {} THEN t = 0
    ELSE /\ \E g \in Kept : t = byId[bySig[g]].until
         /\ \A g \in Kept : t <= byId[bySig[g]].until

(* updateNextReuseSweepLocked *)
Earliest_Latest(t, until) == until
Earliest(t, until) == IF t = 0 \/ until < t THEN until ELSE t

----------------------------------------------------------------------------
(* findOrCreate *)

(* allocateSlotLocked *)
Free(f)  == {i \in Half(f) : byId[i] = NoSession}
Full(f)  == total >= Cap \/ Free(f) = {}
IsSlot_Lowest(f, i) == i \in Free(f) /\ \A j \in Free(f) : i <= j
IsSlot(f, i) ==
    /\ i \in Free(f)
    /\ \A j \in Free(f) : (j >= nextId[f]) = (i >= nextId[f]) => i <= j
    /\ i < nextId[f] => \A j \in Free(f) : j < nextId[f]

(* nextSessionIDInRange *)
After(f, i) == IF i >= High(f) THEN Low(f) ELSE i + 1

(* The same INIT again, while its session may be reused. *)
Reuses(g, f, k) ==
    g \in Kept /\ Reusable(g) /\ byId[bySig[g]].format = f /\ byId[bySig[g]].codec = k

Reuse(g, f, k) ==
    /\ Reuses(g, f, k)
    /\ bySig' = SweptSig
    /\ \E t \in 0 .. MaxTime + ReuseTTL : NextSweep(t) /\ sweepAt' = t
    /\ byId' = [byId EXCEPT ![bySig[g]].active = now]
    /\ UNCHANGED <<now, nextId, total, count, recent, created, notice, cleaning, work, harm, mislaid>>

TableFull(g, f, k) ==
    /\ ~Reuses(g, f, k) /\ Full(f)
    /\ bySig' = [SweptSig EXCEPT ![g] = 0]
    /\ \E t \in 0 .. MaxTime + ReuseTTL : NextSweep(t) /\ sweepAt' = t
    /\ UNCHANGED <<now, byId, nextId, total, count, recent, created, notice, cleaning, work, harm, mislaid>>

Create(g, f, k) ==
    /\ ~Reuses(g, f, k) /\ ~Full(f) /\ created < MaxSerial
    /\ \E i \in Half(f) :
          /\ IsSlot(f, i)
          /\ byId' = [byId EXCEPT ![i] = [serial |-> created + 1, sig |-> g, format |-> f, codec |-> k,
                                          until |-> now + ReuseTTL, active |-> now]]
          /\ bySig' = [SweptSig EXCEPT ![g] = i]
          /\ nextId' = [nextId EXCEPT ![f] = After(f, i)]
          /\ recent' = [recent EXCEPT ![i] = 0]
    /\ \E t \in 0 .. MaxTime + ReuseTTL :
          NextSweep(t) /\ sweepAt' = Earliest(t, now + ReuseTTL)
    /\ total' = total + 1 /\ count' = [count EXCEPT ![f] = @ + 1]
    /\ created' = created + 1
    /\ UNCHANGED <<now, notice, cleaning, work, harm, mislaid>>

----------------------------------------------------------------------------
(* A packet of a session, at any time later (ValidateAndTouch).  It may    *)
(* leave work for the deferred lanes under the session's ID.               *)
Packet(i) ==
    /\ i \in Live
    /\ byId' = [byId EXCEPT ![i].active = now]
    /\ \E w \in {work[i], work[i] \cup {byId[i].serial}} : work' = [work EXCEPT ![i] = w]
    /\ UNCHANGED <<now, bySig, sweepAt, nextId, total, count, recent, created, notice, cleaning, harm, mislaid>>

(* What Close and Cleanup share: the sessions of the IDs in "gone" go, and *)
(* the signature of each leaves the index, wherever it leads.  The code    *)
(* keeps its counts from going below 0; CountsExact says they never would. *)
Dropped_All(index, gone) == [g \in Signatures |-> 0]
Dropped(index, gone) ==
    [g \in Signatures |-> IF \E i \in gone : byId[i].sig = g THEN 0 ELSE index[g]]
Mislays(index, gone) ==
    {g \in Signatures :
        /\ index[g] \notin gone \cup {0} /\ now <= byId[index[g]].until
        /\ \E i \in gone : byId[i].sig = g /\ now > byId[i].until}
Departed(f, gone) == {i \in gone : byId[i].format = f}
RemoveAll(gone) ==
    /\ byId' = [i \in Ids |-> IF i \in gone THEN NoSession ELSE byId[i]]
    /\ total' = total - Cardinality(gone)
    /\ count' = [f \in Formats |-> count[f] - Cardinality(Departed(f, gone))]
    /\ cleaning' = cleaning \cup {<<i, byId[i].serial>> : i \in gone}

(* handleSessionCloseNotice looks the session up, then closes the ID.      *)
LookupNotice(i) ==
    /\ Notices /\ notice = <<>> /\ i \in Live
    /\ notice' = <<i, byId[i].serial>>
    /\ UNCHANGED <<now, byId, bySig, sweepAt, nextId, total, count, recent, created, cleaning, work, harm, mislaid>>

CloseByNotice ==
    /\ notice # <<>>
    /\ notice' = <<>>
    /\ LET i == notice[1]
       IN  \/ /\ i \in Live
              /\ bySig' = Dropped(bySig, {i}) /\ mislaid' = mislaid \cup Mislays(bySig, {i})
              /\ RemoveAll({i})
              /\ recent' = [recent EXCEPT ![i] = IF Retention > 0 THEN now + Retention ELSE 0]
              /\ harm' = IF byId[i].serial = notice[2] THEN harm ELSE harm \cup {<<"closed", i>>}
           \/ /\ i \notin Live
              /\ UNCHANGED <<bySig, byId, total, count, cleaning, recent, harm, mislaid>>
    /\ UNCHANGED <<now, sweepAt, nextId, created, work>>

(* Cleanup: the sweep of idle sessions, of closed entries and signatures   *)
Idle == {i \in Live : now - byId[i].active >= IdleTimeout}

Sweep ==
    /\ RemoveAll(Idle)
    /\ bySig' = Dropped(SweptSig, Idle) /\ mislaid' = mislaid \cup Mislays(SweptSig, Idle)
    /\ \E t \in 0 .. MaxTime + ReuseTTL : NextSweep(t) /\ sweepAt' = t
    /\ recent' = [i \in Ids |-> IF i \in Idle /\ Retention > 0 THEN now + Retention
                                ELSE IF recent[i] <= now THEN 0 ELSE recent[i]]
    /\ UNCHANGED <<now, nextId, created, notice, work, harm, mislaid>>

(* cleanupClosedSession goes by the ID.                                    *)
CleanUp(c) ==
    /\ c \in cleaning
    /\ cleaning' = cleaning \ {c}
    /\ work' = [work EXCEPT ![c[1]] = {}]
    /\ harm' = IF work[c[1]] \subseteq 1 .. c[2] THEN harm ELSE harm \cup {<<"cancelled", c[1]>>}
    /\ UNCHANGED <<now, byId, bySig, sweepAt, nextId, total, count, recent, created, notice, mislaid>>

Tick ==
    /\ now < MaxTime
    /\ now' = now + 1
    /\ UNCHANGED <<byId, bySig, sweepAt, nextId, total, count, recent, created, notice, cleaning, work, harm, mislaid>>

Next ==
    \/ \E g \in Signatures, f \in Formats, k \in Codecs :
          /\ <<g, f, k>> \in Inits
          /\ Reuse(g, f, k) \/ TableFull(g, f, k) \/ Create(g, f, k)
    \/ \E i \in Ids : Packet(i) \/ LookupNotice(i)
    \/ CloseByNotice \/ Sweep \/ Tick
    \/ \E c \in cleaning : CleanUp(c)

Spec == Init /\ [][Next]_vars

----------------------------------------------------------------------------
(* Every variable stays in its type. *)
TypeOK ==
    /\ now \in 1 .. MaxTime
    /\ byId \in [Ids -> Records \cup {NoSession}]
    /\ bySig \in [Signatures -> 0 .. MaxId]
    /\ sweepAt \in 0 .. MaxTime + ReuseTTL
    /\ nextId \in [Formats -> Ids] /\ \A f \in Formats : nextId[f] \in Half(f)
    /\ total \in Nat /\ count \in [Formats -> Nat]
    /\ recent \in [Ids -> Nat]
    /\ created \in 0 .. MaxSerial
    /\ notice = <<>> \/ notice \in Ids \X (1 .. MaxSerial)
    /\ cleaning \subseteq Ids \X (1 .. MaxSerial)
    /\ work \in [Ids -> SUBSET (1 .. MaxSerial)]
    /\ harm \subseteq {"closed", "cancelled"} \X Ids /\ mislaid \subseteq Signatures

(* The signature index never leads astray: what it holds is the ID of a    *)
(* live session with that very signature, although entries are dropped by  *)
(* the signature of whatever record an ID holds (Close, Cleanup), replaced *)
(* on a format mismatch (findOrCreate) and expired by a lazy sweep.        *)
IndexSound ==
    \A g \in Signatures : bySig[g] # 0 =>
        byId[bySig[g]] # NoSession /\ byId[bySig[g]].sig = g

(* The counts that the cap and the operator's figures rely on are those of *)
(* the table, over every way a session comes and goes; and the table keeps *)
(* to the cap and to each format's half of the IDs.                        *)
CountsExact ==
    /\ total = Cardinality(Live) /\ total <= Cap
    /\ \A f \in Formats : count[f] = Cardinality(LiveOf(f))
    /\ \A i \in Live : i \in Half(byId[i].format)

(* The lazy sweep is never late: the time noted is no later than the       *)
(* expiry of any signature in the index.                                   *)
SweepNeverLate ==
    \A g \in Signatures : bySig[g] # 0 => sweepAt # 0 /\ sweepAt <= byId[bySig[g]].until

(* An INIT repeated within its reuse time yields one session.              *)
OneEach(g) ==
    \A i, j \in Live :
        /\ byId[i].sig = g /\ byId[j].sig = g
        /\ byId[i].format = byId[j].format /\ byId[i].codec = byId[j].codec
        /\ now <= byId[i].until /\ now <= byId[j].until
        => i = j
OnePerInit == \A g \in Signatures : OneEach(g)

(* It does for an INIT that comes in one format and with one codec, until  *)
(* an older session of that INIT, its own reuse time over, is closed or    *)
(* swept and takes the entry of the one that came after it with it.        *)
OneForm(g) == \A f, h \in Formats, k, l \in Codecs :
                 <<g, f, k>> \in Inits /\ <<g, h, l>> \in Inits => f = h /\ k = l
OnePerFreshInit == \A g \in Signatures \ mislaid : OneForm(g) => OneEach(g)

(* Until more sessions were created than a format has IDs, a close notice  *)
(* and a cleanup, which act by ID after looking a session up, hit that     *)
(* session's and no other's.                                               *)
NoMistakenIdentity == \A h \in harm, f \in Formats : h[2] \in Half(f) => Cardinality(Half(f)) < created

(* The removal of a session cancels no work of another one.                *)
RemovalCancelsOwn == \A h \in harm : h[1] # "cancelled"

(* The table of sessions, its index, its counters and its lazy sweep agree *)
(* after every create, close and cleanup.                                  *)
TableExact == TypeOK /\ IndexSound /\ CountsExact /\ SweepNeverLate
=============================================================================
