------------------------------ MODULE PathSize ------------------------------
(***************************************************************************)
(* The sizes that one path of the CottenMax client uses (engine/client.go):*)
(* the answers it asks for, found by trials against a size that is known   *)
(* to arrive and guarded afterwards, and the longer names it tries.        *)
(*                                                                         *)
(* The network loses what is too large and nothing else: then a window of  *)
(* outcomes has lost all or none, and worse() compares just that.          *)
(***************************************************************************)
EXTENDS Integers, FiniteSets, Bags, FiniteSetsExt

CONSTANTS
    MaxClass,
    Checks, Full,           \* when a window is judged (8, 16, 24 of 32)
    MinBase, GuardBase,     \* the comparison queries needed (4, 8)
    EarnTrial,              \* successes before a trial (8)
    MaxAsked,               \* bound: queries out
    MaxBackoffs             \* nameBackoffs ends there (4)

ASSUME SizeAssumption ==
    /\ MaxClass \in Nat /\ MaxBackoffs \in Nat /\ EarnTrial \in Nat
    /\ Full \in Nat \ {0}

VARIABLES
    fits,       \* the largest answer the network lets through
    shrunk,     \* history: it lets through less than it did
    size,       \* sizeOK, sizeCeil, test, sizeSince, sizeBlocked and the two windows
    asked,      \* the bag of classes asked for and not answered
    name        \* name length and its probes

sizesVars == <<fits, shrunk, size, asked, name>>

NoWindow == [n |-> 0, lost |-> FALSE]

SizesInit ==
    /\ fits \in 0..MaxClass /\ shrunk = FALSE
    /\ size = [ok |-> 0, ceil |-> MaxClass + 1, test |-> 0, since |-> 0, blocked |-> FALSE,
               testWin |-> NoWindow, baseWin |-> NoWindow]
    /\ asked = EmptyBag
    /\ name = [long |-> FALSE, probing |-> FALSE, fails |-> 0, retry |-> "none", backoffs |-> 0, earned |-> FALSE]

----------------------------------------------------------------------------
(* Answer sizes *)

Recorded(w, lost) == [n |-> Min({w.n + 1, Full}), lost |-> lost]

Worse(a, b)   == a.lost /\ ~b.lost
Blatant(a, b) == a.n \in Checks /\ b.n >= MinBase /\ Worse(a, b)

NextClass(s) == IF s.test > 0 THEN {s.test, s.ok} ELSE {s.ok, 0}

SizeFailed_OffByOne(s, class, back) ==
    LET ceil == Min({s.ceil, Max({class - 1, 1})})
    IN  [s EXCEPT !.ceil = ceil, !.ok = Min({back, ceil - 1}), !.test = 0, !.since = 0,
                  !.testWin = NoWindow, !.baseWin = NoWindow, !.blocked = TRUE]

SizeFailed(s, class, back) ==
    LET ceil == Min({s.ceil, Max({class, 1})})
    IN  [s EXCEPT !.ceil = ceil, !.ok = Min({back, ceil - 1}), !.test = 0, !.since = 0,
                  !.testWin = NoWindow, !.baseWin = NoWindow, !.blocked = TRUE]

InTrial(s, class, lost) ==
    LET t == IF class = s.test THEN Recorded(s.testWin, lost) ELSE s.testWin
        b == IF class = s.ok THEN Recorded(s.baseWin, lost) ELSE s.baseWin
        full == t.n = Full /\ b.n = Full
        r == [s EXCEPT !.testWin = t, !.baseWin = b]
    IN  IF class \notin {s.test, s.ok} THEN s
        ELSE IF Blatant(t, b) \/ (full /\ Worse(t, b)) THEN SizeFailed(r, s.test, s.ok)
        ELSE IF full THEN [r EXCEPT !.ok = s.test, !.test = 0, !.since = 0,
                                    !.testWin = NoWindow, !.baseWin = NoWindow]
        ELSE r

(* A proven size is compared with the smallest one, asked for now and then. *)
Guarded(s, class, lost) ==
    LET t == IF class # 0 THEN Recorded(s.testWin, lost) ELSE s.testWin
        b == IF class = 0 THEN Recorded(s.baseWin, lost) ELSE s.baseWin
        full == t.n = Full /\ b.n >= GuardBase
        r == [s EXCEPT !.testWin = t, !.baseWin = b]
    IN  IF Blatant(t, b) \/ (full /\ Worse(t, b)) THEN SizeFailed(r, s.ok, 0)
        ELSE IF full THEN [r EXCEPT !.testWin = NoWindow, !.baseWin = NoWindow]
        ELSE r

(* A trial begins: the largest first, then halfway to what has failed. *)
Earned(s, class, lost) ==
    LET r    == [s EXCEPT !.since = IF class = s.ok /\ ~lost THEN Min({@ + 1, EarnTrial}) ELSE @]
        next == IF r.ceil > MaxClass THEN MaxClass ELSE (r.ok + r.ceil) \div 2
    IN  IF r.since = EarnTrial /\ ~r.blocked /\ r.ok + 1 < r.ceil /\ next > r.ok
        THEN [r EXCEPT !.test = next, !.testWin = NoWindow, !.baseWin = NoWindow]
        ELSE r

SizeOutcome(s, class, lost) ==
    IF s.test > 0 THEN InTrial(s, class, lost)
    ELSE LET g == Guarded(s, class, lost)
         IN  IF s.ok = 0 \/ class \notin {s.ok, 0} THEN Earned(s, class, lost)
             ELSE IF g.ok # s.ok THEN g
             ELSE Earned(g, class, lost)

Ask(class) ==
    /\ BagCardinality(asked) < MaxAsked
    /\ class \in NextClass(size)
    /\ asked' = asked (+) SetToBag({class})
    /\ UNCHANGED <<fits, shrunk, size, name>>

(* The outcome of a query: its answer comes when it fits (onAnswer), else  *)
(* it is given up (failLocked), cut short by the network or not at all     *)
(* (expireLocked).                                                         *)
Outcome(class, cut) ==
    LET lost == class > fits
        s    == IF lost /\ cut /\ class > 0 THEN SizeFailed(size, class, Min({size.ok, class - 1})) ELSE size
    IN  /\ BagIn(class, asked) /\ asked' = asked (-) SetToBag({class})
        /\ cut => lost
        /\ size' = SizeOutcome(s, class, lost)
        /\ UNCHANGED <<fits, shrunk, name>>

Unblock == size.blocked /\ size' = [size EXCEPT !.blocked = FALSE] /\ UNCHANGED <<fits, shrunk, asked, name>>

Shrink(f) == f < fits /\ fits' = f /\ shrunk' = TRUE /\ UNCHANGED <<size, asked, name>>

----------------------------------------------------------------------------
(* Name lengths: a path starts at the safe one and tries the longest. *)

Named(n) == name' = n /\ UNCHANGED <<fits, shrunk, size, asked>>

BackoffNameProbe(n) == [n EXCEPT !.retry = "later", !.backoffs = Min({@ + 1, MaxBackoffs}), !.fails = 2]

RetryTime == name.retry = "later" /\ Named([name EXCEPT !.retry = "due"])

BeginNameProbe ==
    /\ name.earned /\ ~name.probing /\ ~name.long
    /\ name.fails >= 2 => name.retry = "due"
    /\ Named([name EXCEPT !.probing = TRUE, !.fails = IF @ >= 2 THEN 1 ELSE @])

(* run: the path has lost two in a row, and no proof of long names is fresh *)
QueryFailed(probe, run) ==
    LET n == IF ~probe THEN name
             ELSE [name EXCEPT !.probing = FALSE, !.fails = Min({@ + 1, 2})]
        b == IF probe /\ n.fails >= 2 THEN BackoffNameProbe(n) ELSE n
    IN  /\ probe => name.probing
        /\ Named(IF b.long /\ run THEN [BackoffNameProbe(b) EXCEPT !.long = FALSE] ELSE b)

QueryAnswered(probe) ==
    /\ probe => name.probing
    /\ Named(IF probe THEN [name EXCEPT !.probing = FALSE, !.long = TRUE, !.fails = 0, !.backoffs = 0,
                                        !.retry = "none", !.earned = TRUE]
             ELSE [name EXCEPT !.earned = TRUE])

SizesNext ==
    \/ \E class \in 0..MaxClass : Ask(class) \/ \E cut \in BOOLEAN : Outcome(class, cut)
    \/ Unblock
    \/ \E f \in 0..MaxClass : Shrink(f)
    \/ RetryTime \/ BeginNameProbe
    \/ \E probe, run \in BOOLEAN : QueryFailed(probe, run)
    \/ \E probe \in BOOLEAN : QueryAnswered(probe)

SizesSpec == SizesInit /\ [][SizesNext]_sizesVars

----------------------------------------------------------------------------
SizesTypeOK ==
    /\ size.ok \in 0..MaxClass /\ size.ceil \in 1..(MaxClass + 1) /\ size.test \in 0..MaxClass
    /\ IsABag(asked) /\ BagToSet(asked) \subseteq 0..MaxClass

(* The network's limit lies between what is used and what is ruled out,    *)
(* so that when they meet the path has found it: outcomes of queries sent  *)
(* for an earlier trial, for the guard or cut short may come in between.   *)
(* A network that lets through less than before only moves it down.        *)
Bracketed ==
    /\ fits < size.ceil /\ size.ok < size.ceil
    /\ ~shrunk => size.ok <= fits

(* A trial is of a size larger than what is used and not ruled out. *)
TrialUseful == size.test # 0 => size.ok < size.test /\ size.test < size.ceil

(* Names that failed are tried again some day. *)
NamesRetried == name.fails >= 2 => name.retry # "none"

SizesFound == SizesTypeOK /\ Bracketed /\ TrialUseful /\ NamesRetried
=============================================================================
