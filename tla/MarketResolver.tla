--------------------------- MODULE MarketResolver ---------------------------
(***************************************************************************)
(* How scripts/collect_ticks.py knows which market of a series trades now: *)
(* a lookup at the venue behind a cache, the next market parked before it  *)
(* opens (the prewarm) and promoted when it does, the windows opened and   *)
(* closed by it, and the start that waits for a fresh boundary.            *)
(*                                                                         *)
(* A market is [series, nth, gen]: the nth window of its series, in its    *)
(* gen-th listing, for the venue may replace it.  Window n of a series     *)
(* starts at n * Duration[series].  A round of poll_once is one step: its  *)
(* lookups run at once, each on a series of its own, and the next round    *)
(* starts after 1..MaxGap units.                                           *)
(*                                                                         *)
(* A definition named Bug... is not part of the model: it is a plausible   *)
(* mistake in the definition after it, which one of the properties catches.*)
(***************************************************************************)
EXTENDS Integers, FiniteSets, FiniteSetsExt, Functions

CONSTANTS
    Count,          \* series are 0..Count-1, in the order of SERIES
    Duration,       \* of each series
    Boundary,       \* where every series starts a window: next_fresh_boundary
    Lead, Stagger, Steps,   \* PREWARM_LEAD_SEC, _STAGGER_SEC, _STAGGER_STEPS
    Cooldown,       \* PREWARM_RETRY_COOLDOWN
    MaxAge,         \* GAMMA_CACHE_MAX_AGE
    WakeLead,       \* ALIGN_WAKE_LEAD_SEC
    Aligned,        \* no --no-align
    StartTimes,     \* when main starts
    ListAt,         \* how long before its start a market may be listed
    MaxGap,         \* units from one round to the next
    MaxSkew,        \* units a lookup may come after the round's now
    LateCalls,      \* may a lookup of the live market fail,
    PrewarmFails,   \*   and one of the next
    MaxFails, MaxReplaced, MaxTime  \* bounds

ASSUME ResolverAssumption ==
    /\ Count \in Nat \ {0} /\ Duration \in [0..Count-1 -> Nat \ {0}]
    /\ Boundary \in Nat \ {0} /\ StartTimes \subseteq Nat
    /\ \A s \in 0..Count-1 : Boundary % Duration[s] = 0
    /\ {Lead, Stagger, Cooldown, MaxAge, WakeLead, MaxSkew} \subseteq Nat
    /\ Steps \in Nat \ {0} /\ MaxGap \in Nat \ {0} /\ MaxSkew <= MaxGap

SeriesIds == 0..Count-1
None == [series |-> -1, nth |-> -1, gen |-> -1]
Never == -1
Start(m) == m.nth * Duration[m.series]
End(m) == (m.nth + 1) * Duration[m.series]

VARIABLES
    clock, nextRound,
    listed,         \* external: markets the venue lists as not closed
    listedAt, gone, \* auxiliary: when a market was listed, when replaced
    cache,          \* _gamma_cache: [at, market]
    prewarm,        \* _prewarm: the parked market, or None
    attempt,        \* _prewarm_attempt
    cutoff,         \* _join_cutoff, or Never
    target,         \* auxiliary: the first cutoff, or Never
    open,           \* windows: market -> when its window was opened
    closed,         \* auxiliary: [market, first] of the windows closed
    served,         \* auxiliary: the market each series was resolved to
    last,           \* auxiliary: the last round: [now, until, calls]
    fails, replaced \* bounds

venue == <<listed, listedAt, gone, replaced>>
resolverVars == <<clock, nextRound, listed, listedAt, gone, cache, prewarm, attempt, cutoff,
          target, open, closed, served, last, fails, replaced>>

BugNextBoundary(now) == (now \div Duration[0] + 1) * Duration[0]
NextBoundary(now) == (now \div Boundary + 1) * Boundary

\* main: wake before the next boundary, and record nothing that opened before it.
ResolverInit ==
    /\ clock \in StartTimes
    /\ LET boundary == NextBoundary(clock)
           wake == Max({clock, boundary - WakeLead})
       IN /\ nextRound = IF Aligned THEN wake ELSE clock
          /\ cutoff = IF Aligned THEN boundary ELSE Never
    /\ target = cutoff
    /\ listed = {[series |-> s, nth |-> clock \div Duration[s], gen |-> 0] : s \in SeriesIds}
    /\ listedAt = [m \in listed |-> Start(m) - Lead]
    /\ gone = <<>> /\ replaced = 0
    /\ cache = [s \in SeriesIds |-> [at |-> Never, market |-> None]]
    /\ prewarm = [s \in SeriesIds |-> None] /\ attempt = [s \in SeriesIds |-> Never]
    /\ open = <<>> /\ closed = {} /\ served = [s \in SeriesIds |-> None]
    /\ last = [now |-> clock, until |-> clock, calls |-> 0] /\ fails = 0

-----------------------------------------------------------------------------
(* Time and the venue.                                                     *)

\* The markets that may be listed, and must be, when the clock reaches t.
Due(t, when) == {[series |-> s, nth |-> t \div Duration[s] + 1, gen |-> 0] :
                    s \in {r \in SeriesIds : Duration[r] - (t % Duration[r]) \in when}}
Known(m) == m \in DOMAIN listedAt

TimePasses ==
    /\ clock < nextRound /\ clock < MaxTime
    /\ clock' = clock + 1
    /\ \E new \in SUBSET {m \in Due(clock + 1, ListAt) : ~Known(m)} :
        /\ {m \in Due(clock + 1, {Min(ListAt)}) : ~Known(m)} \subseteq new
        /\ listed' = {m \in listed : End(m) > clock + 1} \cup new
        /\ listedAt' = [m \in DOMAIN listedAt \cup new |->
                            IF m \in new THEN clock + 1 ELSE listedAt[m]]
    /\ UNCHANGED <<nextRound, gone, replaced, cache, prewarm, attempt, cutoff, target,
                   open, closed, served, last, fails>>

\* The venue replaces a market it lists, under another conditionId.
Replace ==
    /\ replaced < MaxReplaced
    /\ \E m \in listed :
        LET n == [m EXCEPT !.gen = @ + 1] IN
        /\ listed' = (listed \ {m}) \cup {n}
        /\ listedAt' = [x \in DOMAIN listedAt \cup {n} |-> IF x = n THEN clock ELSE listedAt[x]]
        /\ gone' = [x \in DOMAIN gone \cup {m} |-> IF x = m THEN clock ELSE gone[x]]
    /\ replaced' = replaced + 1
    /\ UNCHANGED <<clock, nextRound, cache, prewarm, attempt, cutoff, target, open, closed,
                   served, last, fails>>

-----------------------------------------------------------------------------
(* One round.                                                              *)

\* select_window, at the time of the lookup.
LiveAt(s, t) == {m \in listed : m.series = s /\ Start(m) <= t /\ t < End(m)}
Newest(ms) == IF ms = {} THEN None
              ELSE CHOOSE m \in ms : \A n \in ms : n.nth <= m.nth
\* fetch_next_market_for_series
Upcoming(s, now) == {m \in listed : m.series = s /\ Start(m) > now}
Earliest(ms) == IF ms = {} THEN None
                ELSE CHOOSE m \in ms : \A n \in ms : m.nth <= n.nth

\* A parked market that has opened moves into the cache.
Promoted(s, now) == prewarm[s] # None /\ now >= Start(prewarm[s])
CacheAt(s, now) == IF Promoted(s, now) THEN [at |-> now, market |-> prewarm[s]] ELSE cache[s]

Hit(e, now) == e.market # None /\ now < End(e.market) /\ now - e.at < MaxAge

\* resolve_series_market: a failed lookup leaves the cache as it is.
Resolve(s, now, t, failed) ==
    LET e == CacheAt(s, now)
        m == IF s \in failed THEN None ELSE Newest(LiveAt(s, t))
    IN IF Hit(e, now) THEN [cache |-> e, info |-> e.market]
       ELSE IF m = None THEN [cache |-> e, info |-> None]
       ELSE [cache |-> [at |-> now, market |-> m], info |-> m]

\* A window that opened before recording was armed is not recorded.
Adopted(infos) == {m \in infos \ {None} :
                     m \in DOMAIN open \/ cutoff = Never \/ Start(m) >= cutoff}

\* The series whose next market is looked up in this round.
DueForPrewarm(s, info, parked, now) ==
    /\ parked = None /\ info # None
    /\ ~(attempt[s] # Never /\ now - attempt[s] < Cooldown)
    /\ End(info) - now > 0 /\ End(info) - now <= Lead + (s % Steps) * Stagger

\* A parked market that missed its promotion is dropped; then the lookups.
Park(s, parked, jobs, failed, now) ==
    IF s \notin jobs \/ s \in failed THEN parked ELSE Earliest(Upcoming(s, now))
StillParked(s, now) ==
    IF Promoted(s, now) \/ (prewarm[s] # None /\ Start(prewarm[s]) < now - Lead)
    THEN None ELSE prewarm[s]

\* The lookups of the live markets may come skew late, and may fail, or miss the next one.
RoundWith(skew, failed, missed) ==
    LET now == clock
        r == [s \in SeriesIds |-> Resolve(s, now, now + skew, failed)]
        adopted == Adopted({r[s].info : s \in SeriesIds})
        held == [m \in DOMAIN open \cup adopted |-> IF m \in DOMAIN open THEN open[m] ELSE now]
        ended == {m \in DOMAIN held : End(m) < now}
        parked == [s \in SeriesIds |-> StillParked(s, now)]
        jobs == {s \in SeriesIds : DueForPrewarm(s, r[s].info, parked[s], now)}
    IN /\ failed = {} \/ (LateCalls /\ fails < MaxFails)
       /\ missed \subseteq jobs /\ (missed = {} \/ (PrewarmFails /\ fails < MaxFails))
       /\ fails' = IF failed \cup missed = {} THEN fails ELSE fails + 1
       /\ cache' = [s \in SeriesIds |-> r[s].cache]
       /\ served' = [s \in SeriesIds |-> r[s].info]
       /\ prewarm' = [s \in SeriesIds |-> Park(s, parked[s], jobs, missed, now)]
       /\ attempt' = [s \in SeriesIds |-> IF s \in jobs THEN now ELSE attempt[s]]
       /\ open' = Restrict(held, DOMAIN held \ ended)
       /\ closed' = closed \cup {[market |-> m, first |-> held[m]] : m \in ended}
       /\ last' = [now |-> now, until |-> now + skew, calls |-> Cardinality(jobs)]
       /\ cutoff' = IF cutoff # Never /\ now >= cutoff THEN Never ELSE cutoff
       /\ \E gap \in Max({1, skew})..MaxGap : nextRound' = clock + gap

Round ==
    /\ clock = nextRound /\ clock < MaxTime
    /\ \E skew \in 0..MaxSkew, failed \in SUBSET SeriesIds, missed \in SUBSET SeriesIds :
        RoundWith(skew, failed, missed)
    /\ UNCHANGED <<clock, venue, target>>

ResolverNext == TimePasses \/ Replace \/ Round

ResolverSpec == ResolverInit /\ [][ResolverNext]_resolverVars

-----------------------------------------------------------------------------
(* Properties.                                                             *)

Markets == DOMAIN listedAt
ResolverTypeOK ==
    /\ clock \in 0..MaxTime /\ nextRound - clock \in 0..Max({MaxGap, Boundary})
    /\ \A s \in SeriesIds : {cache[s].market, prewarm[s], served[s]} \subseteq Markets \cup {None}
    /\ DOMAIN open \subseteq Markets /\ {c.market : c \in closed} \subseteq Markets
    /\ \A s \in SeriesIds : prewarm[s] # None => Start(prewarm[s]) > last.now
    /\ last.calls \in 0..Count

\* No market is taken for the live one before it opens or after it has ended,
\* though the next one is already parked.
ServedIsLive ==
    \A s \in DOMAIN served : served[s] # None =>
        Start(served[s]) <= last.until /\ last.now < End(served[s])

\* A market the venue replaced is not served longer than GAMMA_CACHE_MAX_AGE
\* from the replacement, or from the first round after it opened.
ReplacedIsDropped ==
    \A s \in DOMAIN served : served[s] \in DOMAIN gone =>
        last.now - Max({gone[served[s]], Start(served[s])}) < MaxAge + MaxGap

\* A window is opened once and closed once.
ClosedOnce ==
    /\ \A c \in closed : c.market \notin DOMAIN open
    /\ \A c, d \in closed : c.market = d.market => c = d

\* A late start records no window that was in flight.
JoinsFresh ==
    \A m \in DOMAIN open \cup {c.market : c \in closed} : Start(m) >= target

\* What a series is recorded under, and when.
MarketIsLive == ServedIsLive /\ ReplacedIsDropped /\ ClosedOnce /\ JoinsFresh

\* A window is recorded from the first round after it opens, though the lookups
\* of the live market fail, if it was listed in time for the prewarm.
ListedInTime(m) == listedAt[m] <= Start(m) - Cooldown - (1 + MaxFails) * MaxGap
OpensOnTime ==
    \A m \in Markets :
        (/\ ListedInTime(m) /\ m \notin DOMAIN gone /\ m.gen = 0
         /\ Start(m) >= target /\ Start(m) - Lead >= Min(StartTimes)
         /\ Start(m) <= last.now /\ clock < nextRound)
            => \/ m \in DOMAIN open /\ open[m] - Start(m) < MaxGap
               \/ \E c \in closed : c.market = m /\ c.first - Start(m) < MaxGap

(* What a comment says: "a round carries at most two" of the lookups.      *)
AtMostTwoCalls == last.calls <= 2
=============================================================================
