--------------------------- MODULE EngineConfig ---------------------------
(***************************************************************************)
(* The configuration of strategy/live_trader.py and who may change it      *)
(* when: update_config, start, stop, the panic button and the balance      *)
(* fetches that run beside them, together with the orders and positions    *)
(* that a change of the market selection or of the mode must not orphan.   *)
(*                                                                         *)
(* update_config holds the engine's lock while it cancels orders at the    *)
(* venue, so it is one step with an outcome for each cancel; the fetch it  *)
(* ends with is not under the lock.  The quotes of a market stand for all  *)
(* of its venue orders.                                                    *)
(*                                                                         *)
(* A definition named Bug... is not part of the model: it is a plausible   *)
(* mistake in the definition after it, which one of the properties catches.*)
(***************************************************************************)
EXTENDS Integers, Sequences, FiniteSets, SequencesExt

CONSTANTS
    Slugs,          \* the series that can be selected
    Sides,          \* the sides of a market's quotes, in the order they are cancelled
    Keep,           \* what a request says of a field it leaves alone
    Wallets,        \* wallet addresses
    Blank,          \* the address that is not given
    Funder,         \* POLY_FUNDER, or Blank: the address taken for a blank one
    Relayer,        \* the address a fetch finds for itself when there is neither
    InitialMode,    \* paper or live
    InitialWallet,
    Requests,       \* what may be posted: [select, mode, wallet, knob, authority]
    Faults,         \* late: an order is in flight during a change; refuse: the venue
                    \* answers cancel_all with a refusal; background: a fetch overlaps
    MaxCalls        \* bound: configuration changes posted

ASSUME EngineConfigAssumption ==
    /\ InitialMode \in {"paper", "live"} /\ MaxCalls \in Nat 
    /\ InitialWallet \in Wallets \cup {Blank} /\ Funder \in Wallets \cup {Blank}
    /\ Relayer \in Wallets /\ Blank \notin Wallets /\ "operator" \notin Wallets
    /\ Faults \subseteq {"late", "refuse", "background"}
    /\ Keep \notin Wallets \cup {Blank}

VARIABLES
    running,        \* is_running
    mode,
    wallet,         \* wallet_address
    knob,           \* the scalar parameters
    selected,       \* slugs of selected_series
    markets,        \* keys of markets
    handles,        \* order handles the markets hold, as [slug, side]
    legs,           \* fills the markets know of
    venue,          \* orders resting at the venue
    holdings,       \* legs held and not yet sold, merged or settled
    inflight,       \* orders submitted whose answer has not come
    loose,          \* auxiliary: orders that the engine let go of unanswered
    balanceOf,      \* the wallet whose value starting_balance is, or operator
    fetches,        \* value fetches under way, as [by, wallet]
    amiss,          \* auxiliary: the value is known not to be the wallet's: none was
                    \* fetched, the fetch failed, or a background fetch or a refused
                    \* change has come over it
    calls,          \* configuration changes posted
    answer          \* what the last one was answered: none, ok, refused

config == <<mode, wallet, knob, selected, markets>>
book == <<handles, legs, venue, holdings, inflight, loose>>
value == <<balanceOf, fetches, amiss>>
configVars == <<running, config, book, value, calls, answer>>

Order(s, side) == [slug |-> s, side |-> side]
Orders == {Order(s, side) : s \in Slugs, side \in ToSet(Sides)}
OfSlug(os, s) == {o \in os : o.slug = s}
\* The address in use, and the one that a fetch for it reports.
Address(w) == IF w = Blank THEN Funder ELSE w
Found(a) == IF a = Blank THEN Relayer ELSE a

ConfigInit ==
    /\ running = FALSE /\ mode = InitialMode
    /\ wallet = InitialWallet /\ knob = 0
    /\ selected = Slugs /\ markets = Slugs
    /\ handles = {} /\ legs = {} /\ venue = {} /\ holdings = {}
    /\ inflight = {} /\ loose = {}
    /\ balanceOf = "operator" /\ fetches = {} /\ amiss = TRUE
    /\ calls = 0 /\ answer = "none"

-----------------------------------------------------------------------------
(* Trading, as far as the configuration has to know.                       *)

\* A quote goes to the venue without the lock; its id is kept when the answer comes,
\* by the market state the tick had in hand: a market that was deselected meanwhile
\* has another, and what it had in flight is loose.
Submit(s, side) ==
    /\ running /\ s \in markets
    /\ Order(s, side) \notin handles \cup legs \cup inflight
    /\ inflight' = inflight \cup {Order(s, side)}
    /\ venue' = IF mode = "live" THEN venue \cup {Order(s, side)} ELSE venue
    /\ UNCHANGED <<running, config, handles, legs, holdings, loose, value, calls, answer>>

Receive(o) ==
    /\ o \in inflight
    /\ inflight' = inflight \ {o}
    /\ handles' = handles \cup {o}
    /\ UNCHANGED <<running, config, legs, venue, holdings, loose, value, calls, answer>>

VenueFill(o) ==
    /\ o \in venue
    /\ venue' = venue \ {o}
    /\ holdings' = holdings \cup {o}
    /\ UNCHANGED <<running, config, handles, legs, inflight, loose, value, calls, answer>>

\* The engine hears of a fill from a poll or from the user channel, running or not.
LearnFill(o) ==
    /\ o \in handles \ legs
    /\ o \in holdings \/ (mode = "paper" /\ running)
    /\ legs' = legs \cup {o}
    /\ holdings' = holdings \cup {o}
    /\ UNCHANGED <<running, config, handles, venue, inflight, loose, value, calls, answer>>

\* An outcome or a rollover empties the market for the next round.
CloseRound(s) ==
    /\ running
    /\ OfSlug(venue \cup inflight, s) = {}
    /\ OfSlug(holdings, s) = OfSlug(legs, s)
    /\ handles' = handles \ OfSlug(handles, s)
    /\ legs' = legs \ OfSlug(legs, s)
    /\ holdings' = holdings \ OfSlug(holdings, s)
    /\ UNCHANGED <<running, config, venue, inflight, loose, value, calls, answer>>

-----------------------------------------------------------------------------
(* start, stop and cancel_all_orders.                                      *)

\* Starting schedules a fetch of the balance in the background.
Start ==
    /\ ~running
    /\ running' = TRUE
    /\ fetches' = IF "background" \in Faults
                  THEN fetches \cup {[by |-> "background", wallet |-> Address(wallet)]}
                  ELSE fetches
    /\ UNCHANGED <<config, book, balanceOf, amiss, calls, answer>>

\* The panic button clears the handles once the venue has answered, whatever it has
\* answered; without a client, or when the call raises, they stay.  A call that raises may
\* have cancelled them.
CancelAll ==
    /\ running' = FALSE
    /\ \/ handles' = {} /\ venue' = {} /\ UNCHANGED loose
       \/ /\ mode = "live" /\ "refuse" \in Faults
          /\ handles' = {} /\ loose' = loose \cup (handles \cap venue) /\ UNCHANGED venue
       \/ mode = "live" /\ venue' \in {venue, {}} /\ UNCHANGED <<handles, loose>>
    /\ UNCHANGED <<config, legs, holdings, inflight, value, calls, answer>>

Stop ==
    /\ running
    /\ IF mode = "live" THEN CancelAll
       ELSE /\ running' = FALSE
            /\ UNCHANGED <<config, book, value, calls, answer>>

-----------------------------------------------------------------------------
(* update_config.                                                          *)

NakedIn(s) == Cardinality(OfSlug(legs, s)) = 1
Selection(r) == IF r.select = {} THEN markets ELSE r.select
Removed(r) == markets \ Selection(r)
Unless(v, old) == IF v = Keep THEN old ELSE v

Changes(r) ==
    \/ Selection(r) # markets
    \/ Unless(r.mode, mode) # mode
    \/ Unless(r.wallet, wallet) # wallet
    \/ Unless(r.knob, knob) # knob

\* The orders of a market that is removed are cancelled one after the other, in the
\* order of Sides, and the first that fails keeps the market: gone is what succeeded.
Before(o, p) ==
    /\ o.slug = p.slug
    /\ \E i, j \in DOMAIN Sides : i < j /\ Sides[i] = o.side /\ Sides[j] = p.side
CancelOutcomes(r) ==
    {gone \in SUBSET {o \in handles \cap venue : o.slug \in Removed(r)} :
        \A o \in handles, p \in gone : Before(o, p) => o \in gone}
BugDropped(r, gone) == Removed(r)
Dropped(r, gone) == {s \in Removed(r) : OfSlug(handles, s) \subseteq gone}

Refuse ==
    /\ answer' = "refused"
    /\ UNCHANGED <<running, config, book, value>>

\* A market whose orders could not be cancelled is retained, and stays selected.
Retain(r, gone) == selected \cap (Removed(r) \ Dropped(r, gone))

ApplySelection(r, gone) ==
    /\ markets' = Selection(r) \cup (markets \ Dropped(r, gone))
    /\ selected' = Selection(r) \cup Retain(r, gone)
    /\ handles' = handles \ gone /\ venue' = venue \ gone
    /\ LET of(os) == {o \in os : o.slug \in Dropped(r, gone)}
       IN  /\ legs' = legs \ of(legs)
           /\ inflight' = inflight \ of(inflight) /\ loose' = loose \cup of(inflight)

\* A fill not yet paired, sold or settled, in a market that is kept, or a position that
\* was fetched together with the value.
Exposed(open) == legs' # {} \/ open
MayBeOpen == IF balanceOf = "operator" THEN {FALSE} ELSE BOOLEAN

\* The checks that come after the selection and the first scalars: a refusal here
\* leaves those changed.  In paper mode the operator may give the balance; in live mode
\* it is fetched, unless ws_book_authority is refused, with mode and wallet changed.
ApplyScalars(r, open) ==
    /\ knob' = Unless(r.knob, knob)
    /\ IF mode = "live" /\ r.mode = "paper" /\ Exposed(open)
       THEN /\ answer' = "refused"
            /\ UNCHANGED <<mode, wallet, value>>
       ELSE /\ mode' = Unless(r.mode, mode)
            /\ wallet' = Unless(r.wallet, wallet)
            /\ IF mode' = "live" THEN UNCHANGED balanceOf ELSE balanceOf' \in {balanceOf, "operator"}
            /\ IF r.authority = "no bool"
               THEN /\ answer' = "refused" /\ UNCHANGED fetches
                    /\ amiss' = (amiss \/ mode' # mode \/ wallet' # wallet)
               ELSE /\ answer' = "ok"
                    /\ IF mode' = "live"
                       THEN /\ fetches' = fetches \cup
                                   {[by |-> "config", wallet |-> Address(wallet')]}
                            /\ amiss' = FALSE
                       ELSE UNCHANGED <<fetches, amiss>>
    /\ UNCHANGED <<running, holdings>>

UpdateConfig(r) ==
    /\ calls < MaxCalls /\ calls' = calls + 1
    /\ inflight = {} \/ "late" \in Faults
    /\ IF running
       THEN IF Changes(r) THEN Refuse
            ELSE answer' = "ok" /\ UNCHANGED <<running, config, book, value>>
       ELSE IF \E s \in Removed(r) : NakedIn(s) THEN Refuse
            ELSE \E gone \in CancelOutcomes(r), open \in MayBeOpen :
                     ApplySelection(r, gone) /\ ApplyScalars(r, open)

\* A fetch also gives a wallet that is blank the address it was for.
GivenWallet(f) == IF wallet = Blank THEN Found(f.wallet) ELSE wallet

BugConfigFetched(f, success) ==
    /\ f \in fetches /\ f.by = "config"
    /\ fetches' = fetches \ {f}
    /\ IF mode = "live" /\ success
       THEN balanceOf' = Found(f.wallet) /\ wallet' = GivenWallet(f) /\ amiss' = FALSE
       ELSE UNCHANGED <<balanceOf, wallet>> /\ amiss' = (mode = "live" \/ amiss)
    /\ UNCHANGED <<running, mode, knob, selected, markets, book, calls, answer>>

\* The value a change of configuration fetched counts if the wallet is still the same;
\* a failure schedules a fetch in the background.
ConfigFetched(f, success) ==
    /\ f \in fetches /\ f.by = "config"
    /\ IF mode = "live" /\ Address(wallet) = f.wallet
       THEN IF success
            THEN /\ balanceOf' = Found(f.wallet) /\ wallet' = GivenWallet(f)
                 /\ amiss' = FALSE /\ fetches' = fetches \ {f}
            ELSE /\ amiss' = TRUE
                 /\ fetches' = (fetches \ {f}) \cup
                       (IF "background" \in Faults
                        THEN {[by |-> "background", wallet |-> Address(wallet)]} ELSE {})
                 /\ UNCHANGED <<balanceOf, wallet>>
       ELSE fetches' = fetches \ {f} /\ UNCHANGED <<balanceOf, wallet, amiss>>
    /\ UNCHANGED <<running, mode, knob, selected, markets, book, calls, answer>>

\* _try_fetch_wallet_balance read the address when it began; it looks at the mode
\* before it writes the value, and at nothing before it fills a blank wallet.
BackgroundFetched(f, success) ==
    /\ f \in fetches /\ f.by = "background"
    /\ fetches' = fetches \ {f}
    /\ wallet' = IF success THEN GivenWallet(f) ELSE wallet
    /\ IF success /\ mode = "live"
       THEN balanceOf' = Found(f.wallet) /\ amiss' = (Found(f.wallet) # Address(wallet'))
       ELSE UNCHANGED <<balanceOf, amiss>>
    /\ UNCHANGED <<running, mode, knob, selected, markets, book, calls, answer>>

ConfigNext ==
    \/ \E s \in Slugs, side \in ToSet(Sides) : Submit(s, side)
    \/ \E o \in Orders : Receive(o) \/ VenueFill(o) \/ LearnFill(o)
    \/ \E s \in Slugs : CloseRound(s)
    \/ Start \/ Stop \/ CancelAll
    \/ \E r \in Requests : UpdateConfig(r)
    \/ \E f \in fetches, success \in BOOLEAN : ConfigFetched(f, success) \/ BackgroundFetched(f, success)

ConfigSpec == ConfigInit /\ [][ConfigNext]_configVars

-----------------------------------------------------------------------------
(* Properties.                                                             *)

ConfigTypeOK ==
    /\ running \in BOOLEAN /\ mode \in {"paper", "live"} /\ wallet \in Wallets \cup {Blank}
    /\ markets \subseteq Slugs /\ selected \subseteq Slugs
    /\ handles \subseteq Orders /\ legs \subseteq holdings
    /\ venue \subseteq Orders /\ holdings \subseteq Orders /\ inflight \subseteq Orders
    /\ loose \subseteq Orders
    /\ answer \in {"none", "ok", "refused"}

\* The selection shown is the set of markets there are, also when the venue keeps a
\* deselected market by refusing to cancel its orders.
SelectedIsMarkets == selected = markets

\* A market is retained "to prevent unmanaged resting order": an order at the venue,
\* once answered, belongs to a market that is there and has its handle, and a leg
\* filled alone to a market that is there.  The exceptions are the orders in flight
\* when their market is deselected and those whose cancel the venue has refused.
NothingUnmanaged ==
    /\ \A o \in venue \ (inflight \cup loose) : o.slug \in markets /\ o \in handles
    /\ \A s \in Slugs : NakedIn(s) => s \in markets

MarketsManaged == SelectedIsMarkets /\ NothingUnmanaged

\* "Live mode: locked starting balance to Polymarket net account value": whatever the
\* order in which changes are posted and their fetches answered, the balance of a live
\* engine is the one of the wallet in use, or a fetch of that is on its way, unless it is
\* known to be amiss.
BalanceLocked ==
    mode = "live" /\ ~amiss =>
        \/ balanceOf = Address(wallet)
        \/ \E f \in fetches : f.by = "config" /\ f.wallet = Address(wallet)

\* update_config: "No configuration field is modified when this is raised."
RefusedModifiesNothing ==
    [][calls' # calls /\ answer' = "refused" => UNCHANGED config]_configVars

\* In paper mode, where there is no venue to refuse anything, a selection that is
\* answered ok is the selection.
DeselectionTakesEffect ==
    [][\A r \in Requests :
         (UpdateConfig(r) /\ answer' = "ok" /\ mode = "paper" /\ ~running) => selected' = Selection(r)]_configVars

=============================================================================
