--------------------------- MODULE HashCheckProofs ---------------------------
(***************************************************************************)
(* What HashCheck promises of the bytes it has verified, for any days,     *)
(* statuses and sizes of a file: replaced without the guard, they stay     *)
(* detectable until an alarm is given.  What a file does not begin with it *)
(* never begins with again, since a block is new when it is written; so    *)
(* the entry of a day that was replaced unseen stays the prefix of nothing *)
(* that the file becomes, and is no generation a logged rewrite gave up,   *)
(* for those begin with an older block than the file has.  A check carries *)
(* these facts from its hash to the entry that it writes.                  *)
(***************************************************************************)
EXTENDS HashCheck, SequenceTheorems, TLAPS

\* One check at a time: one process that verifies, or nothing else while one runs.
Solitary == Alone \/ \A c, e \in Checkers : c = e

Bytes == Seq(Nat)
Entries == [sha : Bytes, size : Nat]
Reports == [status : {"none", "PASS", "WARN", "FAIL"},
            label : {"none", "COMPLETE CAPTURE", "PARTIAL CAPTURE", "CORRUPTED DATA"},
            flagged : BOOLEAN]
Checks == [at : {"idle", "hash", "compare", "update", "write"}, day : Days, entry : Entries,
           current : Bytes, report : Reports, store : {<<>>} \cup [Days -> Entries]]
Rewrites == [at : {"idle", "moved", "landed"}, day : Days, old : Bytes]

Typed ==
    /\ file \in [Days -> Bytes] /\ backup \in SUBSET Bytes /\ store \in [Days -> Entries]
    /\ events \in SUBSET [day : Days, old : Bytes]
    /\ rewriter \in Rewrites /\ check \in [Checkers -> Checks]
    /\ broken \in [Days -> {"no", "silent", "logged"}]
    /\ alarms \in [Days -> Nat] /\ fresh \in Nat
    /\ \A c \in Checkers : check[c].at = "write" => check[c].store \in [Days -> Entries]

\* A block is new when it is written.
Written(q) == \A i \in DOMAIN q : q[i] < fresh

-----------------------------------------------------------------------------
(* Prefixes *)

LEMMA PrefixItems ==
    ASSUME NEW s \in Bytes, NEW t \in Bytes
    PROVE  IsPrefix(s, t) <=> Len(s) <= Len(t) /\ \A i \in 1 .. Len(s) : s[i] = t[i]
<1>1. Len(s) \in Nat /\ Len(t) \in Nat BY DEF Bytes
<1>2. CASE Len(s) <= Len(t)
    <2>1. /\ SubSeq(s, 1, Len(s)) \in Seq(Nat) /\ Len(SubSeq(s, 1, Len(s))) = Len(s)
          /\ \A i \in 1 .. Len(s) : SubSeq(s, 1, Len(s))[i] = s[i]
        BY <1>1, SubSeqProperties DEF Bytes
    <2>2. /\ SubSeq(t, 1, Len(s)) \in Seq(Nat) /\ Len(SubSeq(t, 1, Len(s))) = Len(s)
          /\ \A i \in 1 .. Len(s) : SubSeq(t, 1, Len(s))[i] = t[i]
        BY <1>1, <1>2, SubSeqProperties DEF Bytes
    <2>3. ASSUME \A i \in 1 .. Len(s) : s[i] = t[i]
          PROVE  SubSeq(s, 1, Len(s)) = SubSeq(t, 1, Len(s))
        <3> DEFINE u == SubSeq(s, 1, Len(s))
                   v == SubSeq(t, 1, Len(s))
        <3>1. u \in Seq(Nat) /\ v \in Seq(Nat) /\ Len(u) = Len(v)
              /\ \A i \in 1 .. Len(u) : u[i] = v[i]
            BY <2>1, <2>2, <2>3
        <3> HIDE DEF u, v
        <3>2. u = v BY <3>1, SeqEqual
        <3> QED BY <3>2 DEF u, v
    <2> QED BY <1>2, <2>1, <2>2, <2>3 DEF IsPrefix
<1> QED BY <1>1, <1>2 DEF IsPrefix

LEMMA PrefixTransitive ==
    ASSUME NEW s \in Bytes, NEW t \in Bytes, NEW u \in Bytes, IsPrefix(s, t), IsPrefix(t, u)
    PROVE  IsPrefix(s, u)
<1>1. Len(s) \in Nat /\ Len(t) \in Nat /\ Len(u) \in Nat BY DEF Bytes
<1> QED BY <1>1, PrefixItems

\* What has the recorded bytes to their length begins with them.
LEMMA UnchangedIsPrefix ==
    ASSUME NEW q \in Bytes, NEW e \in Entries, Unchanged(q, e)
    PROVE  IsPrefix(e.sha, q)
<1>1. e.sha \in Bytes /\ e.size \in Nat /\ Len(q) \in Nat /\ e.size <= Len(q) 
    BY DEF Entries, Unchanged, Bytes
<1>2. SubSeq(q, 1, e.size) = e.sha BY DEF Unchanged
<1>3. Len(e.sha) = e.size /\ \A i \in 1 .. e.size : e.sha[i] = q[i]
    BY <1>1, <1>2, SubSeqProperties DEF Bytes
<1> QED BY <1>1, <1>3, PrefixItems

-----------------------------------------------------------------------------
(* How the bytes of a file change: a block is put before or behind them, or *)
(* they are cut.  What they do not begin with, they never begin with again. *)

Changed(q, r) ==
    /\ r \in Bytes /\ \A i \in DOMAIN r : r[i] <= fresh
    /\ \A s \in Bytes : s # Missing /\ Written(s) /\ IsPrefix(s, r) => IsPrefix(s, q)
    /\ r # Missing => r[1] = fresh \/ (q # Missing /\ r[1] = q[1])

LEMMA NewBytes ==
    ASSUME Typed, NEW q \in Bytes, NEW r \in Bytes, r # Missing, r[1] = fresh,
           \A i \in DOMAIN r : r[i] <= fresh
    PROVE  Changed(q, r)
<1>1. SUFFICES ASSUME NEW s \in Bytes, s # Missing, Written(s), IsPrefix(s, r) PROVE FALSE
    BY DEF Changed
<1>2. 1 \in DOMAIN s /\ 1 \in 1 .. Len(s) BY <1>1 DEF Bytes, Missing
<1>3. s[1] = r[1] BY <1>1, <1>2, PrefixItems
<1> QED BY <1>1, <1>2, <1>3 DEF Written, Typed, Bytes

LEMMA OneBlock == ASSUME Typed, NEW q \in Bytes PROVE Changed(q, <<fresh>>)
<1>1. <<fresh>> \in Bytes /\ <<fresh>> # Missing /\ <<fresh>>[1] = fresh
      /\ DOMAIN <<fresh>> = 1 .. 1
    BY DEF Typed, Bytes, Missing
<1> QED BY <1>1, NewBytes DEF Typed

LEMMA NoBytes == ASSUME NEW q \in Bytes PROVE Changed(q, Missing)
<1>1. SUFFICES ASSUME NEW s \in Bytes, s # Missing, IsPrefix(s, Missing) PROVE FALSE
    BY DEF Changed, Missing, Bytes
<1>2. Len(s) \in Nat /\ Len(Missing) = 0 /\ Missing \in Bytes BY DEF Bytes, Missing
<1>3. Len(s) <= 0 BY <1>1, <1>2, PrefixItems
<1> QED BY <1>1, <1>2, <1>3, EmptySeq DEF Bytes, Missing

LEMMA Appended ==
    ASSUME Typed, NEW q \in Bytes, Written(q)
    PROVE  Changed(q, Append(q, fresh))
<1> DEFINE r == Append(q, fresh)
<1>1. /\ r \in Bytes /\ Len(r) = Len(q) + 1 /\ Len(q) \in Nat /\ r[Len(q) + 1] = fresh
      /\ \A i \in 1 .. Len(q) : r[i] = q[i]
      /\ DOMAIN r = 1 .. Len(r) /\ DOMAIN q = 1 .. Len(q) /\ fresh \in Nat
      /\ \A i \in DOMAIN q : q[i] \in Nat
    BY AppendProperties DEF Bytes, Typed
<1> HIDE DEF r
<1>2. \A i \in DOMAIN r : r[i] <= fresh
    <2> SUFFICES ASSUME NEW i \in DOMAIN r PROVE r[i] <= fresh OBVIOUS
    <2>1. CASE i = Len(q) + 1 BY <2>1, <1>1
    <2>2. CASE i # Len(q) + 1
        <3>1. i \in 1 .. Len(q) BY <2>2, <1>1
        <3> QED BY <3>1, <1>1 DEF Written
    <2> QED BY <2>1, <2>2
<1>3. ASSUME NEW s \in Bytes, s # Missing, Written(s), IsPrefix(s, r)
      PROVE  IsPrefix(s, q)
    <2>1. Len(s) \in Nat /\ DOMAIN s = 1 .. Len(s) BY DEF Bytes
    <2>2. Len(s) <= Len(q) + 1 /\ \A i \in 1 .. Len(s) : s[i] = r[i]
        BY <1>1, <1>3, PrefixItems
    <2>3. Len(s) # Len(q) + 1
        <3> SUFFICES ASSUME Len(s) = Len(q) + 1 PROVE FALSE OBVIOUS
        <3>1. s[Len(s)] = fresh BY <2>1, <2>2, <1>1
        <3>2. Len(s) \in DOMAIN s BY <2>1, <1>1
        <3> QED BY <1>3, <3>1, <3>2, <1>1 DEF Written
    <2>4. Len(s) <= Len(q)
        <3> DEFINE n == Len(s)
                   k == Len(q)
        <3>1. n \in Nat /\ k \in Nat /\ n <= k + 1 /\ n # k + 1 BY <2>1, <2>2, <2>3, <1>1
        <3> HIDE DEF n, k
        <3>2. n <= k BY <3>1
        <3> QED BY <3>2 DEF n, k
    <2>5. ASSUME NEW i \in 1 .. Len(s) PROVE s[i] = q[i]
        <3>1. i \in 1 .. Len(q) BY <2>1, <2>4, <2>5, <1>1
        <3> QED BY <3>1, <2>2, <1>1
    <2> QED BY <2>4, <2>5, PrefixItems, <1>3
<1>4. r[1] = fresh \/ (q # Missing /\ r[1] = q[1])
    <2>1. CASE q = Missing
        <3>1. Len(q) = 0 BY <2>1 DEF Missing
        <3> QED BY <3>1, <1>1
    <2>2. CASE q # Missing
        <3>1. 1 \in 1 .. Len(q) BY <2>2, <1>1, EmptySeq DEF Bytes, Missing
        <3> QED BY <2>2, <3>1, <1>1
    <2> QED BY <2>1, <2>2
<1>5. Changed(q, r) BY <1>1, <1>2, <1>3, <1>4 DEF Changed
<1> QED BY <1>5 DEF r

LEMMA Edited ==
    ASSUME Typed, ~Restores, NEW q \in Bytes, q # Missing, Written(q), NEW r \in Edits(q)
    PROVE  Changed(q, r) /\ r # Missing
<1>1. r # Missing /\ r \in {<<fresh>>, Front(q), <<fresh>> \o Tail(q)} BY DEF Edits
<1>2. CASE r = <<fresh>> BY <1>1, <1>2, OneBlock
<1>0. Len(q) \in Nat /\ DOMAIN q = 1 .. Len(q) /\ fresh \in Nat
      /\ \A i \in 1 .. Len(q) : q[i] \in Nat /\ q[i] < fresh
    BY DEF Typed, Bytes, Written
<1>3. CASE r = Front(q)
    <2>2. Len(q) >= 1 BY <1>0, EmptySeq DEF Bytes, Missing
    <2>3. /\ r \in Bytes /\ Len(r) = Len(q) - 1
          /\ \A i \in 1 .. Len(q) - 1 : r[i] = q[i]
        BY <1>3, <1>0, <2>2, SubSeqProperties DEF Front, Bytes
    <2>4. DOMAIN r = 1 .. Len(q) - 1 BY <2>3 DEF Bytes
    <2>5. Len(r) >= 1 BY <2>3, <1>1, <1>0, EmptySeq DEF Bytes, Missing
    <2>6. \A i \in DOMAIN r : r[i] <= fresh
        <3> SUFFICES ASSUME NEW i \in DOMAIN r PROVE r[i] <= fresh OBVIOUS
        <3>1. i \in 1 .. Len(q) /\ r[i] = q[i] BY <2>3, <2>4, <1>0
        <3> QED BY <3>1, <1>0
    <2>7. ASSUME NEW s \in Bytes, IsPrefix(s, r) PROVE IsPrefix(s, q)
        <3>0. Len(r) <= Len(q) /\ \A i \in 1 .. Len(r) : r[i] = q[i] BY <2>3, <1>0
        <3>1. IsPrefix(r, q) BY <2>3, <3>0, PrefixItems
        <3> QED BY <2>7, <2>3, <3>1, PrefixTransitive
    <2>8. r[1] = q[1] BY <2>3, <2>5, <1>0
    <2> QED BY <1>1, <2>3, <2>6, <2>7, <2>8 DEF Changed
<1>4. CASE r = <<fresh>> \o Tail(q)
    <2>0. SUFFICES r \in Bytes /\ r[1] = fresh /\ \A i \in DOMAIN r : r[i] <= fresh
        BY <1>1, NewBytes
    <2>1. <<fresh>> \in Seq(Nat) /\ Len(<<fresh>>) = 1 /\ <<fresh>>[1] = fresh BY <1>0
    <2>2. Len(q) >= 1 BY <1>0, EmptySeq DEF Bytes, Missing
    <2>3. /\ Tail(q) \in Seq(Nat) /\ Len(Tail(q)) = Len(q) - 1
          /\ \A i \in 1 .. Len(q) - 1 : Tail(q)[i] = q[i + 1]
        BY <2>2, HeadTailProperties DEF Bytes, Missing
    <2>4. /\ r \in Seq(Nat) /\ Len(r) = Len(q)
          /\ \A i \in 1 .. Len(q) : r[i] = IF i <= 1 THEN <<fresh>>[i] ELSE Tail(q)[i - 1]
        BY <1>4, <2>1, <2>3, <1>0, ConcatProperties
    <2>5. DOMAIN r = 1 .. Len(q) BY <2>4
    <2>6. r[1] = fresh BY <2>4, <2>2, <2>1, <1>0
    <2>7. ASSUME NEW i \in DOMAIN r PROVE r[i] <= fresh
        <3>1. CASE i = 1 BY <3>1, <2>6, <1>0
        <3>2. CASE i # 1
            <4>1. i - 1 \in 1 .. Len(q) - 1 /\ i \in 1 .. Len(q) BY <2>5, <3>2, <1>0
            <4>2. r[i] = q[i] BY <4>1, <2>3, <2>4, <1>0
            <4> QED BY <4>1, <4>2, <1>0
        <3> QED BY <3>1, <3>2
    <2> QED BY <2>4, <2>6, <2>7 DEF Bytes
<1> QED BY <1>1, <1>2, <1>3, <1>4

-----------------------------------------------------------------------------
(* The invariant *)

\* Generations of a day that a guarded rewrite replaced, or is replacing.
GivenUp(d) ==
    {e.old : e \in {x \in events : x.day = d}}
        \cup {g \in {rewriter.old} : rewriter.at # "idle" /\ rewriter.day = d}

FreshOK ==
    /\ \A d \in Days : Written(file[d]) /\ Written(store[d].sha)
    /\ \A c \in Checkers : Written(check[c].current)

\* What follows a generation begins with a younger block.
HeadsOK ==
    \A d \in Days : \A g \in GivenUp(d) :
        g # Missing /\ g[1] < fresh /\ (file[d] # Missing => g[1] < file[d][1])

StoreOK == \A d \in Days : store[d] # NoEntry => store[d].sha # Missing

\* The entry of a day that was replaced unseen is of bytes that are gone, and no
\* rewrite, logged or under way, speaks for them.
SilentOK ==
    \A d \in Days : broken[d] = "silent" =>
        ~ Extends(file[d], store[d]) /\ store[d].sha \notin GivenUp(d)

\* A check that will not flag has hashed the bytes of before the replacement.
CheckOK(k) ==
    /\ k.at # "idle" => k.entry = store[k.day]
    /\ k.at \in {"compare", "update", "write"} =>
           /\ k.current # Missing
           /\ Extends(file[k.day], store[k.day]) => Extends(k.current, store[k.day])
    /\ k.at \in {"update", "write"} /\ ~ k.report.flagged /\ broken[k.day] = "silent" =>
           Extends(k.current, store[k.day]) /\ k.current \notin GivenUp(k.day)
    /\ k.at = "write" =>
           k.store[k.day].sha = k.current /\ \A d \in Days \ {k.day} : k.store[d] = store[d]

OneCheck == \A c, e \in Checkers : check[c].at # "idle" /\ check[e].at # "idle" => c = e

BackedUp == LoggedIsKept /\ (rewriter.at # "idle" => rewriter.old \in backup)

EvInv ==
    /\ Typed /\ FreshOK /\ HeadsOK /\ StoreOK /\ SilentOK
    /\ \A c \in Checkers : CheckOK(check[c])

-----------------------------------------------------------------------------
(* Types *)

LEMMA TypedInit == Init => Typed
<1> SUFFICES ASSUME Init PROVE Typed OBVIOUS
<1>1. Missing \in Bytes /\ <<0>> \in Bytes BY DEF Missing, Bytes
<1>2. NoEntry \in Entries BY <1>1 DEF NoEntry, Entries
<1>3. NoReport \in Reports BY DEF NoReport, Reports
<1>4. Resting \in Checks /\ Resting.at = "idle"
    BY <1>1, <1>2, <1>3, HashAssumption DEF Resting, Checks
<1>5. NoRewrite \in Rewrites BY <1>1, HashAssumption DEF NoRewrite, Rewrites
<1> QED BY <1>1, <1>2, <1>3, <1>4, <1>5 DEF Init, Typed

LEMMA EditsAreBytes ==
    ASSUME Typed, NEW q \in Bytes, q # Missing, NEW r \in Edits(q)
    PROVE  r \in Bytes /\ r # Missing
<1>0. Len(q) \in Nat /\ Len(q) >= 1 /\ fresh \in Nat BY EmptySeq DEF Typed, Bytes, Missing
<1>1. Front(q) \in Bytes BY <1>0, SubSeqProperties DEF Front, Bytes
<1>2. Tail(q) \in Bytes /\ <<fresh>> \in Bytes BY <1>0, HeadTailProperties DEF Bytes, Missing
<1>3. <<fresh>> \o Tail(q) \in Bytes BY <1>2, ConcatProperties DEF Bytes
<1> QED BY <1>1, <1>2, <1>3 DEF Edits, Typed

LEMMA TypedStep == Typed /\ [Next]_vars => Typed'
<1> SUFFICES ASSUME Typed, [Next]_vars PROVE Typed'
    OBVIOUS
<1> USE HashAssumption
<1>0. /\ Missing \in Bytes /\ <<fresh>> \in Bytes /\ fresh \in Nat
      /\ NoRewrite \in Rewrites /\ NoRewrite.at = "idle"
      /\ Resting \in Checks /\ Resting.at = "idle"
    <2>1. Missing \in Bytes /\ <<fresh>> \in Bytes /\ fresh \in Nat BY DEF Missing, Bytes, Typed
    <2>2. NoEntry \in Entries BY <2>1 DEF NoEntry, Entries
    <2>3. NoReport \in Reports BY DEF NoReport, Reports
    <2> QED BY <2>1, <2>2, <2>3 DEF Resting, Checks, NoRewrite, Rewrites
<1>1. CASE Append1
    <2>1. Append(file[Live], fresh) \in Bytes BY <1>0, AppendProperties DEF Typed, Bytes
    <2> QED BY <1>1, <1>0, <2>1 DEF Append1, Typed
<1>2. CASE LandRewrite
    <2>1. PICK bytes \in {<<fresh>>} \cup backup : file' = [file EXCEPT ![rewriter.day] = bytes]
        BY <1>2 DEF LandRewrite
    <2>2. bytes \in Bytes BY <2>1, <1>0 DEF Typed
    <2>3. rewriter' \in Rewrites /\ fresh' \in Nat BY <1>2, <1>0 DEF LandRewrite, Typed, Rewrites
    <2>4. broken' \in [Days -> {"no", "silent", "logged"}] /\ alarms' \in [Days -> Nat]
        BY <1>2 DEF LandRewrite, Typed
    <2> QED BY <1>2, <2>1, <2>2, <2>3, <2>4 DEF LandRewrite, Typed
<1>3. CASE RecordRewriteEvent
    BY <1>3, <1>0 DEF RecordRewriteEvent, Typed, Rewrites
<1>4. CASE RewriterDies BY <1>4, <1>0 DEF RewriterDies, Typed
<1>5. ASSUME NEW d \in Days, Silent(d) PROVE Typed'
    <2>1. PICK bytes \in Edits(file[d]) :
              /\ file' = [file EXCEPT ![d] = bytes]
              /\ broken' = [broken EXCEPT ![d] =
                     IF Extends(bytes, store[d]) THEN "no"
                     ELSE IF Extends(file[d], store[d]) THEN "silent" ELSE @]
        BY <1>5 DEF Silent
    <2>2. bytes \in Bytes BY <2>1, <1>5, EditsAreBytes DEF Silent, Typed
    <2>3. broken' \in [Days -> {"no", "silent", "logged"}] BY <2>1 DEF Typed
    <2> QED BY <1>5, <1>0, <2>1, <2>2, <2>3 DEF Silent, Typed
<1>6. ASSUME NEW d \in Days, GuardDayWrite(d) PROVE Typed'
    BY <1>6, <1>0 DEF GuardDayWrite, Typed, Rewrites
<1>7. ASSUME NEW c \in Checkers, NEW d \in Days, NEW s \in Statuses, Scan(c, d, s) PROVE Typed'
    <2> DEFINE k == [Resting EXCEPT !.at = "hash", !.day = d, !.entry = store[d],
                        !.report = [status |-> s, label |-> CaptureState(s), flagged |-> FALSE]]
    <2>1. [status |-> s, label |-> CaptureState(s), flagged |-> FALSE] \in Reports
        BY DEF Reports, CaptureState
    <2>2. k \in Checks /\ k.at = "hash" BY <1>0, <2>1 DEF Checks, Typed
    <2>3. check' = [check EXCEPT ![c] = k] BY <1>7 DEF Scan
    <2> HIDE DEF k
    <2> QED BY <1>7, <2>2, <2>3 DEF Scan, Typed
<1>8. ASSUME NEW c \in Checkers, Hash(c) PROVE Typed'
    <2>0. check[c] \in Checks /\ check[c].day \in Days /\ file[check[c].day] \in Bytes
        BY DEF Typed, Checks
    <2>1. CASE file[check[c].day] = Missing
        <3>1. check' = [check EXCEPT ![c] = Resting] BY <1>8, <2>1 DEF Hash, Give
        <3> QED BY <1>8, <1>0, <3>1 DEF Hash, Typed
    <2>2. CASE file[check[c].day] # Missing
        <3> DEFINE k == [check[c] EXCEPT !.at = "compare", !.current = file[check[c].day]]
        <3>1. k \in Checks /\ k.at = "compare" BY <2>0 DEF Checks
        <3>2. check' = [check EXCEPT ![c] = k] BY <1>8, <2>2 DEF Hash
        <3> HIDE DEF k
        <3> QED BY <1>8, <3>1, <3>2 DEF Hash, Typed
    <2> QED BY <2>1, <2>2
<1>9. ASSUME NEW c \in Checkers, Compare(c) PROVE Typed'
    <2>1. check[c] \in Checks /\ check[c].day \in Days BY DEF Typed, Checks
    <2>2. Flagged(check[c].report) \in Reports BY <2>1 DEF Flagged, Reports, CaptureState, Checks
    <2>3. CASE file[check[c].day] = Missing BY <1>9, <1>0, <2>3 DEF Compare, Typed
    <2>4. CASE file[check[c].day] # Missing
        <3> DEFINE alarm == /\ check[c].entry # NoEntry
                            /\ ~ Unchanged(file[check[c].day], check[c].entry)
                            /\ ~ Explained(check[c].day, check[c].entry)
                   k == [check[c] EXCEPT !.at = "update",
                             !.report = IF alarm THEN Flagged(check[c].report) ELSE check[c].report]
        <3>1. k \in Checks /\ k.at = "update" BY <2>1, <2>2 DEF Checks
        <3>2. check' = [check EXCEPT ![c] = k] BY <1>9, <2>4 DEF Compare
        <3>3. alarms' \in [Days -> Nat] BY <1>9, <2>1, <2>4 DEF Compare, Typed
        <3> HIDE DEF k
        <3> QED BY <1>9, <3>1, <3>2, <3>3 DEF Compare, Typed
    <2> QED BY <2>3, <2>4
<1>10. ASSUME NEW c \in Checkers, ReadStore(c) PROVE Typed'
    <2>1. check[c] \in Checks /\ check[c].day \in Days BY DEF Typed, Checks
    <2>3. CASE file[check[c].day] = Missing BY <1>10, <1>0, <2>3 DEF ReadStore, Typed
    <2>4. CASE file[check[c].day] # Missing
        <3> DEFINE n == [sha |-> check[c].current, size |-> Len(file[check[c].day])]
                   k == [check[c] EXCEPT !.at = "write",
                             !.store = [store EXCEPT ![check[c].day] = n]]
        <3>1. n \in Entries BY <2>1 DEF Entries, Checks, Typed, Bytes
        <3>2. [store EXCEPT ![check[c].day] = n] \in [Days -> Entries] BY <3>1, <2>1 DEF Typed
        <3>3. k \in Checks /\ k.store \in [Days -> Entries] BY <2>1, <3>2 DEF Checks
        <3>4. check' = [check EXCEPT ![c] = k] BY <1>10, <2>4 DEF ReadStore
        <3> HIDE DEF k
        <3> QED BY <1>10, <3>3, <3>4 DEF ReadStore, Typed
    <2> QED BY <2>3, <2>4
<1>11. ASSUME NEW c \in Checkers, WriteStore(c) PROVE Typed'
    <2>1. check[c] \in Checks /\ check[c].day \in Days BY DEF Typed, Checks
    <2>2. broken' \in [Days -> {"no", "silent", "logged"}] BY <1>11, <2>1 DEF WriteStore, Typed
    <2> QED BY <1>11, <1>0, <2>1, <2>2 DEF WriteStore, Give, Typed
<1>12. CASE UNCHANGED vars BY <1>12 DEF vars, Typed
<1> QED BY <1>1, <1>2, <1>3, <1>4, <1>5, <1>6, <1>7, <1>8, <1>9, <1>10, <1>11, <1>12 DEF Next

-----------------------------------------------------------------------------
(* The bytes of one day change *)

\* What the day file begins with does not change while it extends an entry.
LEMMA SameHead ==
    ASSUME NEW q \in Bytes, NEW e \in Entries, e.sha # Missing, IsPrefix(e.sha, q)
    PROVE  q # Missing /\ q[1] = e.sha[1]
<1>1. e.sha \in Bytes BY DEF Entries
<1>2. Len(e.sha) \in Nat /\ Len(e.sha) >= 1 /\ Len(q) \in Nat BY <1>1, EmptySeq DEF Bytes, Missing
<1>3. Len(e.sha) <= Len(q) /\ \A i \in 1 .. Len(e.sha) : e.sha[i] = q[i]
    BY <1>1, PrefixItems
<1>4. 1 \in 1 .. Len(e.sha) /\ Len(q) # 0 BY <1>2, <1>3
<1> QED BY <1>3, <1>4 DEF Missing

\* A file that extends the entry of its day is younger than what was given up.
LEMMA NotGivenUp ==
    ASSUME Typed, HeadsOK, StoreOK, NEW d \in Days, NEW q \in Bytes, store[d] # NoEntry,
           Extends(file[d], store[d]), Extends(q, store[d])
    PROVE  q \notin GivenUp(d)
<1>1. store[d] \in Entries /\ store[d].sha # Missing /\ file[d] \in Bytes BY DEF Typed, StoreOK
<1>2. file[d] # Missing /\ file[d][1] = store[d].sha[1] /\ q[1] = store[d].sha[1]
    BY <1>1, SameHead DEF Extends
<1>3. SUFFICES ASSUME q \in GivenUp(d) PROVE FALSE OBVIOUS
<1>4. q[1] < file[d][1] BY <1>2, <1>3 DEF HeadsOK
<1>5. file[d][1] \in Nat
    <2>1. 1 \in 1 .. Len(file[d]) BY <1>1, <1>2, EmptySeq DEF Bytes, Missing
    <2> QED BY <1>1, <2>1 DEF Bytes
<1> QED BY <1>2, <1>4, <1>5

LEMMA FilesDescend ==
    ASSUME Typed, FreshOK, StoreOK, NEW d \in Days, NEW r, Changed(file[d], r),
           file' = [file EXCEPT ![d] = r], UNCHANGED store, NEW e \in Days,
           Extends(file'[e], store'[e])
    PROVE  Extends(file[e], store[e])
<1>1. CASE e # d BY <1>1 DEF Typed
<1>2. CASE e = d /\ store[d] # NoEntry
    <2>1. store[d].sha \in Bytes /\ store[d].sha # Missing /\ Written(store[d].sha)
        BY <1>2 DEF Typed, Entries, StoreOK, FreshOK
    <2>2. IsPrefix(store[d].sha, r) BY <1>2 DEF Typed, Extends
    <2> QED BY <1>2, <2>1, <2>2 DEF Changed, Extends
<1>3. CASE e = d /\ store[d] = NoEntry BY <1>3 DEF Extends
<1> QED BY <1>1, <1>2, <1>3

LEMMA FreshStep ==
    ASSUME Typed, FreshOK, NEW d \in Days, NEW r, Changed(file[d], r),
           file' = [file EXCEPT ![d] = r], UNCHANGED <<store, check>>,
           fresh' = fresh + 1 \/ (fresh' = fresh /\ r = Missing)
    PROVE  FreshOK'
<1>0. fresh \in Nat /\ fresh <= fresh' /\ fresh' \in Nat BY DEF Typed
<1>1. ASSUME NEW e \in Days PROVE Written(file[e])'
    <2>1. CASE e # d
        <3> SUFFICES ASSUME NEW i \in DOMAIN file[e] PROVE file[e][i] < fresh'
            BY <2>1 DEF Written, Typed
        <3>1. file[e] \in Bytes /\ file[e][i] \in Nat /\ file[e][i] < fresh
            BY DEF Typed, FreshOK, Written, Bytes
        <3> QED BY <3>1, <1>0
    <2>2. CASE e = d
        <3>1. r \in Bytes /\ file'[e] = r /\ \A i \in DOMAIN r : r[i] \in Nat /\ r[i] <= fresh
            BY <2>2 DEF Typed, Changed, Bytes
        <3>2. CASE r = Missing BY <3>1, <3>2 DEF Written, Missing
        <3>3. CASE r # Missing BY <3>1, <3>3, <1>0 DEF Written
        <3> QED BY <3>2, <3>3
    <2> QED BY <2>1, <2>2
<1>2. ASSUME NEW q \in Bytes, Written(q) PROVE \A i \in DOMAIN q : q[i] < fresh'
    <2>1. \A i \in DOMAIN q : q[i] \in Nat BY DEF Bytes
    <2> QED BY <1>0, <1>2, <2>1 DEF Written
<1>3. ASSUME NEW e \in Days PROVE Written(store[e].sha)'
    BY <1>2 DEF Written, FreshOK, Typed, Entries
<1>4. ASSUME NEW c \in Checkers PROVE Written(check[c].current)'
    BY <1>2 DEF Written, FreshOK, Typed, Checks
<1> QED BY <1>1, <1>3, <1>4 DEF FreshOK

LEMMA HeadsStep ==
    ASSUME Typed, FreshOK, HeadsOK, NEW d \in Days, NEW r, Changed(file[d], r),
           file' = [file EXCEPT ![d] = r],
           fresh' = fresh + 1 \/ (fresh' = fresh /\ r = Missing),
           \A e \in Days : GivenUp(e)' \subseteq GivenUp(e)
    PROVE  HeadsOK'
<1> SUFFICES ASSUME NEW e \in Days, NEW g \in GivenUp(e)
             PROVE  g # Missing /\ g[1] < fresh' /\ (file'[e] # Missing => g[1] < file'[e][1])
    BY DEF HeadsOK
<1>1. g # Missing /\ g[1] < fresh /\ (file[e] # Missing => g[1] < file[e][1]) BY DEF HeadsOK
<1>2. g \in Bytes BY DEF GivenUp, Typed, Rewrites
<1>3. g[1] \in Nat
    <2>1. 1 \in 1 .. Len(g) BY <1>1, <1>2, EmptySeq DEF Bytes, Missing
    <2> QED BY <1>2, <2>1 DEF Bytes
<1>4. fresh \in Nat /\ fresh <= fresh' /\ fresh' \in Nat BY DEF Typed
<1>5. g[1] < fresh' BY <1>1, <1>3, <1>4
<1>6. CASE e # d BY <1>1, <1>5, <1>6 DEF Typed
<1>7. CASE e = d
    <2>1. file'[e] = r BY <1>7 DEF Typed
    <2>2. r # Missing => r[1] = fresh \/ (file[e] # Missing /\ r[1] = file[e][1])
        BY <1>7 DEF Changed
    <2> QED BY <1>1, <1>5, <2>1, <2>2
<1> QED BY <1>6, <1>7

\* Bytes that no check hashed take nothing from what the checks have.
LEMMA ChecksStep ==
    ASSUME EvInv, NEW d \in Days, NEW r, Changed(file[d], r),
           file' = [file EXCEPT ![d] = r], UNCHANGED <<store, check>>,
           \A e \in Days : GivenUp(e)' \subseteq GivenUp(e) \cup {g \in {file[e]} : g \notin {file'[e]}},
           \A e \in Days : broken'[e] = "silent" =>
               broken[e] = "silent" \/ (/\ Extends(file[e], store[e]) /\ ~ Extends(file'[e], store[e])
                                       /\ GivenUp(e)' \subseteq GivenUp(e)),
           NEW c \in Checkers
    PROVE  CheckOK(check[c])'
<1>0. check[c] \in Checks /\ check[c].day \in Days BY DEF EvInv, Typed, Checks
<1> SUFFICES ASSUME NEW k \in Checks, NEW e \in Days, k = check[c], e = k.day
             PROVE  CheckOK(check[c])'
    BY <1>0
<1>1. /\ k.current \in Bytes /\ CheckOK(k) /\ check'[c] = k /\ store' = store
      /\ Typed /\ HeadsOK /\ StoreOK /\ FreshOK /\ SilentOK
    BY DEF EvInv, Checks
<1>2. Extends(file'[e], store[e]) => Extends(file[e], store[e]) BY <1>1, FilesDescend
<1>3. ASSUME k.at \in {"update", "write"}, ~ k.report.flagged, broken'[e] = "silent"
      PROVE  Extends(k.current, store[e]) /\ k.current \notin GivenUp(e)'
    <2>1. CASE broken[e] = "silent"
        <3>1. Extends(k.current, store[e]) /\ k.current \notin GivenUp(e) BY <1>1, <1>3, <2>1 DEF CheckOK
        <3>2. ~ Extends(file[e], store[e]) BY <1>1, <2>1 DEF SilentOK
        <3> QED BY <3>1, <3>2, <1>1
    <2>2. CASE broken[e] # "silent"
        <3>1. /\ Extends(file[e], store[e]) /\ ~ Extends(file'[e], store[e])
              /\ GivenUp(e)' \subseteq GivenUp(e)
            BY <1>1, <1>3, <2>2
        <3>2. store[e] # NoEntry BY <3>1 DEF Extends
        <3>3. Extends(k.current, store[e]) BY <1>1, <1>3, <3>1 DEF CheckOK
        <3> QED BY <1>1, <3>1, <3>2, <3>3, NotGivenUp
    <2> QED BY <2>1, <2>2
<1>4. CheckOK(k)'
    <2>1. /\ k.at # "idle" => k.entry = store'[e]
          /\ k.at \in {"compare", "update", "write"} =>
                /\ k.current # Missing
                /\ Extends(file'[e], store'[e]) => Extends(k.current, store'[e])
          /\ k.at = "write" =>
                k.store[e].sha = k.current /\ \A x \in Days \ {e} : k.store[x] = store'[x]
        BY <1>1, <1>2 DEF CheckOK
    <2> QED BY <1>1, <1>3, <2>1 DEF CheckOK
<1> QED BY <1>1, <1>4
\* The bytes of one day change.
LEMMA FileStep ==
    ASSUME EvInv, Typed', HeadsOK', NEW d \in Days, NEW r, Changed(file[d], r),
           file' = [file EXCEPT ![d] = r], UNCHANGED <<store, check>>,
           fresh' = fresh + 1 \/ (fresh' = fresh /\ r = Missing),
           \A e \in Days : GivenUp(e)' \subseteq GivenUp(e) \cup {g \in {file[e]} : g \notin {file'[e]}},
           \A e \in Days : broken'[e] = "silent" =>
               broken[e] = "silent" \/ (/\ Extends(file[e], store[e]) /\ ~ Extends(file'[e], store[e])
                                       /\ GivenUp(e)' \subseteq GivenUp(e))
    PROVE  EvInv'
<1>1. Typed /\ FreshOK /\ HeadsOK /\ StoreOK /\ SilentOK /\ store' = store BY DEF EvInv
<1>2. FreshOK' BY <1>1, FreshStep
<1>3. StoreOK' BY <1>1 DEF StoreOK
<1>4. ASSUME NEW e \in Days, broken'[e] = "silent"
      PROVE  ~ Extends(file'[e], store'[e]) /\ store'[e].sha \notin GivenUp(e)'
    <2>0. store[e] \in Entries /\ store[e].sha \in Bytes /\ file[e] \in Bytes
        BY <1>1 DEF Typed, Entries
    <2>1. CASE broken[e] = "silent"
        <3>1. ~ Extends(file[e], store[e]) /\ store[e].sha \notin GivenUp(e)
            BY <1>1, <2>1 DEF SilentOK
        <3>2. ~ Extends(file'[e], store'[e]) BY <1>1, <3>1, FilesDescend
        <3>3. store[e].sha # file[e]
            <4> SUFFICES ASSUME store[e].sha = file[e] PROVE FALSE OBVIOUS
            <4>1. IsPrefix(file[e], file[e])
                <5>1. Len(file[e]) \in Nat BY <2>0 DEF Bytes
                <5> QED BY <2>0, <5>1, PrefixItems
            <4> QED BY <3>1, <4>1 DEF Extends
        <3> QED BY <1>1, <3>1, <3>2, <3>3
    <2>2. CASE broken[e] # "silent"
        <3>1. /\ Extends(file[e], store[e]) /\ ~ Extends(file'[e], store[e])
              /\ GivenUp(e)' \subseteq GivenUp(e)
            BY <1>4, <2>2
        <3>2. store[e] # NoEntry BY <3>1 DEF Extends
        <3>3. Extends(store[e].sha, store[e])
            <4>1. Len(store[e].sha) \in Nat BY <2>0 DEF Bytes
            <4>2. IsPrefix(store[e].sha, store[e].sha) BY <2>0, <4>1, PrefixItems
            <4> QED BY <4>2 DEF Extends
        <3>4. store[e].sha \notin GivenUp(e) BY <1>1, <2>0, <3>1, <3>2, <3>3, NotGivenUp
        <3> QED BY <1>1, <3>1, <3>4
    <2> QED BY <2>1, <2>2
<1>5. ASSUME NEW c \in Checkers PROVE CheckOK(check[c])' BY ChecksStep
<1>6. SilentOK' BY <1>4 DEF SilentOK
<1> QED BY <1>2, <1>3, <1>5, <1>6 DEF EvInv

\* A step that leaves the files and the entries as they are.
LEMMA Settled ==
    ASSUME EvInv, Typed', UNCHANGED <<file, store, broken, fresh>>,
           \A e \in Days : GivenUp(e)' \subseteq GivenUp(e),
           \A c \in Checkers : check'[c] = check[c] \/ (Written(check'[c].current) /\ CheckOK(check'[c]))
    PROVE  EvInv'
<1>1. Typed /\ FreshOK /\ HeadsOK /\ StoreOK /\ SilentOK /\ \A c \in Checkers : CheckOK(check[c])
    BY DEF EvInv
<1>2. StoreOK' BY <1>1 DEF StoreOK
<1>3. HeadsOK'
    <2> SUFFICES ASSUME NEW e \in Days, NEW g \in GivenUp(e)'
                 PROVE  g # Missing /\ g[1] < fresh /\ (file[e] # Missing => g[1] < file[e][1])
        BY DEF HeadsOK
    <2> QED BY <1>1 DEF HeadsOK
<1>4. SilentOK'
    <2> SUFFICES ASSUME NEW e \in Days, broken[e] = "silent"
                 PROVE  ~ Extends(file[e], store[e]) /\ store[e].sha \notin GivenUp(e)'
        BY DEF SilentOK
    <2> QED BY <1>1 DEF SilentOK
<1>5. ASSUME NEW c \in Checkers PROVE Written(check'[c].current) /\ CheckOK(check'[c])
    <2>1. CASE check'[c] = check[c] BY <1>1, <2>1 DEF FreshOK
    <2> QED BY <2>1
<1>6. FreshOK' BY <1>1, <1>5 DEF FreshOK, Written
<1>7. ASSUME NEW c \in Checkers PROVE CheckOK(check[c])'
    <2>1. CheckOK(check'[c]) /\ check'[c] \in Checks BY <1>5 DEF Typed
    <2> SUFFICES ASSUME NEW k \in Checks, k = check'[c], CheckOK(k)
                 PROVE  CheckOK(k)'
        BY <2>1
    <2>2. k.day \in Days /\ CheckOK(k) BY DEF Checks
    <2>3. GivenUp(k.day)' \subseteq GivenUp(k.day) BY <2>2
    <2>4. /\ k.at # "idle" => k.entry = store'[k.day]
          /\ k.at \in {"compare", "update", "write"} =>
                /\ k.current # Missing
                /\ Extends(file'[k.day], store'[k.day]) => Extends(k.current, store'[k.day])
          /\ k.at \in {"update", "write"} /\ ~ k.report.flagged /\ broken'[k.day] = "silent" =>
                Extends(k.current, store'[k.day]) /\ k.current \notin GivenUp(k.day)'
          /\ k.at = "write" =>
                k.store[k.day].sha = k.current /\ \A d \in Days \ {k.day} : k.store[d] = store'[d]
        BY <2>2, <2>3 DEF CheckOK
    <2> QED BY <2>4 DEF CheckOK
<1> QED BY <1>2, <1>3, <1>4, <1>6, <1>7 DEF EvInv

-----------------------------------------------------------------------------
(* The steps *)

LEMMA EvInit == Init => EvInv /\ OneCheck /\ BackedUp
<1> SUFFICES ASSUME Init PROVE EvInv /\ OneCheck /\ BackedUp OBVIOUS
<1>1. Typed BY TypedInit
<1>3. Written(<<0>>) /\ Written(Missing)
    BY DEF Init, Written, Missing
<1>4. FreshOK BY <1>3 DEF Init, FreshOK, Resting, NoEntry
<1>5. HeadsOK BY DEF Init, HeadsOK, GivenUp, NoRewrite
<1>6. StoreOK /\ SilentOK BY DEF Init, StoreOK, SilentOK
<1>7. \A c \in Checkers : CheckOK(check[c]) BY DEF Init, CheckOK, Resting
<1>8. OneCheck /\ BackedUp
    BY DEF Init, OneCheck, BackedUp, LoggedIsKept, Resting, NoRewrite
<1> QED BY <1>1, <1>4, <1>5, <1>6, <1>7, <1>8 DEF EvInv

LEMMA FileSteps ==
    ASSUME EvInv, [Next]_vars, ~ Restores,
           Append1 \/ LandRewrite \/ \E d \in Days : Silent(d) \/ GuardDayWrite(d)
    PROVE  EvInv'
<1>0. Typed' /\ Typed /\ FreshOK /\ HeadsOK /\ StoreOK /\ SilentOK /\ Live \in Days
    BY TypedStep, HashAssumption DEF EvInv
<1>1. CASE Append1
    <2>1. Changed(file[Live], Append(file[Live], fresh)) BY <1>0, Appended DEF Typed, FreshOK
    <2>2. /\ file' = [file EXCEPT ![Live] = Append(file[Live], fresh)]
          /\ UNCHANGED <<store, check, broken>> /\ fresh' = fresh + 1
          /\ \A e \in Days : GivenUp(e)' \subseteq GivenUp(e)
        BY <1>1 DEF Append1, GivenUp
    <2>3. HeadsOK' BY <1>0, <2>1, <2>2, HeadsStep
    <2> QED BY <1>0, <2>1, <2>2, <2>3, FileStep
<1>2. CASE LandRewrite
    <2>1. rewriter.day \in Days /\ file[rewriter.day] \in Bytes BY <1>0 DEF Typed, Rewrites
    <2>2. Changed(file[rewriter.day], <<fresh>>) BY <1>0, <2>1, OneBlock
    <2>3. /\ file' = [file EXCEPT ![rewriter.day] = <<fresh>>]
          /\ UNCHANGED <<store, check>> /\ fresh' = fresh + 1
        BY <1>2 DEF LandRewrite
    <2>4. \A e \in Days : GivenUp(e)' \subseteq GivenUp(e)
        BY <1>2, <1>0 DEF LandRewrite, GivenUp, Typed, Rewrites
    <2>5. \A e \in Days : broken'[e] = "silent" => broken[e] = "silent"
        BY <1>2, <1>0 DEF LandRewrite, Typed
    <2>6. HeadsOK' BY <1>0, <2>1, <2>2, <2>3, <2>4, HeadsStep
    <2> QED BY <1>0, <2>1, <2>2, <2>3, <2>4, <2>5, <2>6, FileStep
<1>3. ASSUME NEW d \in Days, Silent(d) PROVE EvInv'
    <2>1. PICK r \in Edits(file[d]) :
              /\ file' = [file EXCEPT ![d] = r]
              /\ broken' = [broken EXCEPT ![d] =
                     IF Extends(r, store[d]) THEN "no"
                     ELSE IF Extends(file[d], store[d]) THEN "silent" ELSE @]
        BY <1>3 DEF Silent
    <2>2. file[d] \in Bytes /\ file[d] # Missing /\ Written(file[d]) /\ fresh' = fresh + 1
        BY <1>0, <1>3 DEF Silent, Typed, FreshOK
    <2>3. Changed(file[d], r) BY <1>0, <2>2, Edited
    <2>4. \A e \in Days : GivenUp(e)' \subseteq GivenUp(e) BY <1>3 DEF Silent, GivenUp
    <2>5. HeadsOK' BY <1>0, <2>1, <2>2, <2>3, <2>4, HeadsStep
    <2>6. UNCHANGED <<store, check>> BY <1>3 DEF Silent
    <2>7. ASSUME NEW e \in Days, broken'[e] = "silent"
          PROVE  broken[e] = "silent" \/ (/\ Extends(file[e], store[e]) /\ ~ Extends(file'[e], store[e])
                                          /\ GivenUp(e)' \subseteq GivenUp(e))
        <3>1. CASE e # d BY <1>0, <2>1, <2>7, <3>1 DEF Typed
        <3>2. CASE e = d /\ Extends(r, store[d]) BY <1>0, <2>1, <2>7, <3>2 DEF Typed
        <3>3. CASE e = d /\ ~ Extends(r, store[d])
            <4>1. file'[e] = r BY <1>0, <2>1, <3>3 DEF Typed
            <4>2. Extends(file[d], store[d]) \/ broken'[d] = broken[d]
                BY <1>0, <2>1, <3>3 DEF Typed
            <4> QED BY <2>4, <2>7, <3>3, <4>1, <4>2
        <3> QED BY <3>1, <3>2, <3>3
    <2> QED BY <1>0, <2>1, <2>2, <2>3, <2>4, <2>5, <2>6, <2>7, FileStep
<1>4. ASSUME NEW d \in Days, GuardDayWrite(d) PROVE EvInv'
    <2>1. file[d] \in Bytes /\ file[d] # Missing /\ Written(file[d])
        BY <1>0, <1>4 DEF GuardDayWrite, Typed, FreshOK
    <2>2. Changed(file[d], Missing) BY <2>1, NoBytes
    <2>3. file' = [file EXCEPT ![d] = Missing] /\ UNCHANGED <<store, check, broken, fresh>>
        BY <1>4 DEF GuardDayWrite
    <2>4. \A e \in Days : file'[e] = IF e = d THEN Missing ELSE file[e] BY <1>0, <2>3 DEF Typed
    <2>5. \A e \in Days : GivenUp(e)' \subseteq GivenUp(e) \cup {g \in {file[e]} : e = d}
        BY <1>4 DEF GuardDayWrite, GivenUp
    <2>6. \A e \in Days : GivenUp(e)' \subseteq GivenUp(e) \cup {g \in {file[e]} : g \notin {file'[e]}}
        BY <2>1, <2>4, <2>5
    <2>7. HeadsOK'
        <3> SUFFICES ASSUME NEW e \in Days, NEW g \in GivenUp(e)'
                     PROVE  g # Missing /\ g[1] < fresh' /\ (file'[e] # Missing => g[1] < file'[e][1])
            BY DEF HeadsOK
        <3>1. CASE g \in GivenUp(e)
            BY <1>0, <2>3, <2>4, <3>1 DEF HeadsOK
        <3>2. CASE e = d /\ g = file[d]
            <4>1. 1 \in DOMAIN file[d] BY <2>1, EmptySeq DEF Bytes, Missing
            <4> QED BY <2>1, <2>3, <2>4, <3>2, <4>1 DEF Written
        <3> QED BY <2>5, <3>1, <3>2
    <2> QED BY <1>0, <2>2, <2>3, <2>6, <2>7, FileStep
<1> QED BY <1>1, <1>2, <1>3, <1>4

LEMMA RewriterSteps ==
    ASSUME EvInv, [Next]_vars, RecordRewriteEvent \/ RewriterDies PROVE EvInv'
<1>0. Typed' /\ Typed BY TypedStep DEF EvInv
<1>1. \A e \in Days : GivenUp(e)' \subseteq GivenUp(e)
    <2>1. CASE RecordRewriteEvent
        BY <2>1, <1>0 DEF RecordRewriteEvent, GivenUp, NoRewrite, Typed, Rewrites
    <2>2. CASE RewriterDies BY <2>2 DEF RewriterDies, GivenUp, NoRewrite
    <2> QED BY <2>1, <2>2
<1>2. UNCHANGED <<file, store, broken, fresh, check>> BY DEF RecordRewriteEvent, RewriterDies
<1> QED BY <1>0, <1>1, <1>2, Settled

LEMMA IdleIsOK == NoReport.flagged = FALSE /\ Written(Missing) /\ CheckOK(Resting)
BY DEF NoReport, Written, Missing, CheckOK, Resting

\* A check that is under way goes on.
LEMMA CheckSteps ==
    ASSUME EvInv, [Next]_vars, NEW c \in Checkers,
           Hash(c) \/ Compare(c) \/ ReadStore(c) \/ \E d \in Days, s \in Statuses : Scan(c, d, s)
    PROVE  EvInv'
<1>0. /\ Typed' /\ Typed /\ FreshOK /\ HeadsOK /\ StoreOK /\ SilentOK
      /\ check[c] \in Checks /\ CheckOK(check[c]) /\ Written(check[c].current)
    BY TypedStep DEF EvInv, FreshOK, Typed
<1> DEFINE d == check[c].day
<1>1. d \in Days /\ file[d] \in Bytes /\ Written(file[d]) /\ store[d] \in Entries
      /\ check[c].current \in Bytes
    BY <1>0 DEF Typed, Checks, FreshOK
<1>2. UNCHANGED <<file, store, broken, fresh, events, rewriter>>
    BY DEF Hash, Compare, ReadStore, Scan, Give
<1>3. \A e \in Days : GivenUp(e)' \subseteq GivenUp(e) BY <1>2 DEF GivenUp
<1>4. SUFFICES ASSUME TRUE PROVE \E k : /\ check' = [check EXCEPT ![c] = k]
                                          /\ Written(k.current) /\ CheckOK(k)
    <2>1. ASSUME NEW k, check' = [check EXCEPT ![c] = k], Written(k.current), CheckOK(k)
          PROVE  EvInv'
        <3>1. \A x \in Checkers : check'[x] = check[x] \/ (Written(check'[x].current) /\ CheckOK(check'[x]))
            BY <1>0, <2>1 DEF Typed
        <3> QED BY <1>0, <1>2, <1>3, <3>1, Settled
    <2> QED BY <2>1
<1>5. CASE check' = [check EXCEPT ![c] = Resting]
    <2>1. Written(Resting.current) /\ CheckOK(Resting) BY IdleIsOK DEF Resting
    <2> QED BY <1>5, <2>1
<1>6. ASSUME NEW x \in Days, NEW s \in Statuses, Scan(c, x, s)
      PROVE  \E k : check' = [check EXCEPT ![c] = k] /\ Written(k.current) /\ CheckOK(k)
    <2> DEFINE k == [Resting EXCEPT !.at = "hash", !.day = x, !.entry = store[x],
                        !.report = [status |-> s, label |-> CaptureState(s), flagged |-> FALSE]]
    <2>1. check' = [check EXCEPT ![c] = k] BY <1>6 DEF Scan
    <2>2. k.at = "hash" /\ k.day = x /\ k.entry = store[x] /\ k.current = Missing BY DEF Resting
    <2>3. Written(k.current) /\ CheckOK(k) BY <2>2, IdleIsOK DEF CheckOK
    <2> QED BY <2>1, <2>3
<1>7. CASE Hash(c)
    <2>1. CASE file[d] = Missing BY <1>5, <1>7, <2>1 DEF Hash, Give
    <2>2. CASE file[d] # Missing
        <3> DEFINE k == [check[c] EXCEPT !.at = "compare", !.current = file[d]]
        <3>1. check' = [check EXCEPT ![c] = k] BY <1>7, <2>2 DEF Hash
        <3>2. k.at = "compare" /\ k.day = d /\ k.entry = check[c].entry /\ k.current = file[d]
            BY <1>0 DEF Checks
        <3>3. k.entry = store[d] BY <1>0, <1>7, <3>2 DEF CheckOK, Hash
        <3>4. Written(k.current) /\ CheckOK(k) BY <1>1, <2>2, <3>2, <3>3 DEF CheckOK
        <3> QED BY <3>1, <3>4
    <2> QED BY <2>1, <2>2
<1>8. CASE Compare(c)
    <2>1. CASE file[d] = Missing BY <1>5, <1>8, <2>1 DEF Compare
    <2>2. CASE file[d] # Missing
        <3> DEFINE alarm == /\ check[c].entry # NoEntry
                            /\ ~ Unchanged(file[d], check[c].entry)
                            /\ ~ Explained(d, check[c].entry)
                   k == [check[c] EXCEPT !.at = "update",
                             !.report = IF alarm THEN Flagged(check[c].report) ELSE check[c].report]
        <3>1. check' = [check EXCEPT ![c] = k] BY <1>8, <2>2 DEF Compare
        <3>2. /\ k.at = "update" /\ k.day = d /\ k.entry = check[c].entry
              /\ k.current = check[c].current /\ (alarm => k.report.flagged)
            BY <1>0 DEF Checks, Flagged
        <3>3. /\ check[c].entry = store[d] /\ check[c].current # Missing
              /\ Extends(file[d], store[d]) => Extends(check[c].current, store[d])
            BY <1>0, <1>8 DEF CheckOK, Compare
        <3>4. ASSUME broken[d] = "silent" PROVE alarm
            <4>1. ~ Extends(file[d], store[d]) /\ store[d].sha \notin GivenUp(d)
                BY <1>0, <1>1, <3>4 DEF SilentOK
            <4>2. store[d] # NoEntry /\ ~ IsPrefix(store[d].sha, file[d]) BY <4>1 DEF Extends
            <4>3. ~ Unchanged(file[d], store[d]) BY <1>1, <4>2, UnchangedIsPrefix
            <4>4. ~ Explained(d, store[d]) BY <4>1 DEF Explained, GivenUp
            <4> QED BY <3>3, <4>2, <4>3, <4>4
        <3> HIDE DEF k, alarm
        <3>5. Written(k.current) /\ CheckOK(k) BY <1>0, <3>2, <3>3, <3>4 DEF CheckOK
        <3> QED BY <3>1, <3>5
    <2> QED BY <2>1, <2>2
<1>9. CASE ReadStore(c)
    <2>1. CASE file[d] = Missing BY <1>5, <1>9, <2>1 DEF ReadStore
    <2>2. CASE file[d] # Missing
        <3> DEFINE n == [store EXCEPT ![d] = [sha |-> check[c].current, size |-> Len(file[d])]]
                   k == [check[c] EXCEPT !.at = "write", !.store = n]
        <3>1. check' = [check EXCEPT ![c] = k] BY <1>9, <2>2 DEF ReadStore
        <3>2. /\ k.at = "write" /\ k.day = d /\ k.entry = check[c].entry
              /\ k.current = check[c].current /\ k.report = check[c].report /\ k.store = n
            BY <1>0 DEF Checks
        <3>3. n[d].sha = check[c].current /\ \A x \in Days \ {d} : n[x] = store[x]
            BY <1>0, <1>1 DEF Typed
        <3>4. check[c].at = "update" BY <1>9 DEF ReadStore
        <3> HIDE DEF k, n
        <3>5. Written(k.current) /\ CheckOK(k) BY <1>0, <3>2, <3>3, <3>4 DEF CheckOK
        <3> QED BY <3>1, <3>5
    <2> QED BY <2>1, <2>2
<1> QED BY <1>6, <1>7, <1>8, <1>9

\* What a check writes: no other is under way.
LEMMA WriteStep ==
    ASSUME EvInv, OneCheck, [Next]_vars, NEW c \in Checkers, WriteStore(c)
    PROVE  EvInv'
<1>0. /\ Typed' /\ Typed /\ FreshOK /\ HeadsOK /\ StoreOK /\ SilentOK
      /\ check[c] \in Checks /\ CheckOK(check[c]) /\ Written(check[c].current)
    BY TypedStep DEF EvInv, FreshOK, Typed
<1> SUFFICES ASSUME NEW d \in Days, NEW k \in Checks, k = check[c], d = k.day PROVE EvInv'
    BY <1>0 DEF Checks
<1>1. /\ store' = k.store /\ check' = [check EXCEPT ![c] = Resting] /\ k.at = "write"
      /\ broken' = [broken EXCEPT ![d] = IF @ = "silent" /\ ~ k.report.flagged THEN @ ELSE "no"]
      /\ UNCHANGED <<file, events, rewriter, fresh>>
    BY DEF WriteStore, Give
<1>2. /\ store'[d].sha = k.current /\ k.current # Missing
      /\ \A x \in Days \ {d} : store'[x] = store[x]
      /\ ~ k.report.flagged /\ broken[d] = "silent" =>
            Extends(k.current, store[d]) /\ k.current \notin GivenUp(d)
    BY <1>0, <1>1 DEF CheckOK
<1>3. \A e \in Days : GivenUp(e)' = GivenUp(e) BY <1>1 DEF GivenUp
<1>4. FreshOK'
    <2>1. \A x \in Days : Written(store'[x].sha) BY <1>0, <1>2 DEF FreshOK
    <2>2. \A x \in Checkers : Written(check'[x].current)
        BY <1>0, <1>1, IdleIsOK DEF FreshOK, Resting, Typed
    <2> QED BY <1>0, <1>1, <2>1, <2>2 DEF FreshOK, Written
<1>5. HeadsOK'
    <2> SUFFICES ASSUME NEW e \in Days, NEW g \in GivenUp(e)'
                 PROVE  g # Missing /\ g[1] < fresh' /\ (file'[e] # Missing => g[1] < file'[e][1])
        BY DEF HeadsOK
    <2> QED BY <1>0, <1>1, <1>3 DEF HeadsOK
<1>6. StoreOK' BY <1>0, <1>2 DEF StoreOK
<1>7. ASSUME NEW e \in Days, broken'[e] = "silent"
      PROVE  ~ Extends(file'[e], store'[e]) /\ store'[e].sha \notin GivenUp(e)'
    <2>1. broken[e] = "silent" /\ (e = d => ~ k.report.flagged)
        BY <1>0, <1>1, <1>7 DEF Typed
    <2>2. ~ Extends(file[e], store[e]) /\ store[e].sha \notin GivenUp(e) BY <1>0, <2>1 DEF SilentOK
    <2>3. CASE e # d BY <1>1, <1>2, <1>3, <2>2, <2>3
    <2>4. CASE e = d
        <3>1. Extends(k.current, store[d]) /\ k.current \notin GivenUp(d) BY <1>2, <2>1, <2>4
        <3>2. store[d] # NoEntry /\ ~ IsPrefix(store[d].sha, file[d])
            BY <2>2, <2>4 DEF Extends
        <3>3. IsPrefix(store[d].sha, k.current) BY <3>1, <3>2 DEF Extends
        <3>4. store[d].sha \in Bytes /\ k.current \in Bytes /\ file[d] \in Bytes
            BY <1>0 DEF Typed, Entries, Checks
        <3>5. ~ IsPrefix(k.current, file[d]) BY <3>2, <3>3, <3>4, PrefixTransitive
        <3>6. store'[d] # NoEntry BY <1>2 DEF NoEntry
        <3> QED BY <1>1, <1>2, <1>3, <2>4, <3>1, <3>5, <3>6 DEF Extends
    <2> QED BY <2>3, <2>4
<1>8. SilentOK' BY <1>7 DEF SilentOK
<1>9. ASSUME NEW x \in Checkers PROVE CheckOK(check[x])'
    <2>1. check'[x].at = "idle"
        BY <1>0, <1>1 DEF OneCheck, Typed, Resting
    <2> QED BY <2>1 DEF CheckOK
<1> QED BY <1>0, <1>4, <1>5, <1>6, <1>8, <1>9 DEF EvInv

LEMMA OneCheckStep ==
    ASSUME Typed, OneCheck, Solitary, [Next]_vars PROVE OneCheck'
<1>1. CASE \A c, e \in Checkers : c = e BY <1>1 DEF OneCheck
<1>2. CASE Alone
    <2>1. ASSUME NEW c \in Checkers, NEW d \in Days, NEW s \in Statuses, Scan(c, d, s)
          PROVE  OneCheck'
        <3>1. /\ \A e \in Checkers : check[e].at = "idle"
              /\ \A e \in Checkers \ {c} : check'[e] = check[e]
            BY <1>2, <2>1 DEF Scan, Quiet, Typed
        <3> QED BY <3>1 DEF OneCheck
    <2>2. ASSUME \A e \in Checkers : check'[e].at # "idle" => check[e].at # "idle"
          PROVE  OneCheck'
        BY <2>2 DEF OneCheck
    <2>3. ASSUME NEW c \in Checkers, Hash(c) \/ Compare(c) \/ ReadStore(c) \/ WriteStore(c)
          PROVE  OneCheck'
        <3>1. check[c].at # "idle" /\ \A e \in Checkers \ {c} : check'[e] = check[e]
            BY <2>3 DEF Hash, Compare, ReadStore, WriteStore, Give, Typed
        <3> QED BY <2>2, <3>1
    <2>4. CASE \/ Append1 \/ LandRewrite \/ RecordRewriteEvent \/ RewriterDies
               \/ \E d \in Days : Silent(d) \/ GuardDayWrite(d)
               \/ UNCHANGED vars
        <3>1. UNCHANGED check
            BY <2>4 DEF Append1, LandRewrite, RecordRewriteEvent, RewriterDies, Silent,
                        GuardDayWrite, vars
        <3> QED BY <2>2, <3>1
    <2> QED BY <2>1, <2>3, <2>4 DEF Next
<1> QED BY <1>1, <1>2 DEF Solitary

LEMMA BackedUpStep == ASSUME BackedUp, [Next]_vars PROVE BackedUp'
<1>1. CASE RecordRewriteEvent
    BY <1>1 DEF RecordRewriteEvent, BackedUp, LoggedIsKept, NoRewrite
<1>2. ASSUME NEW d \in Days, GuardDayWrite(d) PROVE BackedUp'
    BY <1>2 DEF GuardDayWrite, BackedUp, LoggedIsKept
<1>3. CASE RewriterDies BY <1>3 DEF RewriterDies, BackedUp, LoggedIsKept, NoRewrite
<1>4. CASE LandRewrite BY <1>4 DEF LandRewrite, BackedUp, LoggedIsKept
<1>5. ASSUME UNCHANGED <<backup, events, rewriter>> PROVE BackedUp'
    BY <1>5 DEF BackedUp, LoggedIsKept
<1> QED BY <1>1, <1>2, <1>3, <1>4, <1>5
        DEF Next, vars, Append1, Silent, Scan, Hash, Compare, ReadStore, WriteStore

-----------------------------------------------------------------------------
(* The theorems *)

LEMMA Steps == ~ Restores /\ Solitary /\ EvInv /\ OneCheck /\ BackedUp /\ [Next]_vars
                   => EvInv' /\ OneCheck' /\ BackedUp'
<1> SUFFICES ASSUME ~ Restores, Solitary, EvInv, OneCheck, BackedUp, [Next]_vars
             PROVE  EvInv'
    BY OneCheckStep, BackedUpStep DEF EvInv
<1>1. CASE UNCHANGED vars
    <2>1. Typed' /\ \A e \in Days : GivenUp(e)' \subseteq GivenUp(e)
        BY <1>1, TypedStep DEF EvInv, vars, GivenUp
    <2> QED BY <1>1, <2>1, Settled DEF vars
<1> QED BY <1>1, FileSteps, RewriterSteps, CheckSteps, WriteStep DEF Next

\* Every entry and every report is of the shape the code writes.
THEOREM EvidenceTyped == Spec => []Typed
<1>1. Init => Typed BY TypedInit
<1>2. Typed /\ [Next]_vars => Typed' BY TypedStep
<1> QED BY <1>1, <1>2, PTL DEF Spec

\* What apply_hash_crosscheck and the guard keep, of any days, for checks of
\* which one runs at a time and generations that are not restored: bytes that
\* were recorded and then replaced without the guard stay detectable until an
\* alarm is given, however appends, rewrites, edits and crashes of the rewriting
\* tool fall between the steps of a check, and no generation whose rewrite was
\* logged is lost.
THEOREM EvidenceHolds ==
    ASSUME ~ Restores, Solitary
    PROVE  Spec => []NothingForgotten
<1>1. EvInv /\ BackedUp => NothingForgotten
    <2> SUFFICES ASSUME EvInv, BackedUp, NEW d \in Days, broken[d] = "silent"
                 PROVE  ~ Unchanged(file[d], store[d]) /\ ~ Explained(d, store[d])
        BY DEF NothingForgotten, EvidenceKept, BackedUp
    <2>1. file[d] \in Bytes /\ store[d] \in Entries BY DEF EvInv, Typed
    <2>2. ~ Extends(file[d], store[d]) /\ store[d].sha \notin GivenUp(d) BY DEF EvInv, SilentOK
    <2>3. ~ Unchanged(file[d], store[d]) BY <2>1, <2>2, UnchangedIsPrefix DEF Extends
    <2>4. ~ Explained(d, store[d]) BY <2>2 DEF Explained, GivenUp
    <2> QED BY <2>3, <2>4
<1>2. EvInv /\ OneCheck /\ BackedUp /\ [Next]_vars => EvInv' /\ OneCheck' /\ BackedUp'
    BY Steps
<1> QED BY <1>1, <1>2, EvInit, PTL DEF Spec
=============================================================================
