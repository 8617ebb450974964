--------------------------- MODULE RelayCallsProofs ---------------------------
(***************************************************************************)
(* Theorems about the calls of agents and operators: the two tables of     *)
(* capabilities, the holds of windows on names, what an operator sends,    *)
(* channels, the daemon's edge, the receipts of mail, and the credentials  *)
(* of agents with the cache of verdicts.  Each component is proved by      *)
(* itself, for any names, processes and bounds.                            *)
(***************************************************************************)
EXTENDS RelayCaps, RelaySession, RelayOperator, RelayChannels, RelayEdge, RelayReceipts, RelayAuth,
        FiniteSetTheorems, TLAPS

-----------------------------------------------------------------------------
(* Capabilities.  TablesAgree speaks of moments without a call; what makes it *)
(* so is, for each name, what the call under way on it has still to write     *)
(* (Settled).  StartingSet needs that an expansion under way asked for no     *)
(* less than the first row (ExpandsKeepFirst).                                *)

CapCall == [op : {"none", "index", "expand", "unindex"}, who : CapNames \cup {"none"},
            caps : SUBSET CapTags, want : SUBSET CapTags]

CapRecords ==
  /\ crow \in [CapNames -> CapRows \cup {NoCapRow}] /\ cidx \in [CapNames -> SUBSET CapTags]
  /\ ccall \in [CapProcs -> CapCall] /\ lives \in [CapNames -> Nat] /\ disturbed \in BOOLEAN
  /\ \A p \in CapProcs : ccall[p].op = "none" \/ ccall[p].who \in CapNames
  /\ \A p \in CapProcs : ccall[p].op = "none" => ccall[p] = NoCall

OnName(p, a) == ccall[p].op # "none" /\ ccall[p].who = a

\* A name with no life yet has neither a row nor an expansion.
ExpandsKeepFirst ==
  \A a \in CapNames :
    /\ Exists(a) => lives[a] # 0
    /\ \A p \in CapProcs : OnName(p, a) /\ ccall[p].op = "expand" =>
         lives[a] # 0 /\ (Exists(a) /\ lives[a] = 1 => crow[a].first \subseteq ccall[p].want)

Settled(a) ==
  /\ \A p, q \in CapProcs : OnName(p, a) /\ OnName(q, a) => p = q
  /\ (\A p \in CapProcs : ~OnName(p, a)) => cidx[a] = crow[a].caps
  /\ \A p \in CapProcs : OnName(p, a) =>
       /\ ccall[p].op = "index" => cidx[a] \cup ccall[p].caps = crow[a].caps
       /\ ccall[p].op = "expand" =>
            /\ Exists(a) /\ cidx[a] = crow[a].caps
            /\ ccall[p].caps = crow[a].caps /\ ccall[p].caps \subseteq ccall[p].want
       /\ ccall[p].op = "unindex" => crow[a].caps = {}

CapInv ==
  /\ CapRecords /\ StartingSet /\ ExpandsKeepFirst
  /\ ~disturbed => \A a \in CapNames : Settled(a)

LEMMA CapInitInv == CapInit => CapInv
<1> SUFFICES ASSUME CapInit PROVE CapInv
  OBVIOUS
<1>1. NoCall \in CapCall
  BY DEF NoCall, CapCall
<1>2. CapRecords
  BY <1>1 DEF CapInit, CapRecords, NoCall
<1>3. \A a \in CapNames : ~Exists(a) /\ crow[a].caps = {} /\ \A p \in CapProcs : ~OnName(p, a)
  BY DEF CapInit, Exists, OnName, NoCapRow, NoCall
<1>4. StartingSet /\ ExpandsKeepFirst
  BY <1>3 DEF StartingSet, ExpandsKeepFirst
<1>5. \A a \in CapNames : Settled(a)
  BY <1>3 DEF CapInit, Settled
<1> QED BY <1>2, <1>4, <1>5 DEF CapInv

\* The three parts of the invariant, of one name.
NameGood(a) ==
  /\ Exists(a) /\ lives[a] = 1 => crow[a].first \subseteq crow[a].caps
  /\ Exists(a) => lives[a] # 0
  /\ \A p \in CapProcs : OnName(p, a) /\ ccall[p].op = "expand" =>
       lives[a] # 0 /\ (Exists(a) /\ lives[a] = 1 => crow[a].first \subseteq ccall[p].want)
  /\ ~disturbed => Settled(a)

LEMMA NamesGood == CapInv <=> CapRecords /\ \A a \in CapNames : NameGood(a)
BY DEF CapInv, NameGood, StartingSet, ExpandsKeepFirst

\* A step on one name leaves the others as they are.
LEMMA NameSame ==
  ASSUME NEW b \in CapNames, NameGood(b), disturbed => disturbed',
         crow'[b].caps = crow[b].caps, crow'[b].first = crow[b].first, crow'[b].held = crow[b].held,
         cidx'[b] = cidx[b], lives'[b] = lives[b],
         \A p \in CapProcs : OnName(p, b) \/ OnName(p, b)' => ccall'[p] = ccall[p]
  PROVE  NameGood(b)'
<1>1. \A p \in CapProcs : (OnName(p, b)' <=> OnName(p, b)) /\ (OnName(p, b)' => ccall'[p] = ccall[p])
  BY DEF OnName
<1>2. Exists(b)' <=> Exists(b)
  BY DEF Exists
<1>3. ~disturbed' => Settled(b)'
  BY <1>1, <1>2 DEF NameGood, Settled
<1> QED BY <1>1, <1>2, <1>3 DEF NameGood

LEMMA CapOnName ==
  ASSUME CapInv, CapRecords', NEW p \in CapProcs, NEW a \in CapNames,
         \A q \in CapProcs \ {p} : ccall'[q] = ccall[q],
         \A b \in CapNames \ {a} : /\ crow'[b] = crow[b] /\ cidx'[b] = cidx[b] /\ lives'[b] = lives[b]
                                   /\ ~OnName(p, b) /\ ~OnName(p, b)',
         disturbed => disturbed', NameGood(a)'
  PROVE  CapInv'
<1>1. \A b \in CapNames : NameGood(b)
  BY NamesGood
<1>2. ASSUME NEW b \in CapNames \ {a} PROVE NameGood(b)'
  <2>1. \A q \in CapProcs : OnName(q, b) \/ OnName(q, b)' => ccall'[q] = ccall[q]
    BY <1>2
  <2> QED BY <1>1, <1>2, <2>1, NameSame
<1>3. CapRecords' /\ \A b \in CapNames : NameGood(b)'
  BY <1>2
<1> QED BY <1>3, NamesGood DEF CapInv, NameGood, StartingSet, ExpandsKeepFirst

\* The rows and calls a step makes.
LEMMA CapFields ==
  ASSUME CapInv
  PROVE  /\ \A a \in CapNames : /\ crow[a] \in CapRows \cup {NoCapRow} /\ crow[a].caps \in SUBSET CapTags
                                /\ crow[a].first \in SUBSET CapTags /\ cidx[a] \in SUBSET CapTags
                                /\ (Exists(a) => crow[a] \in CapRows) /\ (~Exists(a) => crow[a] = NoCapRow)
         /\ \A p \in CapProcs : ccall[p] \in CapCall
<1>1. ASSUME NEW a \in CapNames
      PROVE  /\ crow[a] \in CapRows \cup {NoCapRow} /\ crow[a].caps \in SUBSET CapTags
             /\ crow[a].first \in SUBSET CapTags /\ cidx[a] \in SUBSET CapTags
             /\ (Exists(a) => crow[a] \in CapRows) /\ (~Exists(a) => crow[a] = NoCapRow)
  <2>1. crow[a] \in CapRows \cup {NoCapRow} /\ cidx[a] \in SUBSET CapTags
    BY DEF CapInv, CapRecords
  <2>2. CASE crow[a] = NoCapRow
    BY <2>1, <2>2 DEF NoCapRow, Exists
  <2>3. CASE crow[a] \in CapRows
    BY <2>1, <2>3 DEF CapRows, Exists
  <2> QED BY <2>1, <2>2, <2>3
<1> QED BY <1>1 DEF CapInv, CapRecords

LEMMA CallMade ==
  ASSUME CapInv, NEW p \in CapProcs, NEW x \in CapCall, ccall' = [ccall EXCEPT ![p] = x],
         x = NoCall \/ (x.op # "none" /\ x.who \in CapNames)
  PROVE  /\ ccall' \in [CapProcs -> CapCall] /\ ccall'[p] = x
         /\ \A q \in CapProcs \ {p} : ccall'[q] = ccall[q]
         /\ \A q \in CapProcs : ccall'[q].op = "none" \/ ccall'[q].who \in CapNames
         /\ \A q \in CapProcs : ccall'[q].op = "none" => ccall'[q] = NoCall
<1>1. ccall' \in [CapProcs -> CapCall] /\ ccall'[p] = x /\ \A q \in CapProcs \ {p} : ccall'[q] = ccall[q]
  BY DEF CapInv, CapRecords
<1>2. \A q \in CapProcs : /\ ccall[q].op = "none" \/ ccall[q].who \in CapNames
                          /\ ccall[q].op = "none" => ccall[q] = NoCall
  BY DEF CapInv, CapRecords
<1>3. ASSUME NEW q \in CapProcs
      PROVE  (ccall'[q].op = "none" \/ ccall'[q].who \in CapNames) /\ (ccall'[q].op = "none" => ccall'[q] = NoCall)
  <2>1. CASE q = p
    BY <1>1, <2>1 DEF NoCall
  <2>2. CASE q # p
    BY <1>1, <1>2, <2>2
  <2> QED BY <2>1, <2>2
<1> QED BY <1>1, <1>3

LEMMA FreeCall == NoCall \in CapCall /\ NoCall.op = "none" /\ NoCapRow.caps = {} /\ NoCapRow.held = FALSE
BY DEF NoCall, CapCall, NoCapRow

\* A call that starts on a name nobody is on finds its tables equal.
LEMMA NameFree ==
  ASSUME CapInv, NEW p \in CapProcs, NEW a \in CapNames, Unoccupied(p),
         disturbed' = (disturbed \/ Overlaps(p, a)), ~disturbed'
  PROVE  /\ ~disturbed /\ Settled(a) /\ \A q \in CapProcs : ~OnName(q, a)
         /\ cidx[a] = crow[a].caps
<1>1. ~disturbed /\ Settled(a)
  BY DEF CapInv
<1>2. \A q \in CapProcs : ~OnName(q, a)
  BY FreeCall DEF Overlaps, OnName, Unoccupied
<1> QED BY <1>1, <1>2 DEF Settled

-----------------------------------------------------------------------------
(* One step for every action.                                               *)

LEMMA StepRegister ==
  ASSUME CapInv, NEW p \in CapProcs, NEW a \in CapNames, NEW caps \in SUBSET CapTags, RegisterRow(p, a, caps)
  PROVE  CapInv'
<1> DEFINE made == [op |-> "index", who |-> a, caps |-> caps, want |-> {}]
<1>1. /\ Unoccupied(p) /\ ~Exists(a) /\ crow' = [crow EXCEPT ![a] = FreshRow(caps)]
      /\ lives' = [lives EXCEPT ![a] = @ + 1] /\ ccall' = [ccall EXCEPT ![p] = made]
      /\ disturbed' = (disturbed \/ Overlaps(p, a)) /\ cidx' = cidx
  BY DEF RegisterRow, Starts
<1>2. /\ FreshRow(caps) \in CapRows /\ FreshRow(caps).caps = caps /\ FreshRow(caps).first = caps
      /\ FreshRow(caps).held = TRUE /\ made \in CapCall /\ made.op = "index" /\ made.who = a /\ made.caps = caps
  BY DEF FreshRow, CapRows, CapCall
<1> HIDE DEF made
<1>3. /\ ccall' \in [CapProcs -> CapCall] /\ ccall'[p] = made
      /\ \A q \in CapProcs \ {p} : ccall'[q] = ccall[q]
      /\ \A q \in CapProcs : ccall'[q].op = "none" \/ ccall'[q].who \in CapNames
      /\ \A q \in CapProcs : ccall'[q].op = "none" => ccall'[q] = NoCall
  BY <1>1, <1>2, CallMade
<1>4. crow \in [CapNames -> CapRows \cup {NoCapRow}] /\ lives \in [CapNames -> Nat]
  BY DEF CapInv, CapRecords
<1>5. CapRecords'
  BY <1>1, <1>2, <1>3 DEF CapInv, CapRecords
<1>6. \A b \in CapNames \ {a} : /\ crow'[b] = crow[b] /\ cidx'[b] = cidx[b] /\ lives'[b] = lives[b]
                                /\ ~OnName(p, b) /\ ~OnName(p, b)'
  BY <1>1, <1>2, <1>3, <1>4, FreeCall DEF OnName, Unoccupied
<1>7. NameGood(a)'
  <2>1. crow'[a] = FreshRow(caps) /\ lives'[a] = lives[a] + 1 /\ lives[a] \in Nat
    BY <1>1, <1>4
  <2>2. ASSUME NEW q \in CapProcs, OnName(q, a)', ccall'[q].op = "expand"
        PROVE  lives'[a] # 0 /\ (Exists(a)' /\ lives'[a] = 1 => crow'[a].first \subseteq ccall'[q].want)
    <3>1. q # p /\ OnName(q, a) /\ ccall[q].op = "expand"
      BY <1>2, <1>3, <2>2 DEF OnName
    <3>2. lives[a] # 0
      BY <3>1 DEF CapInv, ExpandsKeepFirst
    <3> QED BY <2>1, <3>2
  <2>3. ASSUME ~disturbed' PROVE Settled(a)'
    <3>1. cidx[a] = {} /\ \A q \in CapProcs : ~OnName(q, a)
      BY <1>1, <2>3, NameFree, CapFields, FreeCall
    <3>2. \A q \in CapProcs : OnName(q, a)' => q = p
      BY <1>3, <3>1 DEF OnName
    <3> QED BY <1>1, <1>2, <1>3, <2>1, <3>1, <3>2 DEF Settled, OnName
  <2> QED BY <1>2, <2>1, <2>2, <2>3 DEF NameGood, Exists
<1> QED BY <1>1, <1>3, <1>5, <1>6, <1>7, CapOnName

LEMMA StepIndexOne ==
  ASSUME CapInv, NEW p \in CapProcs, NEW c \in CapTags, IndexOne(p, c)
  PROVE  CapInv'
<1> DEFINE made == [ccall[p] EXCEPT !.caps = @ \ {c}]
<1>1. PICK a \in CapNames : a = ccall[p].who
  BY DEF IndexOne, InCall, CapInv, CapRecords
<1>2. /\ ccall[p].op = "index" /\ c \in ccall[p].caps /\ ccall[p] \in CapCall
      /\ cidx' = [cidx EXCEPT ![a] = @ \cup {c}] /\ crow' = crow /\ lives' = lives /\ disturbed' = disturbed
  BY <1>1, CapFields DEF IndexOne, InCall
<1>3. /\ made \in CapCall /\ made.op = "index" /\ made.who = a /\ made.caps = ccall[p].caps \ {c}
      /\ ccall' = [ccall EXCEPT ![p] = made]
  BY <1>1, <1>2 DEF IndexOne, CapCall
<1> HIDE DEF made
<1>4. /\ ccall' \in [CapProcs -> CapCall] /\ ccall'[p] = made
      /\ \A q \in CapProcs \ {p} : ccall'[q] = ccall[q]
      /\ \A q \in CapProcs : ccall'[q].op = "none" \/ ccall'[q].who \in CapNames
      /\ \A q \in CapProcs : ccall'[q].op = "none" => ccall'[q] = NoCall
  BY <1>3, CallMade
<1>5. cidx' \in [CapNames -> SUBSET CapTags] /\ cidx'[a] = cidx[a] \cup {c} /\ \A b \in CapNames \ {a} : cidx'[b] = cidx[b]
  BY <1>2 DEF CapInv, CapRecords
<1>6. CapRecords'
  BY <1>2, <1>4, <1>5 DEF CapInv, CapRecords
<1>7. \A q \in CapProcs : OnName(q, a)' <=> OnName(q, a)
  BY <1>1, <1>2, <1>3, <1>4 DEF OnName
<1>8. NameGood(a)'
  <2>1. \A q \in CapProcs : OnName(q, a)' /\ ccall'[q].op = "expand" => ccall'[q] = ccall[q]
    BY <1>3, <1>4
  <2>2. ASSUME ~disturbed' PROVE Settled(a)'
    <3>1. Settled(a) /\ OnName(p, a)
      BY <1>1, <1>2, <2>2 DEF CapInv, OnName
    <3>2. cidx'[a] \cup made.caps = crow'[a].caps
      BY <1>2, <1>3, <1>5, <3>1 DEF Settled
    <3>3. \A q \in CapProcs : OnName(q, a)' => q = p
      BY <1>7, <3>1 DEF Settled
    <3> QED BY <1>3, <1>4, <1>7, <3>1, <3>2, <3>3 DEF Settled
  <2>3. NameGood(a)
    BY NamesGood
  <2> QED BY <1>2, <1>7, <2>1, <2>2, <2>3 DEF NameGood, Exists
<1>9. \A b \in CapNames \ {a} : /\ crow'[b] = crow[b] /\ cidx'[b] = cidx[b] /\ lives'[b] = lives[b]
                                /\ ~OnName(p, b) /\ ~OnName(p, b)'
  BY <1>1, <1>2, <1>3, <1>4, <1>5 DEF OnName
<1> QED BY <1>2, <1>4, <1>6, <1>8, <1>9, CapOnName

\* The steps that end a call: what it had to write is written.
LEMMA StepEnds ==
  ASSUME CapInv, NEW p \in CapProcs, NEW a \in CapNames, ccall[p].op # "none", ccall[p].who = a,
         ccall' = [ccall EXCEPT ![p] = NoCall], disturbed' = disturbed, lives' = lives,
         crow' \in [CapNames -> CapRows \cup {NoCapRow}], cidx' \in [CapNames -> SUBSET CapTags],
         \A b \in CapNames \ {a} : crow'[b] = crow[b] /\ cidx'[b] = cidx[b],
         crow'[a].held = crow[a].held, crow'[a].first = crow[a].first,
         Exists(a) /\ lives[a] = 1 => crow'[a].first \subseteq crow'[a].caps,
         Settled(a) => cidx'[a] = crow'[a].caps
  PROVE  CapInv'
<1>1. /\ ccall' \in [CapProcs -> CapCall] /\ ccall'[p] = NoCall
      /\ \A q \in CapProcs \ {p} : ccall'[q] = ccall[q]
      /\ \A q \in CapProcs : ccall'[q].op = "none" \/ ccall'[q].who \in CapNames
      /\ \A q \in CapProcs : ccall'[q].op = "none" => ccall'[q] = NoCall
  BY FreeCall, CallMade
<1>2. CapRecords'
  BY <1>1 DEF CapInv, CapRecords
<1>3. /\ ~OnName(p, a)' /\ OnName(p, a)
      /\ \A q \in CapProcs \ {p} : (OnName(q, a)' <=> OnName(q, a)) /\ ccall'[q] = ccall[q]
  BY <1>1, FreeCall DEF OnName
<1>4. NameGood(a)'
  <2>1. NameGood(a) /\ (Exists(a)' <=> Exists(a))
    BY NamesGood DEF Exists
  <2>2. ASSUME ~disturbed' PROVE Settled(a)'
    <3>1. Settled(a)
      BY <2>2 DEF CapInv
    <3>2. \A q \in CapProcs : ~OnName(q, a)'
      BY <1>3, <3>1 DEF Settled
    <3> QED BY <3>1, <3>2 DEF Settled
  <2> QED BY <1>3, <2>1, <2>2 DEF NameGood
<1>5. \A b \in CapNames \ {a} : ~OnName(p, b) /\ ~OnName(p, b)'
  BY <1>1, FreeCall DEF OnName
<1> QED BY <1>1, <1>2, <1>4, <1>5, CapOnName

LEMMA StepIndexed ==
  ASSUME CapInv, NEW p \in CapProcs, Indexed(p)
  PROVE  CapInv'
<1>1. PICK a \in CapNames : a = ccall[p].who
  BY DEF Indexed, InCall, CapInv, CapRecords
<1>2. /\ ccall[p].op = "index" /\ ccall[p].caps = {} /\ ccall' = [ccall EXCEPT ![p] = NoCall]
      /\ disturbed' = disturbed /\ crow' = crow /\ cidx' = cidx /\ lives' = lives
  BY DEF Indexed, InCall, Ends
<1>3. Settled(a) => cidx'[a] = crow'[a].caps
  BY <1>1, <1>2 DEF Settled, OnName
<1>4. crow \in [CapNames -> CapRows \cup {NoCapRow}] /\ cidx \in [CapNames -> SUBSET CapTags] /\ NameGood(a)
  BY NamesGood DEF CapInv, CapRecords
<1> QED BY <1>1, <1>2, <1>3, <1>4, StepEnds DEF NameGood

LEMMA StepExpandWrite ==
  ASSUME CapInv, NEW p \in CapProcs, ExpandWrite(p)
  PROVE  CapInv'
<1>1. PICK a \in CapNames : a = ccall[p].who
  BY DEF ExpandWrite, InCall, CapInv, CapRecords
<1>2. /\ ccall[p].op = "expand" /\ ccall' = [ccall EXCEPT ![p] = NoCall]
      /\ crow' = IF Exists(a) THEN [crow EXCEPT ![a].caps = ccall[p].want] ELSE crow
      /\ cidx' = [cidx EXCEPT ![a] = @ \cup (ccall[p].want \ ccall[p].caps)]
      /\ disturbed' = disturbed /\ lives' = lives
  BY <1>1 DEF ExpandWrite, InCall, Ends
<1>3. ccall[p].want \in SUBSET CapTags /\ ccall[p].caps \in SUBSET CapTags
  BY CapFields DEF CapCall
<1>4. /\ cidx' \in [CapNames -> SUBSET CapTags] /\ \A b \in CapNames \ {a} : cidx'[b] = cidx[b]
      /\ cidx'[a] = cidx[a] \cup (ccall[p].want \ ccall[p].caps)
  BY <1>2, <1>3 DEF CapInv, CapRecords
<1>5. crow \in [CapNames -> CapRows \cup {NoCapRow}] /\ OnName(p, a) /\ NameGood(a)
  BY <1>1, <1>2, NamesGood DEF CapInv, CapRecords, OnName
<1>6. CASE ~Exists(a)
  <2>1. crow' = crow
    BY <1>2, <1>6
  <2>2. ~Settled(a)
    BY <1>2, <1>5, <1>6 DEF Settled
  <2>3. /\ ccall' = [ccall EXCEPT ![p] = NoCall] /\ disturbed' = disturbed /\ lives' = lives
        /\ ccall[p].op # "none" /\ ccall[p].who = a
    BY <1>1, <1>2
  <2>4. /\ crow' \in [CapNames -> CapRows \cup {NoCapRow}] /\ cidx' \in [CapNames -> SUBSET CapTags]
        /\ \A b \in CapNames \ {a} : crow'[b] = crow[b] /\ cidx'[b] = cidx[b]
        /\ crow'[a].held = crow[a].held /\ crow'[a].first = crow[a].first
    BY <1>4, <1>5, <2>1
  <2> QED BY <1>6, <2>2, <2>3, <2>4, StepEnds
<1>7. CASE Exists(a)
  <2>1. /\ [crow[a] EXCEPT !.caps = ccall[p].want] \in CapRows
        /\ [crow[a] EXCEPT !.caps = ccall[p].want].caps = ccall[p].want
        /\ [crow[a] EXCEPT !.caps = ccall[p].want].first = crow[a].first
        /\ [crow[a] EXCEPT !.caps = ccall[p].want].held = crow[a].held
    BY <1>3, <1>7, CapFields DEF CapRows
  <2>2. /\ crow' \in [CapNames -> CapRows \cup {NoCapRow}] /\ \A b \in CapNames \ {a} : crow'[b] = crow[b]
        /\ crow'[a] = [crow[a] EXCEPT !.caps = ccall[p].want]
    BY <1>2, <1>5, <1>7, <2>1
  <2>3. lives[a] = 1 => crow'[a].first \subseteq crow'[a].caps
    BY <1>2, <1>5, <1>7, <2>1, <2>2 DEF NameGood
  <2>4. Settled(a) => cidx'[a] = crow'[a].caps
    BY <1>2, <1>3, <1>4, <1>5, <2>1, <2>2 DEF Settled
  <2>5. crow'[a].held = crow[a].held /\ crow'[a].first = crow[a].first
    BY <2>1, <2>2
  <2>6. ccall[p].op # "none" /\ ccall[p].who = a
    BY <1>1, <1>2
  <2>7. ccall' = [ccall EXCEPT ![p] = NoCall] /\ disturbed' = disturbed /\ lives' = lives
    BY <1>2
  <2>8. \A b \in CapNames \ {a} : crow'[b] = crow[b] /\ cidx'[b] = cidx[b]
    BY <1>4, <2>2
  <2>9. cidx' \in [CapNames -> SUBSET CapTags]
    BY <1>4
  <2>10. crow' \in [CapNames -> CapRows \cup {NoCapRow}]
    BY <2>2
  <2> QED BY <2>3, <2>4, <2>5, <2>6, <2>7, <2>8, <2>9, <2>10, StepEnds
<1> QED BY <1>6, <1>7

LEMMA StepDeleteIndex ==
  ASSUME CapInv, NEW p \in CapProcs, DeleteIndex(p)
  PROVE  CapInv'
<1>1. PICK a \in CapNames : a = ccall[p].who
  BY DEF DeleteIndex, InCall, CapInv, CapRecords
<1>2. /\ ccall[p].op = "unindex" /\ ccall' = [ccall EXCEPT ![p] = NoCall]
      /\ cidx' = [cidx EXCEPT ![a] = {}] /\ disturbed' = disturbed /\ crow' = crow /\ lives' = lives
  BY <1>1 DEF DeleteIndex, InCall, Ends, Unindexed
<1>3. /\ cidx' \in [CapNames -> SUBSET CapTags] /\ \A b \in CapNames \ {a} : cidx'[b] = cidx[b]
      /\ cidx'[a] = {} /\ crow \in [CapNames -> CapRows \cup {NoCapRow}] /\ NameGood(a)
  BY <1>2, NamesGood DEF CapInv, CapRecords
<1>4. Settled(a) => cidx'[a] = crow'[a].caps
  BY <1>1, <1>2, <1>3 DEF Settled, OnName
<1> QED BY <1>1, <1>2, <1>3, <1>4, StepEnds DEF NameGood

\* The steps that leave the calls as they are.
LEMMA SameCalls ==
  ASSUME CapInv, NEW p \in CapProcs, NEW a \in CapNames, Unoccupied(p), ccall' = ccall,
         disturbed' \in BOOLEAN, disturbed => disturbed', lives' \in [CapNames -> Nat],
         crow' \in [CapNames -> CapRows \cup {NoCapRow}], cidx' \in [CapNames -> SUBSET CapTags],
         \A b \in CapNames \ {a} : crow'[b] = crow[b] /\ cidx'[b] = cidx[b] /\ lives'[b] = lives[b],
         NameGood(a)'
  PROVE  CapInv'
<1>1. CapRecords'
  BY DEF CapInv, CapRecords
<1>2. \A b \in CapNames : ~OnName(p, b) /\ ~OnName(p, b)'
  BY FreeCall DEF OnName, Unoccupied
<1> QED BY <1>1, <1>2, CapOnName

LEMMA StepReregister ==
  ASSUME CapInv, NEW p \in CapProcs, NEW a \in CapNames, NEW caps \in SUBSET CapTags, ReregisterRow(p, a, caps)
  PROVE  CapInv'
<1>1. /\ Unoccupied(p) /\ Exists(a) /\ cidx' = cidx /\ lives' = lives /\ ccall' = ccall
      /\ disturbed' = (disturbed \/ Overlaps(p, a))
      /\ crow' = [crow EXCEPT ![a].old = FALSE, ![a].caps = crow[a].caps]
  BY DEF ReregisterRow, AtOnce, KeptCaps
<1>2. crow \in [CapNames -> CapRows \cup {NoCapRow}] /\ crow[a] \in CapRows
      /\ cidx \in [CapNames -> SUBSET CapTags] /\ lives \in [CapNames -> Nat] /\ disturbed \in BOOLEAN
  BY <1>1, CapFields DEF CapInv, CapRecords
<1>3. crow' = [crow EXCEPT ![a] = [crow[a] EXCEPT !.old = FALSE, !.caps = crow[a].caps]]
  BY <1>1, <1>2
<1>4. /\ [crow[a] EXCEPT !.old = FALSE, !.caps = crow[a].caps] \in CapRows
      /\ [crow[a] EXCEPT !.old = FALSE, !.caps = crow[a].caps].caps = crow[a].caps
      /\ [crow[a] EXCEPT !.old = FALSE, !.caps = crow[a].caps].first = crow[a].first
      /\ [crow[a] EXCEPT !.old = FALSE, !.caps = crow[a].caps].held = crow[a].held
  BY <1>2 DEF CapRows
<1>5. /\ crow' \in [CapNames -> CapRows \cup {NoCapRow}] /\ \A b \in CapNames \ {a} : crow'[b] = crow[b]
      /\ crow'[a].caps = crow[a].caps /\ crow'[a].first = crow[a].first /\ crow'[a].held = crow[a].held
  BY <1>2, <1>3, <1>4
<1>6. NameGood(a)'
  BY <1>1, <1>5, NamesGood, NameSame
<1>7. disturbed' \in BOOLEAN /\ (disturbed => disturbed')
  BY <1>1, <1>2
<1> QED BY <1>1, <1>2, <1>5, <1>6, <1>7, SameCalls

LEMMA StepMint ==
  ASSUME CapInv, NEW p \in CapProcs, NEW a \in CapNames, NEW caps \in SUBSET CapTags, MintRow(p, a, caps)
  PROVE  CapInv'
<1>1. /\ Unoccupied(p) /\ ~Exists(a) /\ crow' = [crow EXCEPT ![a] = FreshRow(caps)]
      /\ cidx' = [cidx EXCEPT ![a] = @ \cup caps] /\ lives' = [lives EXCEPT ![a] = @ + 1]
      /\ ccall' = ccall /\ disturbed' = (disturbed \/ Overlaps(p, a))
  BY DEF MintRow, AtOnce
<1>2. /\ FreshRow(caps) \in CapRows /\ FreshRow(caps).caps = caps /\ FreshRow(caps).first = caps
  BY DEF FreshRow, CapRows
<1>3. crow \in [CapNames -> CapRows \cup {NoCapRow}] /\ cidx \in [CapNames -> SUBSET CapTags]
      /\ lives \in [CapNames -> Nat] /\ disturbed \in BOOLEAN
  BY DEF CapInv, CapRecords
<1>4. /\ crow' \in [CapNames -> CapRows \cup {NoCapRow}] /\ cidx' \in [CapNames -> SUBSET CapTags]
      /\ lives' \in [CapNames -> Nat] /\ disturbed' \in BOOLEAN /\ (disturbed => disturbed')
      /\ crow'[a] = FreshRow(caps) /\ cidx'[a] = cidx[a] \cup caps /\ lives'[a] = lives[a] + 1
      /\ \A b \in CapNames \ {a} : crow'[b] = crow[b] /\ cidx'[b] = cidx[b] /\ lives'[b] = lives[b]
  BY <1>1, <1>2, <1>3
<1>5. NameGood(a)'
  <2>1. ASSUME NEW q \in CapProcs, OnName(q, a)', ccall'[q].op = "expand"
        PROVE  lives'[a] # 0 /\ (Exists(a)' /\ lives'[a] = 1 => crow'[a].first \subseteq ccall'[q].want)
    <3>1. lives[a] # 0 /\ lives[a] \in Nat
      BY <1>1, <1>3, <2>1 DEF CapInv, ExpandsKeepFirst, OnName
    <3> QED BY <1>4, <3>1
  <2>2. ASSUME ~disturbed' PROVE Settled(a)'
    <3>1. cidx[a] = {} /\ \A q \in CapProcs : ~OnName(q, a)
      BY <1>1, <2>2, NameFree, CapFields, FreeCall
    <3> QED BY <1>1, <1>2, <1>4, <3>1 DEF Settled, OnName
  <2> QED BY <1>2, <1>3, <1>4, <2>1, <2>2 DEF NameGood, Exists
<1> QED BY <1>1, <1>4, <1>5, SameCalls

LEMMA StepTeardown ==
  ASSUME CapInv, NEW p \in CapProcs, NEW a \in CapNames, TeardownRow(p, a)
  PROVE  CapInv'
<1>1. /\ Unoccupied(p) /\ crow' = [crow EXCEPT ![a] = NoCapRow] /\ cidx' = [cidx EXCEPT ![a] = {}]
      /\ lives' = lives /\ ccall' = ccall /\ disturbed' = (disturbed \/ Overlaps(p, a))
  BY DEF TeardownRow, AtOnce
<1>2. crow \in [CapNames -> CapRows \cup {NoCapRow}] /\ cidx \in [CapNames -> SUBSET CapTags]
      /\ lives \in [CapNames -> Nat] /\ disturbed \in BOOLEAN
  BY DEF CapInv, CapRecords
<1>3. /\ crow' \in [CapNames -> CapRows \cup {NoCapRow}] /\ cidx' \in [CapNames -> SUBSET CapTags]
      /\ disturbed' \in BOOLEAN /\ (disturbed => disturbed') /\ crow'[a] = NoCapRow /\ cidx'[a] = {}
      /\ \A b \in CapNames \ {a} : crow'[b] = crow[b] /\ cidx'[b] = cidx[b]
  BY <1>1, <1>2
<1>4. NameGood(a)'
  <2>1. ~Exists(a)'
    BY <1>3, FreeCall DEF Exists
  <2>2. \A q \in CapProcs : OnName(q, a)' /\ ccall'[q].op = "expand" => lives'[a] # 0
    BY <1>1 DEF OnName, CapInv, ExpandsKeepFirst
  <2>3. ASSUME ~disturbed' PROVE Settled(a)'
    <3>1. \A q \in CapProcs : ~OnName(q, a)
      BY <1>1, <2>3, NameFree
    <3> QED BY <1>1, <1>3, <3>1, FreeCall DEF Settled, OnName
  <2> QED BY <2>1, <2>2, <2>3 DEF NameGood
<1> QED BY <1>1, <1>2, <1>3, <1>4, SameCalls

LEMMA StepPurge ==
  ASSUME CapInv, NEW p \in CapProcs, NEW a \in CapNames, PurgeAbandoned(p, a)
  PROVE  CapInv'
<1>1. /\ Unoccupied(p) /\ crow' = [crow EXCEPT ![a] = NoCapRow] /\ disturbed' = TRUE
      /\ cidx' = cidx /\ ccall' = ccall /\ lives' = lives
  BY DEF PurgeAbandoned
<1>2. crow \in [CapNames -> CapRows \cup {NoCapRow}] /\ cidx \in [CapNames -> SUBSET CapTags]
      /\ lives \in [CapNames -> Nat]
  BY DEF CapInv, CapRecords
<1>3. /\ crow' \in [CapNames -> CapRows \cup {NoCapRow}] /\ crow'[a] = NoCapRow
      /\ \A b \in CapNames \ {a} : crow'[b] = crow[b]
  BY <1>1, <1>2
<1>4. ~Exists(a)'
  BY <1>3, FreeCall DEF Exists
<1>5. \A q \in CapProcs : OnName(q, a)' /\ ccall'[q].op = "expand" => lives'[a] # 0
  BY <1>1 DEF OnName, CapInv, ExpandsKeepFirst
<1>6. NameGood(a)'
  BY <1>1, <1>4, <1>5 DEF NameGood
<1> QED BY <1>1, <1>2, <1>3, <1>6, SameCalls

LEMMA StepSilent ==
  ASSUME CapInv, NEW a \in CapNames, Silent(a)
  PROVE  CapInv'
<1>1. /\ Exists(a) /\ crow' = [crow EXCEPT ![a].old = TRUE] /\ UNCHANGED <<cidx, ccall, lives, disturbed>>
  BY DEF Silent
<1>2. crow \in [CapNames -> CapRows \cup {NoCapRow}] /\ crow[a] \in CapRows
  BY <1>1, CapFields DEF CapInv, CapRecords
<1>3. /\ [crow[a] EXCEPT !.old = TRUE] \in CapRows /\ [crow[a] EXCEPT !.old = TRUE].caps = crow[a].caps
      /\ [crow[a] EXCEPT !.old = TRUE].first = crow[a].first /\ [crow[a] EXCEPT !.old = TRUE].held = crow[a].held
  BY <1>2 DEF CapRows
<1>4. /\ crow' \in [CapNames -> CapRows \cup {NoCapRow}]
      /\ \A b \in CapNames : /\ crow'[b].caps = crow[b].caps /\ crow'[b].first = crow[b].first
                             /\ crow'[b].held = crow[b].held
  BY <1>1, <1>2, <1>3
<1>5. CapRecords'
  BY <1>1, <1>4 DEF CapInv, CapRecords
<1>6. \A b \in CapNames : NameGood(b)'
  BY <1>1, <1>4, NamesGood, NameSame
<1> QED BY <1>5, <1>6 DEF CapInv, NameGood, StartingSet, ExpandsKeepFirst

\* The list of every row is what routing reads from then on.
LEMMA StepSeed ==
  ASSUME CapInv, NEW p \in CapProcs, SeedIndex(p)
  PROVE  CapInv'
<1>1. /\ \A a \in CapNames : cidx[a] = {}
      /\ cidx' = [b \in CapNames |-> crow[b].caps]
      /\ UNCHANGED <<crow, ccall, lives, disturbed>>
  BY DEF SeedIndex
<1>2. cidx' \in [CapNames -> SUBSET CapTags] /\ \A a \in CapNames : cidx'[a] = crow[a].caps
  <2>1. \A a \in CapNames : crow[a].caps \in SUBSET CapTags
    BY CapFields
  <2> QED BY <1>1, <2>1
<1>3. CapRecords'
  BY <1>1, <1>2 DEF CapInv, CapRecords
<1>4. ASSUME NEW a \in CapNames PROVE NameGood(a)'
  <2>1. NameGood(a) /\ cidx[a] = {} /\ cidx'[a] = crow[a].caps
    BY <1>1, <1>2, NamesGood
  <2>2. Settled(a) => Settled(a)'
    BY <1>1, <2>1 DEF Settled, OnName, Exists
  <2> QED BY <1>1, <2>1, <2>2 DEF NameGood, OnName, Exists
<1> QED BY <1>3, <1>4 DEF CapInv, NameGood, StartingSet, ExpandsKeepFirst

LEMMA StepDie ==
  ASSUME CapInv, NEW p \in CapProcs, DieInCall(p)
  PROVE  CapInv'
<1>1. ccall' = [ccall EXCEPT ![p] = NoCall] /\ disturbed' = TRUE /\ UNCHANGED <<crow, cidx, lives>>
  BY DEF DieInCall
<1>2. /\ ccall' \in [CapProcs -> CapCall] /\ ccall'[p] = NoCall
      /\ \A q \in CapProcs \ {p} : ccall'[q] = ccall[q]
      /\ \A q \in CapProcs : ccall'[q].op = "none" \/ ccall'[q].who \in CapNames
      /\ \A q \in CapProcs : ccall'[q].op = "none" => ccall'[q] = NoCall
  BY <1>1, FreeCall, CallMade
<1>3. CapRecords'
  BY <1>1, <1>2 DEF CapInv, CapRecords
<1>4. StartingSet'
  BY <1>1 DEF StartingSet, Exists, CapInv
<1>5. \A q \in CapProcs, a \in CapNames : OnName(q, a)' => OnName(q, a) /\ ccall'[q] = ccall[q]
  BY <1>2, FreeCall DEF OnName
<1>6. ExpandsKeepFirst'
  BY <1>1, <1>5 DEF ExpandsKeepFirst, Exists, CapInv
<1> QED BY <1>1, <1>3, <1>4, <1>6 DEF CapInv

\* A call that starts without writing capability rows.
LEMMA StepStarts ==
  ASSUME CapInv, NEW p \in CapProcs, NEW a \in CapNames, NEW want \in SUBSET CapTags,
         DeleteRow(p, a) \/ ExpandRead(p, a, want)
  PROVE  CapInv'
<1>1. crow \in [CapNames -> CapRows \cup {NoCapRow}] /\ cidx \in [CapNames -> SUBSET CapTags]
      /\ lives \in [CapNames -> Nat] /\ disturbed \in BOOLEAN /\ NameGood(a)
  BY NamesGood DEF CapInv, CapRecords
<1>2. CASE DeleteRow(p, a)
  <2> DEFINE made == [op |-> "unindex", who |-> a, caps |-> {}, want |-> {}]
  <2>1. /\ Unoccupied(p) /\ crow' = [crow EXCEPT ![a] = NoCapRow] /\ cidx' = cidx /\ lives' = lives
        /\ ccall' = [ccall EXCEPT ![p] = made] /\ disturbed' = (disturbed \/ Overlaps(p, a))
    BY <1>2 DEF DeleteRow, Starts
  <2>2. made \in CapCall /\ made.op = "unindex" /\ made.who = a
    BY DEF CapCall
  <2> HIDE DEF made
  <2>3. /\ ccall' \in [CapProcs -> CapCall] /\ ccall'[p] = made
        /\ \A q \in CapProcs \ {p} : ccall'[q] = ccall[q]
        /\ \A q \in CapProcs : ccall'[q].op = "none" \/ ccall'[q].who \in CapNames
        /\ \A q \in CapProcs : ccall'[q].op = "none" => ccall'[q] = NoCall
    BY <2>1, <2>2, CallMade
  <2>4. /\ crow' \in [CapNames -> CapRows \cup {NoCapRow}] /\ crow'[a] = NoCapRow
        /\ \A b \in CapNames \ {a} : crow'[b] = crow[b]
    BY <1>1, <2>1
  <2>5. CapRecords'
    BY <1>1, <2>1, <2>3, <2>4 DEF CapInv, CapRecords
  <2>6. \A b \in CapNames \ {a} : ~OnName(p, b) /\ ~OnName(p, b)'
    BY <2>1, <2>2, <2>3, FreeCall DEF OnName, Unoccupied
  <2>7. NameGood(a)'
    <3>1. ~Exists(a)'
      BY <2>4, FreeCall DEF Exists
    <3>2. \A q \in CapProcs : OnName(q, a)' /\ ccall'[q].op = "expand" => lives'[a] # 0
      BY <2>1, <2>2, <2>3 DEF OnName, CapInv, ExpandsKeepFirst
    <3>3. ASSUME ~disturbed' PROVE Settled(a)'
      <4>1. \A q \in CapProcs : ~OnName(q, a)
        BY <2>1, <3>3, NameFree
      <4>2. \A q \in CapProcs : OnName(q, a)' => q = p
        BY <2>3, <4>1 DEF OnName
      <4> QED BY <2>2, <2>3, <2>4, <4>2, FreeCall DEF Settled, OnName
    <3> QED BY <3>1, <3>2, <3>3 DEF NameGood
  <2> QED BY <2>1, <2>3, <2>4, <2>5, <2>6, <2>7, CapOnName
<1>3. CASE ExpandRead(p, a, want)
  <2> DEFINE made == [op |-> "expand", who |-> a, caps |-> crow[a].caps, want |-> want]
  <2>1. /\ Unoccupied(p) /\ Exists(a) /\ crow[a].caps \subseteq want /\ UNCHANGED <<crow, cidx, lives>>
        /\ ccall' = [ccall EXCEPT ![p] = made] /\ disturbed' = (disturbed \/ Overlaps(p, a))
    BY <1>3 DEF ExpandRead, Starts, Additive
  <2>2. /\ made \in CapCall /\ made.op = "expand" /\ made.who = a /\ made.caps = crow[a].caps /\ made.want = want
    BY CapFields DEF CapCall
  <2> HIDE DEF made
  <2>3. /\ ccall' \in [CapProcs -> CapCall] /\ ccall'[p] = made
        /\ \A q \in CapProcs \ {p} : ccall'[q] = ccall[q]
        /\ \A q \in CapProcs : ccall'[q].op = "none" \/ ccall'[q].who \in CapNames
        /\ \A q \in CapProcs : ccall'[q].op = "none" => ccall'[q] = NoCall
    BY <2>1, <2>2, CallMade
  <2>4. CapRecords'
    BY <1>1, <2>1, <2>3 DEF CapInv, CapRecords
  <2>5. \A b \in CapNames \ {a} : ~OnName(p, b) /\ ~OnName(p, b)'
    BY <2>1, <2>2, <2>3, FreeCall DEF OnName, Unoccupied
  <2>6. NameGood(a)'
    <3>1. lives[a] # 0 /\ (lives[a] = 1 => crow[a].first \subseteq want) /\ (Exists(a)' <=> Exists(a))
      BY <1>1, <2>1 DEF NameGood, Exists
    <3>2. ASSUME NEW q \in CapProcs, OnName(q, a)', ccall'[q].op = "expand"
          PROVE  lives'[a] # 0 /\ (Exists(a)' /\ lives'[a] = 1 => crow'[a].first \subseteq ccall'[q].want)
      <4>1. CASE q = p
        BY <2>1, <2>2, <2>3, <3>1, <4>1
      <4>2. CASE q # p
        BY <1>1, <2>1, <2>3, <3>1, <3>2, <4>2 DEF NameGood, OnName
      <4> QED BY <4>1, <4>2
    <3>3. ASSUME ~disturbed' PROVE Settled(a)'
      <4>1. cidx[a] = crow[a].caps /\ \A q \in CapProcs : ~OnName(q, a)
        BY <2>1, <3>3, NameFree
      <4>2. \A q \in CapProcs : OnName(q, a)' => q = p
        BY <2>3, <4>1 DEF OnName
      <4>3. OnName(p, a)'
        BY <2>2, <2>3 DEF OnName
      <4> QED BY <2>1, <2>2, <2>3, <3>1, <4>1, <4>2, <4>3 DEF Settled
    <3> QED BY <1>1, <2>1, <3>1, <3>2, <3>3 DEF NameGood
  <2> QED BY <2>1, <2>3, <2>4, <2>5, <2>6, CapOnName
<1> QED BY <1>2, <1>3

LEMMA CapInvStep == CapInv /\ [CapNext]_capVars => CapInv'
<1> SUFFICES ASSUME CapInv, [CapNext]_capVars PROVE CapInv'
  OBVIOUS
<1>1. CASE UNCHANGED capVars
  BY <1>1 DEF capVars, CapInv, CapRecords, StartingSet, ExpandsKeepFirst, Settled, OnName, Exists
<1>2. ASSUME NEW p \in CapProcs, CapStep(p) PROVE CapInv'
  BY <1>2, StepIndexed, StepExpandWrite, StepDeleteIndex, StepIndexOne DEF CapStep
<1>3. ASSUME NEW p \in CapProcs, DieInCall(p) \/ SeedIndex(p) PROVE CapInv'
  BY <1>3, StepDie, StepSeed
<1>4. ASSUME NEW p \in CapProcs, NEW a \in CapNames, NEW caps \in SUBSET CapTags,
             RegisterRow(p, a, caps) \/ ReregisterRow(p, a, caps) \/ MintRow(p, a, caps)
      PROVE  CapInv'
  BY <1>4, StepRegister, StepReregister, StepMint
<1>5. ASSUME NEW p \in CapProcs, NEW a \in CapNames, NEW caps \in SUBSET CapTags, ExpandRead(p, a, caps)
      PROVE  CapInv'
  BY <1>5, StepStarts
<1>6. ASSUME NEW p \in CapProcs, NEW a \in CapNames, DeleteRow(p, a) PROVE CapInv'
  <2>1. {} \in SUBSET CapTags
    OBVIOUS
  <2> QED BY <1>6, <2>1, StepStarts
<1>7. ASSUME NEW p \in CapProcs, NEW a \in CapNames, TeardownRow(p, a) \/ PurgeAbandoned(p, a) PROVE CapInv'
  BY <1>7, StepTeardown, StepPurge
<1>8. ASSUME NEW a \in CapNames, Silent(a) PROVE CapInv'
  BY <1>8, StepSilent
<1> QED BY <1>1, <1>2, <1>3, <1>4, <1>5, <1>6, <1>7, <1>8 DEF CapNext

\* The invariant holds in every state.
THEOREM CapabilityInvariant == CapSpec => []CapInv
BY CapInitInv, CapInvStep, PTL DEF CapSpec

\* The promises of the capability registry: the first agent of a name keeps what it
\* registered with, and both tables agree between calls that nothing disturbed.
THEOREM TablesAlwaysAgree == CapSpec => []CapabilitiesAgree
<1>1. CapInv => CapabilitiesAgree
  <2> SUFFICES ASSUME CapInv PROVE CapabilitiesAgree
    OBVIOUS
  <2>1. CapTypeOK
    BY DEF CapInv, CapRecords, CapTypeOK, CapCall
  <2>2. TablesAgree
    BY FreeCall DEF TablesAgree, CapInv, Settled, OnName, Unoccupied
  <2> QED BY <2>1, <2>2 DEF CapabilitiesAgree, CapInv
<1> QED BY <1>1, CapabilityInvariant, PTL

-----------------------------------------------------------------------------
(* Sessions.  A window that runs or ever ran has been started, and a started *)
(* window that ended does not run again (StartedOnce); an anchor, and with   *)
(* it what a release probed, names a started window.  So the window that a   *)
(* release found dead is dead when it writes (ProbeStands).                  *)

Started(w) == win[w].starts > 0

StartedOnce ==
  /\ \A w \in Windows : win[w].up => Started(w)
  /\ \A w \in Windows : reg[w].stage = "writing" => Started(w)
  /\ agent.pid # NoPid => Started(agent.pid)

ProbeStands ==
  release.stage = "probed" /\ ~release.override /\ release.start /\ release.pid # NoPid =>
    Started(release.pid) /\ ~win[release.pid].up

SessInv == SessTypeOK /\ StartedOnce /\ ProbeStands

LEMMA SessInitInv == SessInit => SessInv
BY SessionBounds DEF SessInit, SessInv, SessTypeOK, StartedOnce, ProbeStands, SessRow, Absent, Window,
   Reg, IdleReg, Release, IdleRelease, Spawn, IdleSpawn, Sids, NoSid, NoPid

LEMMA SessOpened ==
  ASSUME SessInv
  PROVE  /\ agent \in SessRow /\ agent.sess \in Sids \cup {NoSid} /\ agent.there \in BOOLEAN
         /\ agent.pid \in Windows \cup {NoPid} /\ agent.start \in BOOLEAN
         /\ sessions \in Nat /\ sessions <= MaxSessions /\ agent.sess <= sessions
         /\ win \in [Windows -> Window] /\ reg \in [Windows -> Reg]
         /\ release \in Release /\ spawn \in Spawn
BY SessionBounds DEF SessInv, SessTypeOK, SessRow

\* The rows that the steps write.
LEMMA RowsWritten ==
  ASSUME NEW r \in SessRow, NEW s \in Sids, NEW w \in Windows \cup {NoPid}, NEW start \in BOOLEAN
  PROVE  /\ Absent \in SessRow /\ Absent.sess = NoSid /\ Absent.pid = NoPid /\ ~Absent.start
         /\ Taken(r, s, w) \in SessRow /\ Taken(r, s, w).there /\ Taken(r, s, w).sess = s
         /\ Taken(r, s, w).pid = (IF r.there THEN r.pid ELSE NoPid)
         /\ Taken(r, s, w).start = (IF r.there THEN r.start ELSE FALSE)
         /\ Inserted(s, w) \in SessRow /\ Inserted(s, w).there /\ Inserted(s, w).sess = s
         /\ Inserted(s, w).pid = NoPid /\ ~Inserted(s, w).start
         /\ Cleared(r) \in SessRow /\ Cleared(r).there = r.there /\ Cleared(r).sess = NoSid
         /\ Cleared(r).pid = NoPid /\ ~Cleared(r).start
         /\ Anchored(r, w, start) \in SessRow /\ Anchored(r, w, start).there = r.there
         /\ Anchored(r, w, start).sess = r.sess
         /\ r.there => Anchored(r, w, start).pid = w /\ Anchored(r, w, start).start = start
         /\ ~r.there => Anchored(r, w, start) = r
BY DEF SessRow, Absent, Taken, Inserted, Cleared, Anchored, NoSid, NoPid, Sids

\* What a row that a step leaves must be.
Fits(row, n) ==
  /\ row \in SessRow /\ row.sess <= n
  /\ row.start => row.pid # NoPid
  /\ ~row.there => row = Absent
  /\ row.pid # NoPid => row.pid \in Windows /\ Started(row.pid)

\* The row there is, anchored on a started window, cleared, or gone.
LEMMA RowFits ==
  ASSUME SessInv
  PROVE  /\ Fits(agent, sessions) /\ Fits(Absent, sessions)
         /\ Fits(Cleared(agent), sessions) \/ ~agent.there
         /\ \A w \in Windows, start \in BOOLEAN : Started(w) => Fits(Anchored(agent, w, start), sessions)
<1>1. Fits(agent, sessions)
  BY SessOpened DEF SessInv, SessTypeOK, StartedOnce, Fits
<1>2. Fits(Absent, sessions) /\ (agent.there => Fits(Cleared(agent), sessions))
  <2>1. 0 <= sessions
    BY SessOpened
  <2>2. Fits(Absent, sessions)
    BY <2>1 DEF Fits, SessRow, Absent, NoSid
  <2>3. /\ Cleared(agent) \in SessRow /\ Cleared(agent).there = agent.there /\ Cleared(agent).sess = 0
        /\ Cleared(agent).pid = NoPid /\ ~Cleared(agent).start
    BY SessOpened DEF SessRow, Cleared, NoSid
  <2> QED BY <2>1, <2>2, <2>3 DEF Fits
<1>3. ASSUME NEW w \in Windows, NEW start \in BOOLEAN, Started(w)
      PROVE  Fits(Anchored(agent, w, start), sessions)
  <2>1. CASE agent.there
    <3>1. /\ Anchored(agent, w, start) \in SessRow /\ Anchored(agent, w, start).there
          /\ Anchored(agent, w, start).sess = agent.sess /\ Anchored(agent, w, start).pid = w
      BY <2>1, SessOpened DEF SessRow, Anchored
    <3> QED BY <1>3, <3>1, SessOpened, SessionBounds DEF Fits
  <2>2. CASE ~agent.there
    BY <1>1, <2>2 DEF Anchored
  <2> QED BY <2>1, <2>2
<1> QED BY <1>1, <1>2, <1>3

LEMMA InsertedFits ==
  ASSUME SessInv, sessions < MaxSessions
  PROVE  sessions + 1 \in Sids /\ Fits(Inserted(sessions + 1, NoPid), sessions + 1)
<1>1. PICK s \in Sids : s = sessions + 1
  BY SessOpened, SessionBounds DEF Sids
<1>2. s \in Nat /\ s <= s
  BY <1>1, SessOpened
<1>3. Fits(Inserted(s, NoPid), s)
  BY <1>2 DEF Fits, Inserted, SessRow, Absent, NoSid
<1> QED BY <1>1, <1>3

\* The row taken, anchored or not, by a window that started, with the session minted for it.
LEMMA TakenFits ==
  ASSUME SessInv, NEW w \in Windows, sessions < MaxSessions
  PROVE  /\ sessions + 1 \in Sids /\ Fits(Taken(agent, sessions + 1, w), sessions + 1)
         /\ \A start \in BOOLEAN :
              Started(w) => Fits(Anchored(Taken(agent, sessions + 1, w), w, start), sessions + 1)
<1>1. PICK s \in Sids : s = sessions + 1
  BY SessOpened, SessionBounds DEF Sids
<1>2. s \in Nat /\ s <= s
  BY <1>1, SessOpened
<1>3. Fits(Inserted(s, w), s)
  BY <1>2 DEF Fits, Inserted, SessRow, Absent, NoSid
<1>4. Fits(Taken(agent, s, w), s) /\ Taken(agent, s, w).there
  <2>1. CASE agent.there
    <3>1. /\ Taken(agent, s, w) \in SessRow /\ Taken(agent, s, w).there
          /\ Taken(agent, s, w).sess = s /\ Taken(agent, s, w).pid = agent.pid
          /\ Taken(agent, s, w).start = agent.start
      BY <2>1, SessOpened DEF SessRow, Taken
    <3>2. /\ agent.start => agent.pid # NoPid
          /\ agent.pid # NoPid => agent.pid \in Windows /\ Started(agent.pid)
      BY SessOpened DEF SessInv, SessTypeOK, StartedOnce
    <3> QED BY <1>2, <3>1, <3>2 DEF Fits
  <2>2. CASE ~agent.there
    <3>1. Taken(agent, s, w) = Inserted(s, w) /\ Inserted(s, w).there
      BY <2>2 DEF Taken, Inserted, Absent
    <3> QED BY <1>3, <3>1
  <2> QED BY <2>1, <2>2
<1>5. ASSUME NEW start \in BOOLEAN, Started(w)
      PROVE  Fits(Anchored(Taken(agent, s, w), w, start), s)
  <2> DEFINE t == Taken(agent, s, w)
  <2>1. t \in SessRow /\ t.there /\ t.sess <= s
    BY <1>4 DEF Fits
  <2> HIDE DEF t
  <2>2. /\ Anchored(t, w, start) \in SessRow /\ Anchored(t, w, start).there
        /\ Anchored(t, w, start).sess = t.sess /\ Anchored(t, w, start).pid = w
    BY <2>1 DEF SessRow, Anchored
  <2>3. Fits(Anchored(t, w, start), s)
    BY <1>5, <2>1, <2>2, SessionBounds DEF Fits
  <2> QED BY <2>3 DEF t
<1> QED BY <1>1, <1>3, <1>4, <1>5

\* A step that leaves the windows and the registrations alone.
LEMMA RowChanges ==
  ASSUME SessInv, win' = win, reg' = reg, release' \in Release, spawn' \in Spawn, ProbeStands',
         sessions' \in 0 .. MaxSessions, Fits(agent', sessions')
  PROVE  SessInv'
<1>0. /\ agent' \in SessRow /\ agent'.sess <= sessions' /\ (agent'.start => agent'.pid # NoPid)
      /\ (~agent'.there => agent' = Absent)
  BY DEF Fits
<1>1. SessTypeOK'
  BY <1>0 DEF SessInv, SessTypeOK
<1>2. StartedOnce'
  BY DEF SessInv, StartedOnce, Started, Fits
<1> QED BY <1>1, <1>2 DEF SessInv

LEMMA ReleaseWaits ==
  ASSUME SessInv, win' = win, release' = release
  PROVE  release' \in Release /\ ProbeStands'
BY DEF SessInv, SessTypeOK, ProbeStands, Started

\* A step of a window: started windows stay started, and one that ended stays so.
WindowsKept ==
  /\ win' \in [Windows -> Window]
  /\ \A w \in Windows : /\ Started(w) => Started(w)'
                        /\ win'[w].up => Started(w)'
                        /\ Started(w) /\ ~win[w].up => ~win'[w].up

LEMMA WindowChanges ==
  ASSUME SessInv, WindowsKept, reg' \in [Windows -> Reg],
         \A w \in Windows : reg'[w].stage = "writing" => Started(w)',
         release' = release, spawn' = spawn, sessions' = sessions,
         \/ agent' = agent
         \/ agent' = Cleared(agent) /\ agent.there
         \/ \E w \in Windows, start \in BOOLEAN : Started(w)' /\ agent' = Anchored(agent, w, start)
  PROVE  SessInv'
<1>1. SessTypeOK /\ StartedOnce /\ ProbeStands
  BY DEF SessInv
<1>2. /\ agent' \in SessRow /\ agent'.sess <= sessions /\ (agent'.start => agent'.pid # NoPid)
      /\ (~agent'.there => agent' = Absent)
      /\ (agent'.pid # NoPid => agent'.pid \in Windows /\ (Started(agent'.pid) \/ Started(agent.pid)'))
  <2>1. CASE Fits(agent', sessions)
    BY <2>1 DEF Fits
  <2>2. ASSUME NEW w \in Windows, NEW start \in BOOLEAN, Started(w)', agent.there,
               agent' = Anchored(agent, w, start)
        PROVE  /\ agent' \in SessRow /\ agent'.sess = agent.sess /\ agent'.pid = w /\ agent'.there
    BY <2>2, SessOpened DEF SessRow, Anchored
  <2>3. ASSUME NEW w \in Windows, NEW start \in BOOLEAN, ~agent.there, agent' = Anchored(agent, w, start)
        PROVE  Fits(agent', sessions)
    BY <2>3, RowFits DEF Anchored
  <2>4. CASE agent' = agent \/ (agent' = Cleared(agent) /\ agent.there)
    BY <2>1, <2>4, RowFits
  <2>5. ASSUME NEW w \in Windows, NEW start \in BOOLEAN, Started(w)', agent' = Anchored(agent, w, start)
        PROVE  /\ agent' \in SessRow /\ agent'.sess <= sessions /\ (agent'.start => agent'.pid # NoPid)
               /\ (~agent'.there => agent' = Absent)
               /\ (agent'.pid # NoPid => agent'.pid \in Windows /\ (Started(agent'.pid) \/ Started(agent.pid)'))
    <3>1. CASE agent.there
      BY <2>2, <2>5, <3>1, SessOpened, SessionBounds
    <3>2. CASE ~agent.there
      BY <2>1, <2>3, <2>5, <3>2
    <3> QED BY <3>1, <3>2
  <2> QED BY <2>4, <2>5
<1>3. SessTypeOK'
  BY <1>1, <1>2 DEF SessTypeOK, WindowsKept
<1>4. StartedOnce'
  BY <1>1, <1>2 DEF StartedOnce, WindowsKept
<1>5. ProbeStands'
  BY <1>1, SessOpened DEF ProbeStands, WindowsKept, Release
<1> QED BY <1>3, <1>4, <1>5 DEF SessInv

LEMMA StepConnectorStarts ==
  ASSUME SessInv, NEW w \in Windows, ConnectorStarts(w)
  PROVE  SessInv'
<1>1. PICK found \in BOOLEAN :
        /\ win' = [win EXCEPT ![w].up = TRUE, ![w].conn = TRUE, ![w].starts = @ + 1, ![w].seen = found,
                              ![w].captured = agent.sess]
        /\ agent' = IF found THEN Anchored(agent, w, TRUE) ELSE agent
  BY DEF ConnectorStarts
<1>2. /\ win[w].starts < MaxStarts /\ (Started(w) => win[w].up) /\ win[w] \in Window
      /\ reg' = reg /\ release' = release /\ spawn' = spawn /\ sessions' = sessions
  BY SessOpened DEF ConnectorStarts, Started
<1>3. /\ win'[w] \in Window /\ win'[w].starts = win[w].starts + 1
      /\ \A v \in Windows \ {w} : win'[v] = win[v]
  BY <1>1, <1>2, SessOpened, SessionBounds DEF Window
<1>4. win' \in [Windows -> Window] /\ Started(w)'
  BY <1>1, <1>2, <1>3, SessOpened, SessionBounds DEF Started, Window
<1>5. WindowsKept
  BY <1>2, <1>3, <1>4 DEF WindowsKept, Started, SessInv, StartedOnce
<1>6. \A v \in Windows : reg'[v].stage = "writing" => Started(v)'
  BY <1>2, <1>5 DEF SessInv, StartedOnce, WindowsKept
<1>7. \/ agent' = agent
      \/ \E v \in Windows, start \in BOOLEAN : Started(v)' /\ agent' = Anchored(agent, v, start)
  BY <1>1, <1>4
<1> QED BY <1>2, <1>5, <1>6, <1>7, SessOpened, WindowChanges

LEMMA StepWindow ==
  ASSUME SessInv, NEW w \in Windows, WindowDies(w) \/ PidReused(w) \/ Signalled(w)
  PROVE  SessInv'
<1>1. win[w] \in Window /\ win \in [Windows -> Window] /\ reg \in [Windows -> Reg]
      /\ agent.there \in BOOLEAN /\ StartedOnce
  BY SessOpened DEF SessInv
<1>2. PICK row \in Window : /\ win' = [win EXCEPT ![w] = row] /\ row.starts = win[w].starts
                            /\ row.up => win[w].up
  <2>1. CASE WindowDies(w)
    <3>1. [win[w] EXCEPT !.up = FALSE] \in Window /\ [win[w] EXCEPT !.up = FALSE].starts = win[w].starts
          /\ ~[win[w] EXCEPT !.up = FALSE].up
      BY <1>1 DEF Window
    <3> QED BY <2>1, <3>1 DEF WindowDies
  <2>2. CASE PidReused(w)
    <3>1. [win[w] EXCEPT !.reused = TRUE] \in Window /\ [win[w] EXCEPT !.reused = TRUE].starts = win[w].starts
          /\ [win[w] EXCEPT !.reused = TRUE].up = win[w].up
      BY <1>1 DEF Window
    <3> QED BY <2>2, <3>1 DEF PidReused
  <2>3. CASE Signalled(w)
    <3> DEFINE row == [win[w] EXCEPT !.conn = FALSE, !.captured = NoSid, !.seen = FALSE]
    <3>1. row \in Window /\ row.starts = win[w].starts /\ row.up = win[w].up
      BY <1>1 DEF Window
    <3>2. win' = [win EXCEPT ![w] = row]
      BY <1>1, <2>3 DEF Signalled
    <3> HIDE DEF row
    <3> QED BY <3>1, <3>2
  <2> QED BY <2>1, <2>2, <2>3
<1>3. WindowsKept
  BY <1>1, <1>2 DEF WindowsKept, Started, StartedOnce
<1>4. /\ reg' = reg \/ reg' = [reg EXCEPT ![w] = IdleReg]
      /\ release' = release /\ spawn' = spawn /\ sessions' = sessions
      /\ agent' = agent \/ (agent' = Cleared(agent) /\ agent.sess # NoSid)
  BY DEF WindowDies, PidReused, Signalled
<1>5. reg' \in [Windows -> Reg] /\ \A v \in Windows : reg'[v].stage = "writing" => Started(v)'
  <2>1. IdleReg \in Reg /\ IdleReg.stage # "writing"
    BY DEF IdleReg, Reg, NoSid
  <2>2. reg' \in [Windows -> Reg] /\ \A v \in Windows : reg'[v].stage = "writing" => reg'[v] = reg[v]
    BY <1>1, <1>4, <2>1
  <2> QED BY <1>1, <1>3, <2>2 DEF StartedOnce, WindowsKept
<1>6. agent' = agent \/ (agent' = Cleared(agent) /\ agent.there)
  BY <1>4 DEF SessInv, SessTypeOK, Absent
<1> QED BY <1>3, <1>4, <1>5, <1>6, WindowChanges

LEMMA StepRegisterReads ==
  ASSUME SessInv, NEW w \in Windows,
         RegisterReads(w) \/ ForceReads(w) \/ RegisterRefused(w)
  PROVE  SessInv'
<1>1. PICK g \in Reg : reg' = [reg EXCEPT ![w] = g] /\ (g.stage = "writing" => win[w].up)
  <2>1. CASE RegisterReads(w)
    <3>1. [IdleReg EXCEPT !.stage = "writing"] \in Reg
      BY DEF Reg, IdleReg, NoSid
    <3> QED BY <2>1, <3>1 DEF RegisterReads
  <2>2. CASE ForceReads(w)
    <3>1. [IdleReg EXCEPT !.stage = "writing", !.force = TRUE, !.expect = agent.sess] \in Reg
      BY SessOpened DEF Reg, IdleReg, NoSid
    <3> QED BY <2>2, <3>1 DEF ForceReads
  <2>3. CASE RegisterRefused(w)
    <3>1. IdleReg \in Reg /\ IdleReg.stage # "writing"
      BY DEF Reg, IdleReg, NoSid
    <3> QED BY <2>3, <3>1 DEF RegisterRefused
  <2> QED BY <2>1, <2>2, <2>3
<1>2. /\ agent' = agent /\ win' = win /\ release' = release /\ spawn' = spawn /\ sessions' = sessions
  BY DEF RegisterReads, ForceReads, RegisterRefused
<1>3. WindowsKept
  BY <1>2, SessOpened DEF WindowsKept, Started, SessInv, StartedOnce
<1>4. reg' \in [Windows -> Reg] /\ \A v \in Windows : reg'[v].stage = "writing" => Started(v)'
  BY <1>1, <1>2, SessOpened DEF SessInv, StartedOnce, Started
<1> QED BY <1>2, <1>3, <1>4, WindowChanges

LEMMA StepRegisterWrites ==
  ASSUME SessInv, NEW w \in Windows, RegisterWrites(w)
  PROVE  SessInv'
<1>1. /\ sessions < MaxSessions /\ sessions' = sessions + 1 /\ Started(w)
      /\ reg' = [reg EXCEPT ![w] = IdleReg] /\ release' = release /\ spawn' = spawn
      /\ win' = win \/ win' = [win EXCEPT ![w].captured = sessions + 1]
  BY DEF RegisterWrites, SessInv, StartedOnce
<1>2. Fits(agent', sessions')
  <2>1. \/ agent' = Taken(agent, sessions + 1, w)
        \/ \E start \in BOOLEAN : agent' = Anchored(Taken(agent, sessions + 1, w), w, start)
    BY DEF RegisterWrites
  <2> QED BY <1>1, <2>1, TakenFits
<1>3. sessions' \in 0 .. MaxSessions /\ sessions + 1 \in Sids
  BY <1>1, SessOpened, SessionBounds, TakenFits
<1>4. /\ win' \in [Windows -> Window]
      /\ \A v \in Windows : win'[v].starts = win[v].starts /\ win'[v].up = win[v].up
  <2> DEFINE row == [win[w] EXCEPT !.captured = sessions + 1]
  <2>1. row \in Window /\ row.starts = win[w].starts /\ row.up = win[w].up
    BY <1>3, SessOpened DEF Window
  <2>2. win' = win \/ win' = [win EXCEPT ![w] = row]
    BY <1>1
  <2> HIDE DEF row
  <2> QED BY <2>1, <2>2, SessOpened
<1>5. reg' \in [Windows -> Reg] /\ \A v \in Windows : reg'[v].stage = "writing" => reg[v].stage = "writing"
  <2>1. IdleReg \in Reg /\ IdleReg.stage # "writing"
    BY DEF IdleReg, Reg, NoSid
  <2> QED BY <1>1, <2>1, SessOpened
<1>6. SessTypeOK'
  BY <1>1, <1>2, <1>3, <1>4, <1>5, SessOpened DEF SessTypeOK, Fits
<1>7. StartedOnce'
  BY <1>2, <1>4, <1>5 DEF SessInv, StartedOnce, Started, Fits
<1>8. ProbeStands'
  BY <1>1, <1>4, SessOpened DEF SessInv, ProbeStands, Started, Release
<1> QED BY <1>6, <1>7, <1>8 DEF SessInv

\* A probe that found the anchored process dead saw a started window that is not up.
LEMMA StepRelease ==
  ASSUME SessInv, (\E o \in BOOLEAN : ReleaseProbes(o)) \/ ReleaseWrites
  PROVE  SessInv'
<1>1. CASE ReleaseWrites
  <2>1. /\ release' = IdleRelease /\ win' = win /\ reg' = reg /\ spawn' = spawn /\ sessions' = sessions
        /\ agent' = agent \/ (agent' = Cleared(agent) /\ agent.there)
    BY <1>1 DEF ReleaseWrites, StillProbed
  <2>2. release' \in Release /\ ProbeStands'
    BY <2>1 DEF IdleRelease, Release, ProbeStands, NoSid
  <2>3. Fits(agent', sessions') /\ sessions' \in 0 .. MaxSessions
    BY <2>1, RowFits, SessOpened, SessionBounds
  <2> QED BY <2>1, <2>2, <2>3, SessOpened, RowChanges
<1>2. ASSUME NEW o \in BOOLEAN, ReleaseProbes(o) PROVE SessInv'
  <2>1. /\ release' = [stage |-> "probed", override |-> o,
                       sess |-> agent.sess, pid |-> agent.pid, start |-> agent.start]
        /\ agent' = agent /\ win' = win /\ reg' = reg /\ spawn' = spawn /\ sessions' = sessions
        /\ agent.pid # NoPid /\ (o \/ "dead" \in AnchorVerdict(agent))
    BY <1>2 DEF ReleaseProbes
  <2>2. release' \in Release
    BY <2>1, SessOpened DEF Release
  <2>3. ProbeStands'
    <3>1. ~o => ~win[agent.pid].up
      BY <2>1 DEF AnchorVerdict, ProcessState
    <3>2. Started(agent.pid)
      BY <2>1 DEF SessInv, StartedOnce
    <3> QED BY <2>1, <3>1, <3>2 DEF ProbeStands, Started
  <2>4. Fits(agent', sessions') /\ sessions' \in 0 .. MaxSessions
    BY <2>1, RowFits, SessOpened, SessionBounds
  <2> QED BY <2>1, <2>2, <2>3, <2>4, SessOpened, RowChanges
<1> QED BY <1>1, <1>2

LEMMA StepRow ==
  ASSUME SessInv,
         \/ \E w \in Windows : ReportLiveness(w)
         \/ Touch \/ GoesQuiet \/ UnregisterAgent \/ SpawnRegisters \/ SpawnLaunches \/ SpawnRollsBack
  PROVE  SessInv'
<1>1. /\ win' = win /\ reg' = reg /\ release' = release
  BY DEF ReportLiveness, Touch, GoesQuiet, UnregisterAgent, SpawnRegisters, SpawnLaunches, SpawnRollsBack
<1>2. spawn' \in Spawn /\ sessions' \in 0 .. MaxSessions /\ Fits(agent', sessions')
  <2>1. CASE \E w \in Windows : ReportLiveness(w)
    <3>1. PICK w \in Windows, start \in BOOLEAN :
            /\ win[w].up /\ agent' = Anchored(agent, w, start) /\ spawn' = spawn /\ sessions' = sessions
      BY <2>1 DEF ReportLiveness
    <3>2. Started(w)
      BY <3>1 DEF SessInv, StartedOnce
    <3> QED BY <3>1, <3>2, RowFits, SessOpened
  <2>2. CASE Touch \/ GoesQuiet
    <3>0. agent.recent => agent.there
      BY DEF SessInv, SessTypeOK, Absent
    <3>1. /\ spawn' = spawn /\ sessions' = sessions /\ agent.there
          /\ agent' = [agent EXCEPT !.recent = TRUE] \/ agent' = [agent EXCEPT !.recent = FALSE]
      BY <2>2, <3>0 DEF Touch, GoesQuiet
    <3>2. /\ agent' \in SessRow /\ agent'.sess = agent.sess /\ agent'.pid = agent.pid
          /\ agent'.start = agent.start /\ agent'.there
      BY <3>1, SessOpened DEF SessRow
    <3>3. Fits(agent', sessions)
      BY <3>2, RowFits DEF Fits
    <3> QED BY <3>1, <3>3, SessOpened
  <2>3. CASE UnregisterAgent
    BY <2>3, RowFits, SessOpened DEF UnregisterAgent
  <2>4. CASE SpawnRegisters
    <3>1. sessions < MaxSessions /\ sessions' = sessions + 1 /\ agent' = Inserted(sessions + 1, NoPid)
          /\ spawn' = [stage |-> "vault", sess |-> sessions + 1]
      BY <2>4 DEF SpawnRegisters
    <3>2. sessions + 1 \in Sids /\ Fits(agent', sessions')
      BY <3>1, InsertedFits
    <3>3. spawn' \in Spawn /\ sessions' \in 0 .. MaxSessions
      BY <3>1, <3>2, SessOpened, SessionBounds DEF Spawn, Sids
    <3> QED BY <3>2, <3>3
  <2>5. CASE SpawnLaunches \/ SpawnRollsBack
    <3>1. /\ spawn' = IdleSpawn /\ sessions' = sessions
          /\ agent' = agent \/ (agent' = Cleared(agent) /\ agent.there) \/ agent' = Absent
      BY <2>5 DEF SpawnLaunches, SpawnRollsBack, SpawnsSession
    <3>2. IdleSpawn \in Spawn
      BY DEF IdleSpawn, Spawn, NoSid
    <3> QED BY <3>1, <3>2, RowFits, SessOpened
  <2> QED BY <2>1, <2>2, <2>3, <2>4, <2>5
<1> QED BY <1>1, <1>2, ReleaseWaits, RowChanges

\* The strengthened invariant holds in every reachable state.
THEOREM SessionHoldsInvariant == SessSpec => []SessInv
<1>1. SessInv /\ [SessNext]_sessVars => SessInv'
  <2> SUFFICES ASSUME SessInv, [SessNext]_sessVars PROVE SessInv'
    OBVIOUS
  <2>1. CASE UNCHANGED sessVars
    BY <2>1 DEF sessVars, SessInv, SessTypeOK, StartedOnce, ProbeStands, Started
  <2> QED BY <2>1, StepConnectorStarts, StepWindow, StepRegisterReads, StepRegisterWrites, StepRelease,
             StepRow DEF SessNext
<1> QED BY <1>1, SessInitInv, PTL DEF SessSpec

\* The update of a release that was not overridden: the window it clears was found dead.
LEMMA ReleaseStep ==
  ASSUME SessInv, [SessNext]_sessVars, release.stage = "probed", release'.stage = "idle",
         ~release.override, agent'.sess # agent.sess
  PROVE  ~(agent.pid # NoPid /\ agent.start /\ win[agent.pid].up)
<1>1. ReleaseWrites
  BY DEF SessNext, sessVars, ConnectorStarts, WindowDies, PidReused, Signalled, RegisterReads, ForceReads,
     RegisterWrites, RegisterRefused, ReportLiveness, Touch, GoesQuiet, UnregisterAgent, ReleaseProbes,
     SpawnRegisters, SpawnLaunches, SpawnRollsBack
<1>2. release.pid = agent.pid /\ release.start = agent.start
  BY <1>1 DEF ReleaseWrites, StillProbed
<1> QED BY <1>2 DEF SessInv, ProbeStands

\* A connector that a signal ends while its agent runs leaves the row: the probe of a
\* window that is up never answers dead.
LEMMA SignalStep ==
  ASSUME SessInv, [SessNext]_sessVars, NEW w \in Windows, win[w].conn, ~win'[w].conn, win[w].up
  PROVE  agent' = agent
<1>1. win \in [Windows -> Window] /\ agent \in SessRow
  BY SessOpened
<1>2. ~ UNCHANGED win
  OBVIOUS
<1>3. PICK v \in Windows : ConnectorStarts(v) \/ WindowDies(v) \/ PidReused(v) \/ Signalled(v) \/ RegisterWrites(v)
  BY <1>2 DEF SessNext, sessVars, RegisterReads, ForceReads, RegisterRefused, ReportLiveness, Touch, GoesQuiet,
     UnregisterAgent, ReleaseProbes, ReleaseWrites, SpawnRegisters, SpawnLaunches, SpawnRollsBack
<1>5. ConnectorStarts(v) => win'[w].conn
  BY <1>1 DEF ConnectorStarts, Window
<1>6. WindowDies(v) \/ PidReused(v) => win'[w].conn = win[w].conn
  BY <1>1 DEF WindowDies, PidReused, Window
<1>7. RegisterWrites(v) => win'[w].conn = win[w].conn
  BY <1>1 DEF RegisterWrites, Window
<1>8. Signalled(v) /\ v # w => win'[w].conn = win[w].conn
  BY <1>1 DEF Signalled
<1>9. Signalled(w)
  BY <1>3, <1>5, <1>6, <1>7, <1>8
<1>4. "dead" \notin AnchorVerdict(agent) \/ agent.pid # w
  BY DEF AnchorVerdict, ProcessState
<1> QED BY <1>4, <1>9 DEF Signalled, OwnAnchorDead

LEMMA ForceStep ==
  ASSUME SessInv, [SessNext]_sessVars, NEW w \in Windows, reg[w].force, reg[w].stage = "writing",
         sessions' > sessions, reg'[w].stage = "idle"
  PROVE  agent.sess = reg[w].expect
<1>1. reg \in [Windows -> Reg] /\ sessions \in Nat
  BY SessOpened
<1>2. sessions' # sessions /\ reg' # reg
  BY <1>1
<1>3. PICK v \in Windows : RegisterWrites(v)
  BY <1>2 DEF SessNext, sessVars, ConnectorStarts, WindowDies, PidReused, Signalled, RegisterReads, ForceReads,
     RegisterRefused, ReportLiveness, Touch, GoesQuiet, UnregisterAgent, ReleaseProbes, ReleaseWrites,
     SpawnRegisters, SpawnLaunches, SpawnRollsBack
<1>4. v # w => reg'[w] = reg[w]
  BY <1>1, <1>3 DEF RegisterWrites
<1> QED BY <1>3, <1>4 DEF RegisterWrites, CasHolds

LEMMA SpawnStep ==
  ASSUME SessInv, [SessNext]_sessVars, spawn.stage = "vault", spawn'.stage = "idle", agent' # agent
  PROVE  agent.sess = spawn.sess
BY DEF SessNext, sessVars, ConnectorStarts, WindowDies, PidReused, Signalled, RegisterReads, ForceReads,
   RegisterWrites, RegisterRefused, ReportLiveness, Touch, GoesQuiet, UnregisterAgent, ReleaseProbes,
   ReleaseWrites, SpawnRegisters, SpawnLaunches, SpawnRollsBack, SpawnsSession

\* A signal, a release, a forced register and a spawn end only the hold they were aimed at:
\* the window a release found dead does not come back, and each of the other updates
\* matches the row on what its caller read.
THEOREM HoldsAreRespected == SessSpec => HoldsRespected
<1>1. SessSpec => SignalSparesTheLiving
  <2>1. SessInv /\ [SessNext]_sessVars =>
          [\A w \in Windows : (win[w].conn /\ ~win'[w].conn /\ win[w].up) => agent' = agent]_sessVars
    BY SignalStep
  <2> QED BY <2>1, SessionHoldsInvariant, PTL DEF SessSpec, SignalSparesTheLiving
<1>2. SessSpec => ReleaseSparesRebound
  <2>1. SessInv /\ [SessNext]_sessVars =>
          [(/\ release.stage = "probed" /\ release'.stage = "idle" /\ ~release.override
            /\ agent'.sess # agent.sess) =>
              ~(agent.pid # NoPid /\ agent.start /\ win[agent.pid].up)]_sessVars
    BY ReleaseStep
  <2> QED BY <2>1, SessionHoldsInvariant, PTL DEF SessSpec, ReleaseSparesRebound
<1>3. SessSpec => ForceTakesWhatItRead
  <2>1. SessInv /\ [SessNext]_sessVars =>
          [\A w \in Windows :
             (reg[w].force /\ reg[w].stage = "writing" /\ sessions' > sessions /\ reg'[w].stage = "idle") =>
                agent.sess = reg[w].expect]_sessVars
    BY ForceStep
  <2> QED BY <2>1, SessionHoldsInvariant, PTL DEF SessSpec, ForceTakesWhatItRead
<1>4. SessSpec => SpawnTouchesItsOwn
  <2>1. SessInv /\ [SessNext]_sessVars =>
          [(spawn.stage = "vault" /\ spawn'.stage = "idle" /\ agent' # agent) => agent.sess = spawn.sess]_sessVars
    BY SpawnStep
  <2> QED BY <2>1, SessionHoldsInvariant, PTL DEF SessSpec, SpawnTouchesItsOwn
<1>5. SessSpec => []SessTypeOK
  <2>1. SessInv => SessTypeOK
    BY DEF SessInv
  <2> QED BY <2>1, SessionHoldsInvariant, PTL
<1> QED BY <1>1, <1>2, <1>3, <1>4, <1>5 DEF HoldsRespected

-----------------------------------------------------------------------------
(* An operator's send.  The call that waits keeps the row it read            *)
(* (OpRecords); revalidate then compares the column that the token matched   *)
(* in that row with the same column now, which is why the token opens the    *)
(* row as it is.                                                             *)

OpRow == [token : Tokens \cup {NoToken}, grace : Tokens \cup {NoToken}, revoked : BOOLEAN, row : BOOLEAN]
SendCall == [st : {"idle", "verifying"}, token : Tokens \cup {NoToken}, seen : OpRow, moved : BOOLEAN]

OpInv == OperatorTypeOK /\ opcall \in SendCall

LEMMA OpRowsWritten ==
  /\ NoCred \in OpRow /\ ~NoCred.row /\ Waits \in SendCall /\ Waits.st = "idle"
  /\ \A oper \in OpRow, t \in Tokens \cup {NoToken}, g \in Tokens \cup {NoToken} :
       /\ [oper EXCEPT !.token = t, !.grace = g] \in OpRow
       /\ [oper EXCEPT !.token = t, !.grace = g].row = oper.row
       /\ [oper EXCEPT !.grace = g] \in OpRow /\ [oper EXCEPT !.grace = g].row = oper.row
       /\ [oper EXCEPT !.revoked = TRUE] \in OpRow /\ [oper EXCEPT !.revoked = TRUE].row = oper.row
       /\ [NoCred EXCEPT !.row = TRUE, !.token = t] \in OpRow
       /\ [NoCred EXCEPT !.row = TRUE, !.token = t].row
BY DEF NoCred, Waits, OpRow, SendCall, Tokens, NoToken

\* A credential moves: the call in flight, if any, notices or not.
LEMMA MovedKeeps ==
  ASSUME OpInv, NEW here \in BOOLEAN, Moved(here)
  PROVE  /\ opcall' \in SendCall /\ opcall'.st = opcall.st
         /\ opcall'.seen = opcall.seen /\ opcall'.token = opcall.token
BY DEF OpInv, Moved, SendCall

LEMMA NextToken ==
  ASSUME OpInv, lastToken < MaxTokens
  PROVE  lastToken + 1 \in Tokens /\ lastToken + 1 \in 0 .. MaxTokens /\ lastToken + 1 # NoToken
BY OperatorBounds DEF OpInv, OperatorTypeOK, Tokens, NoToken

LEMMA OpTyped ==
  ASSUME OpInv
  PROVE  acred \in OpRow /\ lastToken \in 0 .. MaxTokens /\ opcall \in SendCall
BY DEF OpInv, OperatorTypeOK, OpRow

LEMMA StepCredential ==
  ASSUME OpInv,
         \/ \E here \in BOOLEAN : (\E b \in BOOLEAN : Registers(here, b) \/ Rotates(here, b)) \/ Revokes(here)
         \/ GraceEnds
  PROVE  OpInv'
<1>1. UNCHANGED <<outgoing, audited, prefs>>
  BY DEF Registers, Rotates, Revokes, GraceEnds
<1>2. ASSUME NEW here \in BOOLEAN, NEW legacy \in BOOLEAN, Registers(here, legacy) PROVE OpInv'
  <2>1. opcall' \in SendCall /\ opcall'.st = opcall.st /\ opcall'.seen = opcall.seen /\ opcall'.token = opcall.token
    BY <1>2, MovedKeeps DEF Registers
  <2>2. lastToken' \in 0 .. MaxTokens /\ (legacy \/ lastToken' \in Tokens)
    BY <1>2, OpTyped, NextToken DEF Registers
  <2>3. acred' \in OpRow
    BY <1>2, <2>2, OpRowsWritten DEF Registers
  <2> QED BY <1>1, <1>2, <2>1, <2>2, <2>3 DEF OpInv, OperatorTypeOK, OpRow, Registers
<1>3. ASSUME NEW here \in BOOLEAN, NEW grace \in BOOLEAN, Rotates(here, grace) PROVE OpInv'
  <2>1. opcall' \in SendCall /\ opcall'.st = opcall.st /\ opcall'.seen = opcall.seen /\ opcall'.token = opcall.token
    BY <1>3, MovedKeeps DEF Rotates
  <2>2. lastToken' \in 0 .. MaxTokens /\ lastToken' \in Tokens
    BY <1>3, OpTyped, NextToken DEF Rotates
  <2>3. acred.token \in Tokens \cup {NoToken} /\ acred.row
    BY <1>3, OpTyped DEF OpRow, Rotates
  <2>4. acred' \in OpRow /\ acred'.row
    <3>1. PICK g \in Tokens \cup {NoToken} : acred' = [acred EXCEPT !.token = lastToken', !.grace = g]
      BY <1>3, <2>3 DEF Rotates
    <3> QED BY <2>2, <2>3, <3>1, OpTyped DEF OpRow
  <2> QED BY <1>1, <1>3, <2>1, <2>2, <2>4 DEF OpInv, OperatorTypeOK, OpRow, Rotates
<1>4. ASSUME NEW here \in BOOLEAN, Revokes(here) PROVE OpInv'
  <2>1. opcall' \in SendCall /\ opcall'.st = opcall.st /\ opcall'.seen = opcall.seen /\ opcall'.token = opcall.token
    BY <1>4, MovedKeeps DEF Revokes
  <2>2. acred' \in OpRow /\ acred'.row
    BY <1>4, OpTyped, OpRowsWritten DEF Revokes
  <2> QED BY <1>1, <1>4, <2>1, <2>2 DEF OpInv, OperatorTypeOK, OpRow, Revokes
<1>5. ASSUME GraceEnds PROVE OpInv'
  <2>1. acred' \in OpRow /\ acred'.row = acred.row
    BY <1>5, OpTyped, OpRowsWritten DEF GraceEnds
  <2> QED BY <1>1, <1>5, <2>1 DEF OpInv, OperatorTypeOK, OpRow, GraceEnds
<1> QED BY <1>2, <1>3, <1>4, <1>5

LEMMA StepSend ==
  ASSUME OpInv,
         \/ \E t \in Tokens \cup {NoToken} : SendUnverified(t) \/ SendArrives(t)
         \/ SendDeferred \/ SendRefused \/ SendSends
  PROVE  OpInv'
<1>1. UNCHANGED <<acred, lastToken, astatus, prefs>>
  BY DEF SendUnverified, SendArrives, SendDeferred, SendRefused, SendSends
<1>2. ASSUME NEW t \in Tokens \cup {NoToken}, SendArrives(t) PROVE OpInv'
  <2>1. opcall' \in SendCall /\ opcall'.token # NoToken /\ opcall'.seen.token # NoToken
    BY <1>2, OpTyped DEF SendArrives, SendCall
  <2> QED BY <1>1, <1>2, <2>1 DEF OpInv, OperatorTypeOK, SendArrives
<1>3. ASSUME \/ \E t \in Tokens \cup {NoToken} : SendUnverified(t)
             \/ SendDeferred \/ SendRefused \/ SendSends
      PROVE OpInv'
  <2>1. opcall' = Waits /\ audited' \in {"row", "none"}
    BY <1>3 DEF SendUnverified, SendDeferred, SendRefused, SendSends, Over
  <2>2. outgoing' \in Tokens \cup {NoToken}
    BY <1>3, OpTyped DEF SendUnverified, SendDeferred, SendRefused, SendSends, SendCall, OpInv, OperatorTypeOK
  <2>3. authed' = authed \/ (authed' = TRUE /\ acred.row)
    BY <1>3 DEF SendUnverified, SendDeferred, SendRefused, SendSends, Revalidates
  <2>4. authed' \in BOOLEAN /\ (authed' => acred'.row)
    <3>1. acred'.row = acred.row /\ acred.row \in BOOLEAN /\ authed \in BOOLEAN /\ (authed => acred.row)
      BY <1>1, OpTyped DEF OpRow, OpInv, OperatorTypeOK
    <3>2. CASE authed' = authed
      BY <3>1, <3>2
    <3>3. CASE authed' = TRUE /\ acred.row
      BY <3>1, <3>3
    <3> QED BY <2>3, <3>2, <3>3
  <2>5. opcall' \in SendCall /\ opcall'.st = "idle"
    BY <2>1, OpRowsWritten
  <2> QED BY <1>1, <2>1, <2>2, <2>4, <2>5 DEF OpInv, OperatorTypeOK
<1> QED BY <1>2, <1>3

LEMMA StepEndpoint ==
  ASSUME OpInv,
         \/ \E c \in BOOLEAN : Kill(c)
         \/ \E s \in {"working", "offline"} : SetStatus(s)
         \/ Wake \/ Focus
         \/ \E who \in {"default", "cookie"} : Identify(who)
         \/ \E t \in {"catppuccin", "dark"} : Theme(t)
  PROVE  OpInv'
<1>1. CASE \E c \in BOOLEAN : Kill(c)
  <2>1. /\ (acred' = NoCred /\ authed' = FALSE) \/ (acred' = acred /\ authed' = authed)
        /\ opcall' = opcall \/ opcall' = [opcall EXCEPT !.moved = TRUE]
        /\ audited' = "row" /\ UNCHANGED <<lastToken, astatus, outgoing, prefs>>
    BY <1>1 DEF Kill
  <2>2. opcall' \in SendCall /\ opcall'.st = opcall.st /\ opcall'.seen = opcall.seen /\ opcall'.token = opcall.token
    BY <2>1, OpTyped DEF SendCall
  <2>3. acred' \in OpRow /\ authed' \in BOOLEAN /\ (authed' => acred'.row)
    <3>1. CASE acred' = NoCred /\ authed' = FALSE
      BY <3>1, OpRowsWritten
    <3>2. CASE acred' = acred /\ authed' = authed
      BY <3>2, OpTyped DEF OpInv, OperatorTypeOK
    <3> QED BY <2>1, <3>1, <3>2
  <2> QED BY <2>1, <2>2, <2>3 DEF OpInv, OperatorTypeOK, OpRow
<1>2. CASE (\E s \in {"working", "offline"} : SetStatus(s)) \/ Wake \/ Focus
  BY <1>2 DEF SetStatus, Wake, Focus, OpInv, OperatorTypeOK
<1>3. CASE (\E who \in {"default", "cookie"} : Identify(who)) \/ (\E t \in {"catppuccin", "dark"} : Theme(t))
  BY <1>3 DEF Identify, Theme, OpInv, OperatorTypeOK
<1> QED BY <1>1, <1>2, <1>3

LEMMA OpInitInv == OpInit => OpInv
<1>1. 0 \in 0 .. MaxTokens /\ NoToken = 0
  BY OperatorBounds DEF NoToken
<1>2. ASSUME OpInit PROVE OperatorTypeOK /\ opcall \in SendCall
  <2>1. acred \in OpRow /\ opcall \in SendCall /\ opcall.st = "idle" /\ authed = FALSE
    BY <1>2, OpRowsWritten DEF OpInit
  <2>2. prefs \in [theme : {"catppuccin", "dark"}, operator : {"default", "cookie"}]
    BY <1>2 DEF OpInit
  <2> QED BY <1>1, <1>2, <2>1, <2>2 DEF OpInit, OperatorTypeOK, OpRow
<1> QED BY <1>2 DEF OpInv

THEOREM OperatorInvariant == OpSpec => []OpInv
<1>1. OpInv /\ [OpNext]_opVars => OpInv'
  <2> SUFFICES ASSUME OpInv, [OpNext]_opVars PROVE OpInv'
    OBVIOUS
  <2>1. CASE UNCHANGED opVars
    BY <2>1 DEF opVars, OpInv, OperatorTypeOK
  <2> QED BY <2>1, StepCredential, StepSend, StepEndpoint DEF OpNext
<1> QED BY <1>1, OpInitInv, PTL DEF OpSpec

LEMMA SendStep ==
  ASSUME SendSends
  PROVE  Accepts(acred, outgoing')
BY DEF SendSends, Accepts, Revalidates, Matched

\* A message goes out as an agent only with a token that opens its row at the send, though
\* the row was read before the verification and other processes rotate, revoke and remove it.
THEOREM OperatorNeedsToken == OpSpec => OperatorSendsWithToken
<1>1. OpInv => OperatorTypeOK
  BY DEF OpInv
<1>2. [OpNext]_opVars => [SendSends => Accepts(acred, outgoing')]_opVars
  BY SendStep
<1>3. OpSpec => []OperatorTypeOK
  BY <1>1, OperatorInvariant, PTL
<1>4. OpSpec => SentByItsToken
  BY <1>2, PTL DEF OpSpec, SentByItsToken
<1> QED BY <1>3, <1>4 DEF OperatorSendsWithToken

-----------------------------------------------------------------------------
(* Channels.  A post under way, like one that landed, is for members that    *)
(* joined no later than its stamp (CallGood, Sees), because a membership is  *)
(* stamped with a time that has come and a second insert does not move it.   *)
(* What a read saw stays visible to a reader that did not move, so a total   *)
(* no larger than the page is the page.  Posts are numbered apart            *)
(* (Numbered), with room kept for those under way.                           *)

ChanCall == [op : {"none", "create", "enrol", "join", "post", "count"}, who : ChanAgents \cup {Nobody},
             at : 0 .. MaxClock, page : SUBSET (1 .. MaxPosts), saw : SUBSET (1 .. MaxPosts),
             then : SUBSET ChanAgents, moved : BOOLEAN]

Posting == {q \in ChanProcs : At(q, "post")}

ChanRecords ==
  /\ created \in ChanAgents \cup {Nobody}
  /\ joined \in [ChanAgents -> 0 .. MaxClock]
  /\ posts \subseteq Posts /\ IsFiniteSet(posts)
  /\ chcall \in [ChanProcs -> ChanCall]
  /\ chclock \in Times /\ chcrashed \in BOOLEAN

Numbered ==
  /\ \A m \in posts : m.id <= Cardinality(posts)
  /\ \A m, n \in posts : m.id = n.id => m = n
  /\ Cardinality(posts) + Cardinality(Posting) <= MaxPosts

Joins == \A a \in ChanAgents : joined[a] <= chclock /\ (Member(a) => created # Nobody)

Sees == \A m \in posts : \A a \in m.then : Member(a) /\ joined[a] <= m.at

CallGood(c) ==
  /\ c.op \in {"create", "enrol", "join", "post"} => c.who \in ChanAgents /\ c.at \in 1 .. chclock
  /\ c.op \in {"enrol", "join"} => created # Nobody
  /\ c.op = "post" => \A a \in c.then : Member(a) /\ joined[a] <= c.at
  /\ c.op = "count" =>
       /\ c.who \in ChanAgents
       /\ ~c.moved => Member(c.who) /\ c.saw \subseteq Visible(c.who) /\ c.page \subseteq c.saw

CallsGood == \A p \in ChanProcs : CallGood(chcall[p])

ChanInv == ChanRecords /\ Numbered /\ Joins /\ Sees /\ CallsGood

LEMMA ChanOpened ==
  ASSUME ChanInv
  PROVE  /\ ChanRecords /\ Numbered /\ Joins /\ Sees /\ CallsGood
         /\ \A p \in ChanProcs : chcall[p] \in ChanCall
         /\ \A a \in ChanAgents : joined[a] \in Nat
         /\ chclock \in Nat /\ chclock <= MaxClock /\ MaxClock \in Nat /\ MaxPosts \in Nat
         /\ Cardinality(posts) \in Nat
         /\ \A m \in posts : m \in Posts /\ m.id \in 1 .. MaxPosts /\ m.at \in Nat /\ m.then \subseteq ChanAgents
         /\ \A a : Visible(a) \subseteq 1 .. MaxPosts
BY ChanBounds, FS_CardinalityType DEF ChanInv, ChanRecords, Posts, Times, Visible

LEMMA IdleDesk ==
  NoChanCall \in ChanCall /\ NoChanCall.op = "none" /\ NoChanCall.then = {} /\ CallGood(NoChanCall)
BY ChanBounds DEF NoChanCall, ChanCall, CallGood

LEMMA ClockRead ==
  ASSUME ChanInv
  PROVE  chclock \in 0 .. MaxClock /\ {b \in ChanAgents : Member(b)} \in SUBSET ChanAgents
BY ChanOpened

LEMMA PostingFinite ==
  ASSUME NEW S \in SUBSET ChanProcs
  PROVE  IsFiniteSet(S) /\ Cardinality(S) \in Nat
BY ChanBounds, FS_Subset, FS_CardinalityType

\* One call moves on; a post has its room.
LEMMA PostingMoves ==
  ASSUME ChanInv, NEW p \in ChanProcs, NEW row \in ChanCall, chcall' = [chcall EXCEPT ![p] = row]
  PROVE  /\ chcall' \in [ChanProcs -> ChanCall]
         /\ row.op # "post" => Cardinality(Posting') <= Cardinality(Posting)
         /\ row.op # "post" /\ At(p, "post") => Cardinality(Posting') = Cardinality(Posting) - 1
         /\ Cardinality(Posting') <= Cardinality(Posting) + 1
         /\ Cardinality(Posting') \in Nat /\ Cardinality(Posting) \in Nat
<1>1. chcall \in [ChanProcs -> ChanCall] /\ chcall' \in [ChanProcs -> ChanCall]
  BY DEF ChanInv, ChanRecords
<1>2. /\ Posting' \subseteq Posting \cup {p}
      /\ row.op # "post" => Posting' = Posting \ {p}
  BY <1>1 DEF Posting, At
<1>3. IsFiniteSet(Posting) /\ Cardinality(Posting) \in Nat /\ Cardinality(Posting') \in Nat
  BY PostingFinite DEF Posting
<1>4. Cardinality(Posting') <= Cardinality(Posting) + 1
  <2>1. IsFiniteSet(Posting \cup {p}) /\ Cardinality(Posting \cup {p}) <= Cardinality(Posting) + 1
    BY <1>3, FS_AddElement
  <2> QED BY <1>2, <1>3, <2>1, FS_Subset, FS_CardinalityType
<1>5. Cardinality(Posting \ {p}) = IF p \in Posting THEN Cardinality(Posting) - 1 ELSE Cardinality(Posting)
  BY <1>3, FS_RemoveElement
<1>6. p \in Posting <=> At(p, "post")
  BY DEF Posting
<1> DEFINE before == Cardinality(Posting)
           after == Cardinality(Posting')
<1>7. /\ before \in Nat /\ after \in Nat /\ after <= before + 1
      /\ row.op # "post" => after = IF At(p, "post") THEN before - 1 ELSE before
  BY <1>2, <1>3, <1>4, <1>5, <1>6
<1> HIDE DEF before, after
<1>8. /\ row.op # "post" => after <= before
      /\ row.op # "post" /\ At(p, "post") => after = before - 1
  BY <1>7
<1> QED BY <1>1, <1>7, <1>8 DEF before, after

\* A step of one call that leaves the tables alone.
LEMMA CallMoves ==
  ASSUME ChanInv, NEW p \in ChanProcs, NEW row \in ChanCall, chcall' = [chcall EXCEPT ![p] = row],
         created' = created, joined' = joined, posts' = posts, chclock' = chclock, chcrashed' \in BOOLEAN,
         CallGood(row), row.op = "post" => Cardinality(posts) + Cardinality(Posting) < MaxPosts
  PROVE  ChanInv'
<1>1. ChanRecords'
  BY PostingMoves DEF ChanInv, ChanRecords
<1>2. Numbered'
  <2>1. Cardinality(posts) + Cardinality(Posting') <= MaxPosts
    <3> DEFINE before == Cardinality(Posting)
               after == Cardinality(Posting')
               n == Cardinality(posts)
    <3>1. /\ before \in Nat /\ after \in Nat /\ after <= before + 1
          /\ row.op # "post" => after <= before
      BY PostingMoves
    <3>2. /\ n \in Nat /\ MaxPosts \in Nat /\ n + before <= MaxPosts
          /\ row.op = "post" => n + before < MaxPosts
      BY ChanOpened DEF Numbered
    <3> HIDE DEF before, after, n
    <3>3. n + after <= MaxPosts
      BY <3>1, <3>2
    <3> QED BY <3>3 DEF before, after, n
  <2> QED BY <2>1 DEF ChanInv, Numbered
<1>3. Joins' /\ Sees'
  BY DEF ChanInv, Joins, Sees, Member
<1>4. \A c : CallGood(c)' <=> CallGood(c)
  BY DEF CallGood, Member, Visible
<1>5. CallsGood'
  <2>1. \A q \in ChanProcs : chcall'[q] = IF q = p THEN row ELSE chcall[q]
    BY DEF ChanInv, ChanRecords
  <2> QED BY <1>4, <2>1 DEF ChanInv, CallsGood
<1> QED BY <1>1, <1>2, <1>3, <1>5 DEF ChanInv

LEMMA ClockStep ==
  ASSUME ChanInv, ClockTicks
  PROVE  ChanInv'
<1>1. /\ chclock' = chclock + 1 /\ chclock < MaxClock
      /\ created' = created /\ joined' = joined /\ posts' = posts /\ chcall' = chcall /\ chcrashed' = chcrashed
  BY DEF ClockTicks
<1>2. chclock \in Nat /\ chclock' \in Times /\ \A n : n \in 1 .. chclock => n \in 1 .. chclock'
  BY <1>1, ChanOpened DEF Times
<1>3. ChanRecords' /\ Numbered' /\ Sees'
  BY <1>1, <1>2 DEF ChanInv, ChanRecords, Numbered, Posting, At, Sees, Member
<1>4. Joins'
  BY <1>1, <1>2, ChanOpened DEF Joins, Member
<1>5. CallsGood'
  BY <1>1, <1>2 DEF ChanInv, CallsGood, CallGood, Member, Visible
<1> QED BY <1>3, <1>4, <1>5 DEF ChanInv

\* Calls that begin or end without touching a table.
LEMMA StepCall ==
  ASSUME ChanInv, NEW p \in ChanProcs,
         \/ ReadCount(p) \/ Dies(p)
         \/ \E a \in ChanAgents : CreateLook(p, a) \/ JoinLook(p, a) \/ PostLook(p, a) \/ ReadPage(p, a)
  PROVE  ChanInv'
<1>1. created' = created /\ joined' = joined /\ posts' = posts /\ chclock' = chclock /\ chcrashed' \in BOOLEAN
  BY DEF ReadCount, Dies, CreateLook, JoinLook, PostLook, ReadPage, ChanInv, ChanRecords
<1>2. CASE ReadCount(p) \/ Dies(p)
  <2>1. chcall' = [chcall EXCEPT ![p] = NoChanCall]
    BY <1>2 DEF ReadCount, Dies, Returns
  <2> QED BY <1>1, <2>1, IdleDesk, CallMoves
<1>3. ASSUME NEW a \in ChanAgents, CreateLook(p, a) \/ JoinLook(p, a) PROVE ChanInv'
  <2>1. PICK op \in {"create", "join"} : /\ Call(p, op, a) /\ (op = "join" => created # Nobody)
    BY <1>3 DEF CreateLook, JoinLook
  <2> DEFINE row == [NoChanCall EXCEPT !.op = op, !.who = a, !.at = chclock]
  <2>2. row \in ChanCall /\ row.op = op /\ row.who = a /\ row.at = chclock
    BY IdleDesk, ClockRead, ChanOpened DEF ChanCall
  <2>3. chcall' = [chcall EXCEPT ![p] = row]
    BY <2>1 DEF Call
  <2> HIDE DEF row
  <2>4. CallGood(row) /\ row.op # "post"
    BY <2>1, <2>2, ChanOpened DEF CallGood, ChanRecords, Times
  <2> QED BY <1>1, <2>2, <2>3, <2>4, CallMoves
<1>4. ASSUME NEW a \in ChanAgents, PostLook(p, a) PROVE ChanInv'
  <2> DEFINE row == [NoChanCall EXCEPT !.op = "post", !.who = a, !.at = chclock,
                                       !.then = {b \in ChanAgents : Member(b)}]
  <2>1. /\ row \in ChanCall /\ row.op = "post" /\ row.who = a /\ row.at = chclock
        /\ row.then = {b \in ChanAgents : Member(b)}
    BY IdleDesk, ClockRead, ChanOpened DEF ChanCall
  <2>2. chcall' = [chcall EXCEPT ![p] = row] /\ Cardinality(posts) + Cardinality(Posting) < MaxPosts
    BY <1>4 DEF PostLook, Posting
  <2> HIDE DEF row
  <2>3. CallGood(row)
    BY <2>1, ChanOpened DEF CallGood, ChanRecords, Times, Joins
  <2> QED BY <1>1, <2>1, <2>2, <2>3, CallMoves
<1>5. ASSUME NEW a \in ChanAgents, ReadPage(p, a) PROVE ChanInv'
  <2>1. PICK page \in SUBSET Visible(a) :
          chcall' = [chcall EXCEPT ![p] = [NoChanCall EXCEPT !.op = "count", !.who = a,
                                             !.page = page, !.saw = Visible(a)]]
    BY <1>5 DEF ReadPage
  <2> DEFINE row == [NoChanCall EXCEPT !.op = "count", !.who = a, !.page = page, !.saw = Visible(a)]
  <2>2. /\ row \in ChanCall /\ row.op = "count" /\ row.who = a /\ row.page = page /\ row.saw = Visible(a)
    BY IdleDesk, ClockRead, ChanOpened DEF ChanCall
  <2> HIDE DEF row
  <2>3. CallGood(row) /\ Member(a)
    BY <1>5, <2>2 DEF CallGood, ReadPage
  <2> QED BY <1>1, <2>1, <2>2, <2>3, CallMoves DEF row
<1> QED BY <1>2, <1>3, <1>4, <1>5

\* Calls that write a table and end: the memberships and what each call holds of them move on.
LEMMA TablesMove ==
  ASSUME ChanInv, ChanRecords', Numbered', Joins', Sees', CallsGood'
  PROVE  ChanInv'
BY DEF ChanInv

LEMMA StepCreateInsert ==
  ASSUME ChanInv, NEW p \in ChanProcs, CreateInsert(p)
  PROVE  ChanInv'
<1>1. /\ joined' = joined /\ posts' = posts /\ chclock' = chclock /\ chcrashed' = chcrashed
      /\ chcall[p].who \in ChanAgents /\ chcall[p] \in ChanCall /\ At(p, "create")
  BY ChanOpened DEF CreateInsert, CallsGood, CallGood, At
<1>2. CASE created = Nobody
  <2>1. created' = chcall[p].who /\ chcall' = [chcall EXCEPT ![p].op = "enrol"]
    BY <1>2 DEF CreateInsert
  <2>2. PICK row \in ChanCall : /\ row = [chcall[p] EXCEPT !.op = "enrol"]
                                /\ row.op = "enrol" /\ row.who = chcall[p].who /\ row.at = chcall[p].at
    <3> DEFINE next == [chcall[p] EXCEPT !.op = "enrol"]
    <3>1. next \in ChanCall /\ next.op = "enrol" /\ next.who = chcall[p].who /\ next.at = chcall[p].at
      BY <1>1 DEF ChanCall
    <3> HIDE DEF next
    <3> QED BY <3>1 DEF next
  <2>3. chcall' = [chcall EXCEPT ![p] = row] /\ created' # Nobody /\ created' \in ChanAgents
    BY <1>1, <2>1, <2>2, ChanBounds
  <2>4. ChanRecords'
    BY <1>1, <2>2, <2>3, PostingMoves DEF ChanInv, ChanRecords
  <2>5. Posting' = Posting
    <3>1. \A q \in ChanProcs : chcall'[q] = IF q = p THEN row ELSE chcall[q]
      BY <2>3 DEF ChanInv, ChanRecords
    <3> QED BY <1>1, <2>2, <3>1 DEF Posting, At
  <2>6. Numbered' /\ Joins' /\ Sees'
    BY <1>1, <2>3, <2>5 DEF ChanInv, Numbered, Joins, Sees, Member
  <2>7. \A q \in ChanProcs : CallGood(chcall[q])'
    <3>1. \A q \in ChanProcs : chcall'[q] = IF q = p THEN row ELSE chcall[q]
      BY <2>3 DEF ChanInv, ChanRecords
    <3>2. \A c : CallGood(c) => CallGood(c)'
      BY <1>1, <2>3 DEF CallGood, Member, Visible
    <3>3. CallGood(chcall[p])
      BY DEF ChanInv, CallsGood
    <3>4. CallGood(row)'
      BY <1>1, <2>2, <2>3, <3>3 DEF CallGood, At
    <3> QED BY <3>1, <3>2, <3>4 DEF ChanInv, CallsGood
  <2> QED BY <2>4, <2>6, <2>7 DEF ChanInv, CallsGood
<1>3. CASE created # Nobody
  <2>1. chcall' = [chcall EXCEPT ![p] = NoChanCall] /\ created' = created
    BY <1>3 DEF CreateInsert, Returns
  <2> QED BY <1>1, <2>1, ChanOpened, IdleDesk, CallMoves DEF ChanRecords
<1> QED BY <1>2, <1>3

\* A call that ends, and may have enrolled an agent that was no member, with a time that has come.
LEMMA Enrolled ==
  ASSUME ChanInv, NEW p \in ChanProcs, NEW a \in ChanAgents, NEW t \in 1 .. chclock, created # Nobody,
         joined' = IF Member(a) THEN joined ELSE [joined EXCEPT ![a] = t], created' = created, posts' = posts, chclock' = chclock,
         chcrashed' = chcrashed, chcall' \in [ChanProcs -> ChanCall], Posting' \subseteq Posting,
         \A q \in ChanProcs : CallGood(chcall'[q])
  PROVE  ChanInv'
<1>1. /\ joined \in [ChanAgents -> 0 .. MaxClock] /\ t \in 1 .. MaxClock /\ chclock \in Nat
      /\ joined' \in [ChanAgents -> 0 .. MaxClock]
      /\ \A b \in ChanAgents : joined'[b] = joined[b] \/ (~Member(b) /\ joined'[b] = t)
  BY ChanOpened DEF ChanRecords, Member
<1>2. ChanRecords'
  BY <1>1 DEF ChanInv, ChanRecords
<1>3. Numbered'
  <2>1. Cardinality(Posting') <= Cardinality(Posting)
    BY PostingFinite, FS_Subset DEF Posting
  <2>2. Cardinality(posts) + Cardinality(Posting') <= MaxPosts
    BY <2>1, PostingFinite, ChanOpened DEF Numbered, Posting
  <2> QED BY <2>2 DEF ChanInv, Numbered
<1>4. Joins'
  BY <1>1 DEF ChanInv, Joins, Member
<1>5. \A b \in ChanAgents : Member(b) => joined'[b] = joined[b]
  BY <1>1
<1>6. Sees'
  BY <1>1, <1>5, ChanOpened DEF Sees, Member
<1>7. CallsGood'
  <2> SUFFICES ASSUME NEW q \in ChanProcs PROVE CallGood(chcall[q])'
    BY DEF CallsGood
  <2>1. CallGood(chcall'[q]) /\ chcall'[q] \in ChanCall
    OBVIOUS
  <2>2. \A b \in ChanAgents : Member(b) => Member(b)' /\ joined'[b] = joined[b] /\ Visible(b)' = Visible(b)
    BY <1>1, <1>5 DEF Member, Visible
  <2> QED BY <2>1, <2>2 DEF CallGood, ChanCall
<1> QED BY <1>2, <1>3, <1>4, <1>6, <1>7, TablesMove

LEMMA StepCreateEnrol ==
  ASSUME ChanInv, NEW p \in ChanProcs, CreateEnrol(p)
  PROVE  ChanInv'
<1>1. PICK a \in ChanAgents : a = chcall[p].who
  BY ChanOpened DEF CreateEnrol, CallsGood, CallGood, At
<1>2. PICK t \in 1 .. chclock : t = chcall[p].at
  BY ChanOpened DEF CreateEnrol, CallsGood, CallGood, At
<1>3. /\ created # Nobody /\ chcall' = [chcall EXCEPT ![p] = NoChanCall]
      /\ created' = created /\ posts' = posts /\ chclock' = chclock /\ chcrashed' = chcrashed
      /\ joined' = IF Member(a) THEN joined ELSE [joined EXCEPT ![a] = t]
  BY <1>1, <1>2, ChanOpened DEF CreateEnrol, CallsGood, CallGood, At, Returns
<1>4. chcall' \in [ChanProcs -> ChanCall] /\ \A q \in ChanProcs : chcall'[q] = IF q = p THEN NoChanCall ELSE chcall[q]
  BY <1>3, IdleDesk DEF ChanInv, ChanRecords
<1>5. Posting' \subseteq Posting /\ \A q \in ChanProcs : CallGood(chcall'[q])
  BY <1>4, IdleDesk DEF Posting, At, ChanInv, CallsGood
<1> QED BY <1>3, <1>4, <1>5, Enrolled

\* A read that notices a move promises nothing any more.
LEMMA NoticedGood ==
  ASSUME ChanInv, NEW a \in ChanAgents, NEW q \in ChanProcs
  PROVE  /\ Noticed(a)[q] \in ChanCall /\ Noticed(a)[q].op = chcall[q].op
         /\ Noticed(a)[q].then = chcall[q].then /\ Noticed(a)[q].who = chcall[q].who
         /\ Noticed(a)[q].at = chcall[q].at /\ Noticed(a)[q].saw = chcall[q].saw
         /\ Noticed(a)[q].page = chcall[q].page
         /\ chcall[q].who = a /\ chcall[q].op = "count" => Noticed(a)[q].moved
         /\ ~Noticed(a)[q].moved => ~chcall[q].moved
         /\ CallGood(Noticed(a)[q])
<1>1. chcall[q] \in ChanCall /\ CallGood(chcall[q])
  BY ChanOpened DEF CallsGood
<1>2. CASE chcall[q].who = a /\ chcall[q].op = "count"
  <2> DEFINE row == [chcall[q] EXCEPT !.moved = TRUE]
  <2>1. Noticed(a)[q] = row
    BY <1>2 DEF Noticed
  <2>2. /\ row \in ChanCall /\ row.op = chcall[q].op /\ row.then = chcall[q].then /\ row.who = chcall[q].who
        /\ row.at = chcall[q].at /\ row.saw = chcall[q].saw /\ row.page = chcall[q].page /\ row.moved
    BY <1>1 DEF ChanCall
  <2> HIDE DEF row
  <2>3. CallGood(row)
    BY <1>1, <1>2, <2>2 DEF CallGood
  <2> QED BY <2>1, <2>2, <2>3
<1>3. CASE ~(chcall[q].who = a /\ chcall[q].op = "count")
  <2>1. Noticed(a)[q] = chcall[q]
    BY <1>3 DEF Noticed
  <2> QED BY <1>1, <1>3, <2>1
<1> QED BY <1>2, <1>3

LEMMA StepJoinInsert ==
  ASSUME ChanInv, NEW p \in ChanProcs, JoinInsert(p)
  PROVE  ChanInv'
<1>1. PICK a \in ChanAgents : a = chcall[p].who
  BY ChanOpened DEF JoinInsert, CallsGood, CallGood, At
<1>2. PICK t \in 1 .. chclock : t = chclock
  BY ChanOpened DEF ChanRecords, Times
<1>3. /\ created # Nobody /\ chcall' = [Noticed(a) EXCEPT ![p] = NoChanCall]
      /\ created' = created /\ posts' = posts /\ chclock' = chclock /\ chcrashed' = chcrashed
      /\ joined' = IF Member(a) THEN joined ELSE [joined EXCEPT ![a] = t]
  BY <1>1, <1>2, ChanOpened DEF JoinInsert, JoinRow, CallsGood, CallGood, At
<1>4. \A q \in ChanProcs : chcall'[q] = IF q = p THEN NoChanCall ELSE Noticed(a)[q]
  BY <1>3 DEF Noticed
<1>5. chcall' \in [ChanProcs -> ChanCall]
  <2>1. chcall' = [q \in ChanProcs |-> IF q = p THEN NoChanCall ELSE Noticed(a)[q]]
    BY <1>3 DEF Noticed
  <2>2. \A q \in ChanProcs : (IF q = p THEN NoChanCall ELSE Noticed(a)[q]) \in ChanCall
    BY NoticedGood, IdleDesk
  <2> QED BY <2>1, <2>2
<1>6. Posting' \subseteq Posting /\ \A q \in ChanProcs : CallGood(chcall'[q])
  BY <1>4, IdleDesk, NoticedGood DEF Posting, At
<1> QED BY <1>3, <1>5, <1>6, Enrolled

LEMMA StepLeave ==
  ASSUME ChanInv, NEW p \in ChanProcs, NEW a \in ChanAgents, Leave(p, a)
  PROVE  ChanInv'
<1> DEFINE left(m) == [m EXCEPT !.then = @ \ {a}]
<1>1. /\ created' = created /\ chclock' = chclock /\ chcrashed' = chcrashed
      /\ joined' = [joined EXCEPT ![a] = 0] /\ posts' = {left(m) : m \in posts}
      /\ chcall' = [q \in ChanProcs |-> [Noticed(a)[q] EXCEPT !.then = @ \ {a}]]
  BY DEF Leave
<1>2. \A m \in posts : /\ left(m) \in Posts /\ left(m).id = m.id /\ left(m).at = m.at
                       /\ left(m).then = m.then \ {a}
  BY ChanOpened DEF Posts
<1>3. \A q \in ChanProcs :
        /\ chcall'[q] \in ChanCall /\ chcall'[q].op = chcall[q].op /\ chcall'[q].who = chcall[q].who
        /\ chcall'[q].at = chcall[q].at /\ chcall'[q].saw = chcall[q].saw /\ chcall'[q].page = chcall[q].page
        /\ chcall'[q].then = chcall[q].then \ {a} /\ chcall'[q].moved = Noticed(a)[q].moved
  BY <1>1, NoticedGood, ChanOpened DEF ChanCall
<1> HIDE DEF left
<1>4. /\ joined' \in [ChanAgents -> 0 .. MaxClock] /\ joined'[a] = 0
      /\ \A b \in ChanAgents \ {a} : joined'[b] = joined[b]
  BY <1>1, ChanOpened DEF ChanRecords
<1>5. /\ posts' \subseteq Posts /\ IsFiniteSet(posts') /\ Cardinality(posts') = Cardinality(posts)
  <2> DEFINE f == [m \in posts |-> left(m)]
  <2>1. f \in Bijection(posts, posts')
    <3>1. \A m, n \in posts : f[m] = f[n] => m = n
      BY <1>2, ChanOpened DEF Numbered
    <3>2. f \in [posts -> posts'] /\ \A t \in posts' : \E s \in posts : f[s] = t
      BY <1>1
    <3> QED BY <3>1, <3>2 DEF Bijection, Injection, Surjection, IsInjective
  <2> HIDE DEF f
  <2>2. IsFiniteSet(posts)
    BY ChanOpened DEF ChanRecords
  <2>3. IsFiniteSet(posts') /\ Cardinality(posts') = Cardinality(posts)
    BY <2>1, <2>2, FS_Bijection DEF ExistsBijection
  <2> QED BY <1>1, <1>2, <2>3
<1>6. ChanRecords'
  <2>1. chcall' \in [ChanProcs -> ChanCall]
    BY <1>1, <1>3
  <2> QED BY <1>1, <1>4, <1>5, <2>1 DEF ChanInv, ChanRecords
<1>7. Posting' = Posting
  BY <1>3 DEF Posting, At
<1>8. Numbered'
  <2>1. \A m \in posts' : \E o \in posts : m = left(o) /\ m.id = o.id
    BY <1>1, <1>2
  <2>2. \A m \in posts' : m.id <= Cardinality(posts')
    BY <1>5, <2>1, ChanOpened DEF Numbered
  <2>3. \A m, n \in posts' : m.id = n.id => m = n
    BY <2>1, ChanOpened DEF Numbered
  <2>4. Cardinality(posts') + Cardinality(Posting') <= MaxPosts
    BY <1>5, <1>7, ChanOpened DEF Numbered
  <2> QED BY <2>2, <2>3, <2>4 DEF Numbered
<1>9. Joins'
  BY <1>1, <1>4, ChanOpened DEF Joins, Member
<1>10. Sees'
  BY <1>1, <1>2, <1>4, ChanOpened DEF Sees, Member
<1>11. \A b \in ChanAgents \ {a} : (Member(b) => Member(b)') /\ Visible(b) \subseteq Visible(b)'
  <2>1. \A b \in ChanAgents \ {a}, m \in posts : m.at >= joined[b] => left(m) \in posts' /\ left(m).at >= joined'[b]
    BY <1>1, <1>2, <1>4
  <2> QED BY <1>2, <1>4, <2>1 DEF Visible, Member
<1>12. CallsGood'
  <2> SUFFICES ASSUME NEW q \in ChanProcs PROVE CallGood(chcall[q])'
    BY DEF CallsGood
  <2>1. CallGood(chcall[q]) /\ chcall[q] \in ChanCall
    BY ChanOpened DEF CallsGood
  <2>2. ~chcall'[q].moved /\ chcall'[q].op = "count" => chcall'[q].who # a /\ ~chcall[q].moved
    BY <1>3, NoticedGood
  <2>3. \A b \in chcall'[q].then : chcall[q].op = "post" => Member(b)' /\ joined'[b] <= chcall'[q].at
    <3>1. \A b \in chcall'[q].then : b \in chcall[q].then /\ b \in ChanAgents \ {a}
      BY <1>3, <2>1 DEF ChanCall
    <3> QED BY <1>3, <1>4, <1>11, <2>1, <3>1 DEF CallGood
  <2>4. chcall'[q].op = "count" /\ ~chcall'[q].moved
          => Member(chcall[q].who)' /\ chcall'[q].saw \subseteq Visible(chcall[q].who)' /\ chcall'[q].page \subseteq chcall'[q].saw
    <3> SUFFICES ASSUME chcall'[q].op = "count", ~chcall'[q].moved
                 PROVE  /\ Member(chcall[q].who)' /\ chcall'[q].saw \subseteq Visible(chcall[q].who)'
                        /\ chcall'[q].page \subseteq chcall'[q].saw
      OBVIOUS
    <3>1. PICK b \in ChanAgents \ {a} : b = chcall'[q].who
      BY <1>3, <2>1, <2>2 DEF CallGood
    <3>2. /\ Member(b) /\ chcall[q].saw \subseteq Visible(b) /\ chcall[q].page \subseteq chcall[q].saw
      BY <1>3, <2>1, <2>2, <3>1 DEF CallGood
    <3>3. Member(b)' /\ Visible(b) \subseteq Visible(b)'
      BY <1>11, <3>2
    <3>4. chcall'[q].saw = chcall[q].saw /\ chcall'[q].page = chcall[q].page
      BY <1>3
    <3> QED BY <3>1, <3>2, <3>3, <3>4
  <2>5. CallGood(chcall[q])'
    <3>1. /\ chcall'[q].op = chcall[q].op /\ chcall'[q].who = chcall[q].who /\ chcall'[q].at = chcall[q].at
          /\ created' = created /\ chclock' = chclock
      BY <1>1, <1>3
    <3>2. chcall[q].op \in {"create", "enrol", "join", "post", "count"} => chcall[q].who \in ChanAgents
      BY <2>1 DEF CallGood
    <3> QED BY <2>1, <2>3, <2>4, <3>1, <3>2 DEF CallGood
  <2> QED BY <2>5
<1> QED BY <1>6, <1>8, <1>9, <1>10, <1>12, TablesMove

LEMMA StepPostInsert ==
  ASSUME ChanInv, NEW p \in ChanProcs, PostInsert(p)
  PROVE  ChanInv'
<1> DEFINE n == Cardinality(posts)
           new == [id |-> n + 1, at |-> chcall[p].at, then |-> chcall[p].then]
<1>1. /\ created' = created /\ joined' = joined /\ chclock' = chclock /\ chcrashed' = chcrashed
      /\ posts' = posts \cup {new} /\ chcall' = [chcall EXCEPT ![p] = NoChanCall] /\ At(p, "post")
  BY DEF PostInsert, Returns
<1>2. /\ new.id = n + 1 /\ new.at = chcall[p].at /\ new.then = chcall[p].then
  OBVIOUS
<1>3. /\ chcall[p] \in ChanCall /\ CallGood(chcall[p]) /\ chcall[p].op = "post"
  BY <1>1, ChanOpened DEF CallsGood, At
<1>4. n \in Nat /\ n + 1 \in 1 .. MaxPosts /\ n + 1 + Cardinality(Posting') <= MaxPosts
  <2> DEFINE before == Cardinality(Posting)
             after == Cardinality(Posting')
  <2>1. before \in Nat /\ after \in Nat /\ after = before - 1
    BY <1>1, IdleDesk, PostingMoves
  <2>2. n \in Nat /\ n + before <= MaxPosts /\ MaxPosts \in Nat
    BY ChanOpened DEF Numbered
  <2> HIDE DEF n, before, after
  <2>3. n + 1 \in 1 .. MaxPosts /\ n + 1 + after <= MaxPosts
    BY <2>1, <2>2
  <2> QED BY <2>2, <2>3 DEF after
<1>5. new \in Posts
  BY <1>3, <1>4, ChanOpened DEF Posts, Times, ChanCall, CallGood
<1>6. new \notin posts
  BY <1>2, <1>4, ChanOpened DEF Numbered
<1> HIDE DEF new
<1>7. IsFiniteSet(posts') /\ Cardinality(posts') = n + 1
  BY <1>1, <1>6, FS_AddElement DEF ChanInv, ChanRecords
<1> HIDE DEF n
<1>8. chcall' \in [ChanProcs -> ChanCall] /\ \A q \in ChanProcs : chcall'[q] = IF q = p THEN NoChanCall ELSE chcall[q]
  BY <1>1, IdleDesk DEF ChanInv, ChanRecords
<1>9. ChanRecords'
  BY <1>1, <1>5, <1>7, <1>8 DEF ChanInv, ChanRecords
<1>10. Numbered'
  <2>1. \A m \in posts : m.id \in Nat /\ m.id <= n
    BY ChanOpened DEF Numbered, n
  <2>2. \A m \in posts' : m.id <= n + 1
    BY <1>1, <1>2, <1>4, <2>1
  <2>3. \A m, o \in posts' : m.id = o.id => m = o
    BY <1>1, <1>2, <1>4, <2>1, ChanOpened DEF Numbered
  <2> QED BY <1>4, <1>7, <2>2, <2>3 DEF Numbered
<1>11. Joins'
  BY <1>1 DEF ChanInv, Joins, Member
<1>12. Sees'
  BY <1>1, <1>2, <1>3 DEF ChanInv, Sees, CallGood, Member
<1>13. CallsGood'
  <2>1. \A b : Visible(b) \subseteq Visible(b)'
    BY <1>1 DEF Visible
  <2>2. \A c : CallGood(c) => CallGood(c)'
    BY <1>1, <2>1 DEF CallGood, Member
  <2>3. \A q \in ChanProcs : CallGood(chcall'[q])
    BY <1>8, IdleDesk DEF ChanInv, CallsGood
  <2> QED BY <2>2, <2>3 DEF CallsGood
<1> QED BY <1>9, <1>10, <1>11, <1>12, <1>13, TablesMove

LEMMA ChanInitInv == ChanInit => ChanInv
<1> SUFFICES ASSUME ChanInit PROVE ChanInv
  OBVIOUS
<1>1. /\ created = Nobody /\ joined = [a \in ChanAgents |-> 0] /\ posts = {} /\ chclock = 1 /\ chcrashed = FALSE
      /\ chcall = [p \in ChanProcs |-> NoChanCall]
  BY DEF ChanInit
<1>2. IsFiniteSet(posts) /\ Cardinality(posts) = 0 /\ IsFiniteSet({}) /\ Cardinality({}) = 0
  BY <1>1, FS_EmptySet
<1>3. Posting = {}
  BY <1>1, IdleDesk DEF Posting, At
<1>4. ChanRecords
  <2>1. chcall \in [ChanProcs -> ChanCall] /\ joined \in [ChanAgents -> 0 .. MaxClock] /\ chclock \in Times
    BY <1>1, IdleDesk, ChanBounds DEF Times
  <2> QED BY <1>1, <1>2, <2>1 DEF ChanRecords
<1>5. Numbered /\ Joins /\ Sees
  BY <1>1, <1>2, <1>3, ChanBounds DEF Numbered, Joins, Sees, Member
<1>6. CallsGood
  BY <1>1, IdleDesk DEF CallsGood
<1> QED BY <1>4, <1>5, <1>6 DEF ChanInv

LEMMA ChanNextInv == ChanInv /\ [ChanNext]_chanVars => ChanInv'
<1> SUFFICES ASSUME ChanInv, [ChanNext]_chanVars PROVE ChanInv'
  OBVIOUS
<1>1. CASE UNCHANGED chanVars
  BY <1>1 DEF chanVars, ChanInv, ChanRecords, Numbered, Posting, At, Joins, Sees, Member, CallsGood, CallGood, Visible
<1>2. CASE ClockTicks
  BY <1>2, ClockStep
<1>3. ASSUME NEW p \in ChanProcs,
             CreateInsert(p) \/ CreateEnrol(p) \/ JoinInsert(p) \/ PostInsert(p) \/ ReadCount(p) \/ Dies(p)
      PROVE  ChanInv'
  BY <1>3, StepCreateInsert, StepCreateEnrol, StepJoinInsert, StepPostInsert, StepCall
<1>4. ASSUME NEW p \in ChanProcs, NEW a \in ChanAgents,
             CreateLook(p, a) \/ JoinLook(p, a) \/ Leave(p, a) \/ PostLook(p, a) \/ ReadPage(p, a)
      PROVE  ChanInv'
  BY <1>4, StepLeave, StepCall
<1> QED BY <1>1, <1>2, <1>3, <1>4 DEF ChanNext

THEOREM ChanInvariant == ChanSpec => []ChanInv
BY ChanInitInv, ChanNextInv, PTL DEF ChanSpec

LEMMA ChanInvSays == ChanInv => ChanTypeOK /\ MembersSeePosts
<1> SUFFICES ASSUME ChanInv PROVE ChanTypeOK /\ MembersSeePosts
  OBVIOUS
<1>1. ChanTypeOK
  BY ChanOpened DEF ChanTypeOK, ChanRecords, Numbered, Joins, ChanCall
<1>2. MembersSeePosts
  BY ChanOpened DEF MembersSeePosts, Sees, Visible
<1> QED BY <1>1, <1>2

\* A total no larger than the page: the page is all that is visible.
LEMMA PageIsWhole ==
  ASSUME ChanInv, NEW p \in ChanProcs, At(p, "count"), ~chcall[p].moved, ~HasMore(p)
  PROVE  chcall[p].saw \subseteq chcall[p].page
<1>1. /\ chcall[p].saw \subseteq Visible(chcall[p].who) /\ chcall[p].page \subseteq chcall[p].saw
  BY ChanOpened DEF CallsGood, CallGood, At
<1>2. IsFiniteSet(Visible(chcall[p].who)) /\ Cardinality(Visible(chcall[p].who)) \in Nat
  <2>1. IsFiniteSet(1 .. MaxPosts) /\ Visible(chcall[p].who) \subseteq 1 .. MaxPosts
    BY ChanOpened, FS_Interval
  <2> QED BY <2>1, FS_Subset, FS_CardinalityType
<1>3. chcall[p].page \subseteq Visible(chcall[p].who) /\ Cardinality(chcall[p].page) \in Nat
  BY <1>1, <1>2, FS_Subset, FS_CardinalityType
<1>4. Cardinality(Visible(chcall[p].who)) <= Cardinality(chcall[p].page)
  BY <1>2, <1>3 DEF HasMore, Total
<1>5. chcall[p].page = Visible(chcall[p].who)
  BY <1>2, <1>3, <1>4, FS_Subset
<1> QED BY <1>1, <1>5

\* Every promise of a channel holds: each message was posted and is visible to the members its post
\* was checked for, and an answer that says there is no more shows all that was visible.
THEOREM PostsAreReadable == ChanSpec => PostsReadable
<1>1. ChanInv => ChanTypeOK
  BY ChanInvSays
<1>2. ChanInv => MembersSeePosts
  BY ChanInvSays
<1>3. ChanInv /\ [ChanNext]_chanVars
        => [\A p \in ChanProcs : At(p, "count") /\ Free(p)' /\ Member(chcall[p].who) /\ ~chcall[p].moved /\ ~HasMore(p)
              => chcall[p].saw \subseteq chcall[p].page]_chanVars
  BY PageIsWhole
<1>4. ChanSpec => []ChanTypeOK /\ []MembersSeePosts
  BY <1>1, <1>2, ChanInvariant, PTL
<1>5. ChanSpec
        => [][\A p \in ChanProcs : At(p, "count") /\ Free(p)' /\ Member(chcall[p].who) /\ ~chcall[p].moved /\ ~HasMore(p)
                => chcall[p].saw \subseteq chcall[p].page]_chanVars
  BY <1>3, ChanInvariant, PTL DEF ChanSpec
<1> QED BY <1>4, <1>5 DEF PostsReadable, NoMoreMeansAll

-----------------------------------------------------------------------------
(* The daemon's edge.  A client's secret is the one in force or the one being *)
(* retired (HeldIsAccepted), because a rotation waits for the one before it   *)
(* and ends only when the client has moved; the browser never has the         *)
(* dashboard's cookie without the token (CookiesTogether).                    *)

HeldIsAccepted == held \in Accepted
CookiesTogether == jar.auth # Unset => jar.csrf
EdgeInv == EdgeTypeOK /\ HeldIsAccepted /\ CookiesTogether

LEMMA EdgeInitInv == EdgeInit => EdgeInv
<1> SUFFICES ASSUME EdgeInit PROVE EdgeInv
  OBVIOUS
<1>1. PICK s \in Transport \cup {Unset}, d \in Dashboard \cup {Unset} : conf = [http |-> s, prev |-> {}, dash |-> d]
  BY DEF EdgeInit
<1>2. boot = Stopped /\ jar = NoCookies /\ held = conf.http /\ spent = [c \in Sources |-> 0]
  BY DEF EdgeInit
<1>3. EdgeTypeOK
  BY <1>1, <1>2, EdgeBounds DEF EdgeTypeOK, NoCookies
<1> QED BY <1>1, <1>2, <1>3 DEF EdgeInv, HeldIsAccepted, Accepted, CookiesTogether, NoCookies

LEMMA CountedInBudget ==
  ASSUME EdgeTypeOK, NEW c \in Sources
  PROVE  Counted(c) \in [Sources -> 0 .. PerMinute + 1] /\ \A o \in Sources \ {c} : Counted(c)[o] = spent[o]
BY EdgeBounds DEF EdgeTypeOK, Counted

LEMMA EdgeNextInv == EdgeInv /\ [EdgeNext]_edgeVars => EdgeInv'
<1> SUFFICES ASSUME EdgeInv, [EdgeNext]_edgeVars PROVE EdgeInv'
  OBVIOUS
<1> USE DEF EdgeInv
<1>1. CASE UNCHANGED edgeVars
  BY <1>1 DEF edgeVars, EdgeTypeOK, HeldIsAccepted, Accepted, CookiesTogether
<1>2. CASE Start
  BY <1>2 DEF Start, EdgeTypeOK, HeldIsAccepted, Accepted, CookiesTogether
<1>3. CASE Stop
  BY <1>3, EdgeBounds DEF Stop, EdgeTypeOK, HeldIsAccepted, Accepted, CookiesTogether
<1>4. CASE ClientMoves
  BY <1>4 DEF ClientMoves, EdgeTypeOK, HeldIsAccepted, Accepted, CookiesTogether
<1>5. CASE EndRotation
  <2>1. conf' = [conf EXCEPT !.prev = {}] /\ held \notin conf.prev
    BY <1>5 DEF EndRotation
  <2>2. conf'.http = conf.http /\ conf'.prev = {} /\ conf'.dash = conf.dash
    BY <2>1 DEF EdgeTypeOK
  <2> QED BY <1>5, <2>1, <2>2 DEF EndRotation, EdgeTypeOK, HeldIsAccepted, Accepted, CookiesTogether
<1>6. ASSUME NEW s \in Transport, RotateTransport(s) PROVE EdgeInv'
  <2>1. conf' = [conf EXCEPT !.http = s, !.prev = {conf.http}] /\ conf.http # Unset /\ conf.prev = {}
    BY <1>6 DEF RotateTransport
  <2>2. conf'.http = s /\ conf'.prev = {conf.http} /\ conf'.dash = conf.dash /\ conf.http \in Transport
    BY <2>1 DEF EdgeTypeOK
  <2> QED BY <1>6, <2>1, <2>2 DEF RotateTransport, EdgeTypeOK, HeldIsAccepted, Accepted, CookiesTogether
<1>7. ASSUME NEW d \in Dashboard, RotateDashboard(d) PROVE EdgeInv'
  BY <1>7 DEF RotateDashboard, EdgeTypeOK, HeldIsAccepted, Accepted, CookiesTogether
<1>8. ASSUME NEW channel \in {"query", "cookie"}, NEW d \in Dashboard \cup {Unset}, Opens(channel, d) PROVE EdgeInv'
  BY <1>8 DEF Opens, Cookies, EdgeTypeOK, HeldIsAccepted, Accepted, CookiesTogether
<1>9. ASSUME NEW c \in Sources, NEW proxied \in BOOLEAN, NEW sent \in Forgeries, RequestArrives(c, proxied, sent)
      PROVE  EdgeInv'
  <2>1. PICK source \in Sources : spent' = Counted(source)
    BY <1>9 DEF RequestArrives
  <2>2. spent' \in [Sources -> 0 .. PerMinute + 1]
    BY <2>1, CountedInBudget
  <2> QED BY <1>9, <2>2 DEF RequestArrives, EdgeTypeOK, HeldIsAccepted, Accepted, CookiesTogether
<1>10. ASSUME NEW c \in Sources, Minute(c) PROVE EdgeInv'
  BY <1>10, EdgeBounds DEF Minute, EdgeTypeOK, HeldIsAccepted, Accepted, CookiesTogether
<1> QED BY <1>1, <1>2, <1>3, <1>4, <1>5, <1>6, <1>7, <1>8, <1>9, <1>10 DEF EdgeNext

THEOREM EdgeInvariant == EdgeSpec => []EdgeInv
BY EdgeInitInv, EdgeNextInv, PTL DEF EdgeSpec

LEMMA EdgeInvAuthenticates == EdgeInv => OperatorIsAuthenticated
<1> SUFFICES ASSUME EdgeInv, boot # Stopped,
                    NEW r \in Requests, r.route = "operator", Answer(r) = "served"
             PROVE  /\ r.secret = boot /\ boot \in Dashboard
                    /\ r.channel = "cookie" => r.csrf
  BY DEF OperatorIsAuthenticated
<1>1. CsrfOk(r) /\ DashboardOk(r, boot) /\ OperatorOk
  BY DEF Answer
<1> QED BY <1>1 DEF EdgeInv, EdgeTypeOK, CsrfOk, Explicit, DashboardOk, Presents, OperatorOk

LEMMA EdgeInvRefusesNobody == EdgeInv => RotationRefusesNobody
BY DEF EdgeInv, HeldIsAccepted, RotationRefusesNobody, Answer, HostOk, TransportOk

LEMMA EdgeInvPageActs == EdgeInv => PageCanAct
<1> SUFFICES ASSUME EdgeInv, boot \in Dashboard, jar.auth = boot
             PROVE  /\ Answer(FromPage("operator")) = "served"
                    /\ conf.dash = boot => Answer(FromPage("ws")) = "served"
  BY DEF PageCanAct
<1>1. boot # Unset /\ boot # Stopped /\ jar.csrf
  BY EdgeBounds DEF EdgeInv, CookiesTogether
<1>2. \A d : d = boot => DashboardOk(FromPage("operator"), d) /\ DashboardOk(FromPage("ws"), d)
  BY <1>1 DEF FromPage, DashboardOk, Presents
<1>3. Answer(FromPage("operator")) = "served"
  <2>1. /\ FromPage("operator").route = "operator" /\ HostOk(FromPage("operator")) /\ OriginOk(FromPage("operator"))
        /\ CsrfOk(FromPage("operator"))
    BY <1>1 DEF FromPage, HostOk, OriginOk, CsrfOk
  <2> HIDE DEF FromPage
  <2> QED BY <1>1, <1>2, <2>1 DEF Answer, OperatorOk
<1>4. conf.dash = boot => Answer(FromPage("ws")) = "served"
  <2>1. FromPage("ws").route = "ws" /\ HostOk(FromPage("ws")) /\ OriginOk(FromPage("ws"))
    BY DEF FromPage, HostOk, OriginOk
  <2> QED BY <1>1, <1>2, <2>1 DEF Answer, SocketOk
<1> QED BY <1>3, <1>4

\* The hop the proxy appended is the last that is not a proxy.
LEMMA LastHopIsClient ==
  ASSUME NEW c \in Sources, NEW sent \in Forgeries
  PROVE  SourceIp(Proxy, Append(sent, c)) = c /\ SourceIp(c, sent) = c
<1> DEFINE chain == Append(sent, c)
           hops == {i \in DOMAIN chain : chain[i] # Proxy}
<1>1. sent \in Seq(Sources \cup {Proxy}) /\ c # Proxy /\ Len(sent) \in Nat
  <2>1. sent \in Seq(Sources \cup {Proxy})
    <3>1. <<>> \in Seq(Sources \cup {Proxy})
      OBVIOUS
    <3>2. \A a \in Sources \cup {Proxy} : <<a>> \in Seq(Sources \cup {Proxy})
      OBVIOUS
    <3>3. \A a \in Sources, b \in Sources \cup {Proxy} : <<a, b>> \in Seq(Sources \cup {Proxy})
      OBVIOUS
    <3>4. \/ sent = <<>> \/ \E a \in Sources \cup {Proxy} : sent = <<a>>
          \/ \E a \in Sources, b \in Sources \cup {Proxy} : sent = <<a, b>>
      <4>1. sent \in {<<a, b>> : a \in Sources, b \in Sources \cup {Proxy}}
              => \E a \in Sources, b \in Sources \cup {Proxy} : sent = <<a, b>>
        OBVIOUS
      <4>2. sent \in {<<a>> : a \in Sources \cup {Proxy}} => \E a \in Sources \cup {Proxy} : sent = <<a>>
        OBVIOUS
      <4>3. \/ sent \in {<<>>} \/ sent \in {<<a>> : a \in Sources \cup {Proxy}}
            \/ sent \in {<<a, b>> : a \in Sources, b \in Sources \cup {Proxy}}
        BY DEF Forgeries
      <4> QED BY <4>1, <4>2, <4>3
    <3> QED BY <3>1, <3>2, <3>3, <3>4, Zenon
  <2> QED BY <2>1, EdgeBounds
<1>2. DOMAIN chain = 1 .. Len(sent) + 1 /\ chain[Len(sent) + 1] = c
  BY <1>1
<1>3. hops \subseteq 1 .. Len(sent) + 1 /\ Len(sent) + 1 \in hops
  BY <1>1, <1>2
<1>4. \A i \in hops : i \in Nat /\ i <= Len(sent) + 1
  BY <1>1, <1>3
<1> HIDE DEF hops
<1>5. Max(hops) = Len(sent) + 1
  <2> DEFINE n == Len(sent) + 1
  <2>1. n \in hops /\ \A i \in hops : i \in Nat /\ i <= n
    BY <1>3, <1>4
  <2> HIDE DEF n
  <2>2. \A i \in hops : n >= i
    BY <2>1
  <2>3. \A x \in hops : (\A y \in hops : x >= y) => x = n
    BY <2>1
  <2>4. Max(hops) = n
    BY <2>1, <2>2, <2>3 DEF Max
  <2> QED BY <2>4 DEF n
<1> QED BY <1>1, <1>2, <1>3, <1>5 DEF SourceIp, hops

\* Every promise of the daemon's edge holds: an operator is authenticated, a rotation refuses nobody,
\* a served page can act, and no chain of hops charges a request to somebody else.
THEOREM EdgeHoldsAlways == EdgeSpec => EdgeHolds
<1>1. EdgeInv => EdgeTypeOK
  BY DEF EdgeInv
<1>2. EdgeSpec => []EdgeTypeOK /\ []OperatorIsAuthenticated /\ []RotationRefusesNobody /\ []PageCanAct
  BY <1>1, EdgeInvariant, EdgeInvAuthenticates, EdgeInvRefusesNobody, EdgeInvPageActs, PTL
<1>3. EdgeInv /\ [EdgeNext]_edgeVars
        => [\A c \in Sources, proxied \in BOOLEAN, sent \in Forgeries :
              RequestArrives(c, proxied, sent) => \A o \in Sources \ {c} : spent'[o] = spent[o]]_edgeVars
  <2> SUFFICES ASSUME EdgeInv, NEW c \in Sources, NEW proxied \in BOOLEAN, NEW sent \in Forgeries,
                      RequestArrives(c, proxied, sent)
               PROVE  \A o \in Sources \ {c} : spent'[o] = spent[o]
    OBVIOUS
  <2>1. spent' = Counted(c)
    BY LastHopIsClient DEF RequestArrives
  <2> QED BY <2>1, CountedInBudget DEF EdgeInv
<1>4. EdgeSpec
        => [][\A c \in Sources, proxied \in BOOLEAN, sent \in Forgeries :
                RequestArrives(c, proxied, sent) => \A o \in Sources \ {c} : spent'[o] = spent[o]]_edgeVars
  BY <1>3, EdgeInvariant, PTL DEF EdgeSpec
<1> QED BY <1>2, <1>4 DEF EdgeHolds, BudgetIsOwn

-----------------------------------------------------------------------------
(* Receipts.  What a call counts as its own was open when its transaction     *)
(* began and is resolved ever after, so no other call can count it again;     *)
(* the page a call carries to its transaction is of mail that was sent.       *)

MailStored == [state : {"stored"}, to : Recipients, kind : {"log", "ask", "dated"}, old : BOOLEAN,
               reader : 0 .. MaxWindows, resolved : BOOLEAN]
RecipRow == [here : BOOLEAN, session : 0 .. MaxWindows, given : 0 .. MaxWindows]
DeskCall == [stage : {"idle", "canonical", "select", "mark", "answer", "sender"},
             who : Recipients, how : Reading, session : 0 .. MaxWindows,
             windowed : 0 .. MaxPosted, complete : BOOLEAN,
             rows : SUBSET Posted, resolved : SUBSET Posted]

RcptRecords ==
  /\ mails \in [Posted -> MailStored \cup {NotSent}]
  /\ recips \in [Recipients -> RecipRow]
  /\ rcall \in [Desks -> DeskCall]

Carried == \A d \in Desks : rcall[d].rows \cup rcall[d].resolved \subseteq InTable

RcptInv == RcptRecords /\ Carried /\ CountedOnce

\* No message is lost, and a resolved one stays so.
MailKept == \A m \in InTable : m \in InTable' /\ (mails[m].resolved => mails'[m].resolved)

LEMMA RcptOpened ==
  ASSUME RcptInv
  PROVE  /\ RcptRecords /\ Carried /\ CountedOnce
         /\ \A m \in InTable : m \in Posted /\ mails[m] \in MailStored
         /\ \A d \in Desks : rcall[d] \in DeskCall
         /\ \A r \in Recipients : recips[r] \in RecipRow
<1>1. \A m \in InTable : mails[m] # NotSent
  BY DEF InTable, NotSent
<1> QED BY <1>1 DEF RcptInv, RcptRecords, InTable

LEMMA NothingYet == 0 \in 0 .. MaxWindows /\ 0 \in 0 .. MaxPosted
BY ReceiptBounds

LEMMA RestingDesk ==
  /\ AtRest \in DeskCall /\ AtRest.stage = "idle" /\ AtRest.rows = {} /\ AtRest.resolved = {}
  /\ AtRest.complete = TRUE
<1>1. (CHOOSE r \in Recipients : TRUE) \in Recipients
  BY ReceiptBounds
<1>2. NoReading \in Reading
  BY DEF NoReading, Reading
<1> DEFINE who == CHOOSE r \in Recipients : TRUE
<1> HIDE DEF who
<1>3. [stage |-> "idle", who |-> who, how |-> NoReading, session |-> 0, windowed |-> 0, complete |-> TRUE,
       rows |-> {}, resolved |-> {}] \in DeskCall
  BY <1>1, <1>2, ReceiptBounds DEF DeskCall, who
<1> QED BY <1>3 DEF AtRest, who

\* A count of messages is at most of all.
LEMMA CountOfFound ==
  ASSUME NEW S \in SUBSET Posted
  PROVE  IsFiniteSet(S) /\ Cardinality(S) \in 0 .. MaxPosted
<1>1. IsFiniteSet(Posted) /\ Cardinality(Posted) = MaxPosted
  BY ReceiptBounds, FS_Interval DEF Posted
<1> QED BY <1>1, ReceiptBounds, FS_Subset, FS_CardinalityType

\* A desk's call moves on and counts nothing more; the mail stays as it is.
LEMMA DeskMoves ==
  ASSUME RcptInv, NEW d \in Desks, NEW row \in DeskCall, rcall' = [rcall EXCEPT ![d] = row],
         UNCHANGED <<mails, recips>>, row.rows \subseteq InTable, row.resolved \subseteq rcall[d].resolved
  PROVE  RcptInv'
<1>1. \A e \in Desks : rcall'[e] = IF e = d THEN row ELSE rcall[e]
  BY DEF RcptInv, RcptRecords
<1>2. RcptRecords'
  BY DEF RcptInv, RcptRecords
<1>3. Carried'
  BY <1>1 DEF RcptInv, Carried, InTable
<1>4. CountedOnce'
  BY <1>1 DEF RcptInv, CountedOnce
<1> QED BY <1>2, <1>3, <1>4 DEF RcptInv

\* A call counts what its transaction resolves.
LEMMA DeskCounts ==
  ASSUME RcptInv, NEW d \in Desks, NEW row \in DeskCall, rcall' = [rcall EXCEPT ![d] = row],
         recips' = recips, mails' \in [Posted -> MailStored \cup {NotSent}], MailKept,
         row.rows = {}, row.resolved \subseteq InTable,
         \A m \in row.resolved : ~mails[m].resolved /\ mails'[m].resolved
  PROVE  RcptInv'
<1>1. \A e \in Desks : rcall'[e] = IF e = d THEN row ELSE rcall[e]
  BY DEF RcptInv, RcptRecords
<1>2. RcptRecords'
  BY DEF RcptInv, RcptRecords
<1>3. Carried'
  BY <1>1 DEF RcptInv, Carried, MailKept
<1>4. \A e \in Desks : \A m \in rcall[e].resolved : mails[m].resolved /\ mails'[m].resolved
  BY DEF RcptInv, CountedOnce, Carried, MailKept
<1>5. CountedOnce'
  BY <1>1, <1>4 DEF RcptInv, CountedOnce
<1> QED BY <1>2, <1>3, <1>5 DEF RcptInv

\* Mail is sent or grows old, a recipient comes and goes: no call is counted.
LEMMA NobodyCounts ==
  ASSUME RcptInv, rcall' = rcall, mails' \in [Posted -> MailStored \cup {NotSent}],
         recips' \in [Recipients -> RecipRow], MailKept
  PROVE  RcptInv'
<1>1. RcptRecords'
  BY DEF RcptInv, RcptRecords
<1>2. Carried' /\ CountedOnce'
  BY DEF RcptInv, Carried, CountedOnce, MailKept
<1> QED BY <1>1, <1>2 DEF RcptInv

LEMMA StepReads ==
  ASSUME RcptInv, NEW d \in Desks, NEW r \in Recipients, NEW how \in Readings, GetMessages(d, r, how)
  PROVE  RcptInv'
<1> DEFINE found == Found(r, how, recips[r].session)
           row == [AtRest EXCEPT !.who = r, !.how = how, !.windowed = Cardinality(found),
                     !.stage = IF how.status = "pending" /\ how.recent THEN "canonical" ELSE "select"]
<1>1. rcall' = [rcall EXCEPT ![d] = row] /\ UNCHANGED <<mails, recips>>
  BY DEF GetMessages
<1>2. Cardinality(found) \in 0 .. MaxPosted
  BY CountOfFound DEF Found, InTable
<1> HIDE DEF found
<1>3. row \in DeskCall /\ row.rows = {} /\ row.resolved = {}
  BY <1>2, RestingDesk, ReceiptBounds DEF DeskCall
<1> HIDE DEF row
<1> QED BY <1>1, <1>3, DeskMoves

LEMMA StepCounts ==
  ASSUME RcptInv, NEW d \in Desks, CountsCanonical(d)
  PROVE  RcptInv'
<1> DEFINE queue == Found(rcall[d].who, [rcall[d].how EXCEPT !.recent = FALSE], recips[rcall[d].who].session)
           complete == Cardinality(queue) <= rcall[d].windowed
           row == [rcall[d] EXCEPT !.stage = "select", !.complete = complete]
<1>1. rcall' = [rcall EXCEPT ![d].stage = "select", ![d].complete = complete] /\ UNCHANGED <<mails, recips>>
  BY DEF CountsCanonical
<1>2. rcall[d] \in DeskCall /\ rcall[d].rows \subseteq InTable /\ complete \in BOOLEAN
  BY RcptOpened DEF Carried
<1> HIDE DEF complete
<1>3. row \in DeskCall /\ row.rows = rcall[d].rows /\ row.resolved = rcall[d].resolved
  BY <1>2 DEF DeskCall
<1>4. rcall' = [rcall EXCEPT ![d] = row]
  BY <1>1
<1> HIDE DEF row
<1> QED BY <1>1, <1>2, <1>3, <1>4, DeskMoves

LEMMA StepSelects ==
  ASSUME RcptInv, NEW d \in Desks, SelectsPage(d)
  PROVE  RcptInv'
<1> DEFINE c == rcall[d]
           s == recips[c.who].session
<1>1. c \in DeskCall /\ s \in 0 .. MaxWindows /\ c.windowed \in Nat
  BY RcptOpened, ReceiptBounds DEF DeskCall, RecipRow
<1>2. PICK rows \in SUBSET Found(c.who, c.how, s) :
        rcall' = [rcall EXCEPT ![d] =
               IF rows = {} \/ c.how.peek THEN AtRest
               ELSE [c EXCEPT !.stage = "mark", !.session = s, !.rows = rows, !.windowed = 0,
                       !.complete = @ /\ c.windowed <= Cardinality(rows)]]
  BY DEF SelectsPage
<1>3. UNCHANGED <<mails, recips>>
  BY DEF SelectsPage
<1>4. rows \subseteq InTable /\ rows \in SUBSET Posted /\ InTable \subseteq Posted
  BY DEF Found, InTable
<1>5. CASE rows = {} \/ c.how.peek
  <2>1. rcall' = [rcall EXCEPT ![d] = AtRest]
    BY <1>2, <1>5
  <2> QED BY <1>3, <2>1, RestingDesk, DeskMoves
<1>6. CASE ~(rows = {} \/ c.how.peek)
  <2> DEFINE whole == c.complete /\ c.windowed <= Cardinality(rows)
             row == [c EXCEPT !.stage = "mark", !.session = s, !.rows = rows, !.windowed = 0, !.complete = whole]
  <2>1. rcall' = [rcall EXCEPT ![d] = row]
    BY <1>2, <1>6
  <2>2. whole \in BOOLEAN
    BY <1>1 DEF DeskCall
  <2> HIDE DEF whole
  <2>3. row \in DeskCall /\ row.rows = rows /\ row.resolved = c.resolved
    <3> DEFINE stay == [c EXCEPT !.stage = "mark", !.session = s, !.windowed = 0]
    <3>1. stay \in DeskCall /\ stay.resolved = c.resolved
      BY <1>1, NothingYet DEF DeskCall
    <3>2. row = [stay EXCEPT !.rows = rows, !.complete = whole]
      OBVIOUS
    <3> HIDE DEF stay, c
    <3> QED BY <1>4, <2>2, <3>1, <3>2 DEF DeskCall
  <2> HIDE DEF row
  <2> QED BY <1>3, <1>4, <2>1, <2>3, DeskMoves
<1> QED BY <1>5, <1>6

LEMMA StepDeskEnds ==
  ASSUME RcptInv, NEW d \in Desks, Answers(d) \/ DeskCrash(d)
  PROVE  RcptInv'
<1>1. rcall' = [rcall EXCEPT ![d] = AtRest] /\ UNCHANGED <<mails, recips>>
  BY DEF Answers, DeskCrash
<1> QED BY <1>1, RestingDesk, DeskMoves

LEMMA StepMarks ==
  ASSUME RcptInv, NEW d \in Desks, MarksPage(d)
  PROVE  RcptInv'
<1> DEFINE c == rcall[d]
           acks == c.how.ack /\ c.how.status = "pending"
           marked(m) == [mails[m] EXCEPT !.reader = IF c.session # 0 THEN c.session ELSE @,
                                         !.resolved = @ \/ acks]
<1>1. /\ mails' = [m \in Posted |-> IF m \in c.rows THEN marked(m) ELSE mails[m]]
      /\ rcall' = [rcall EXCEPT ![d] =
             IF acks THEN [AtRest EXCEPT !.stage = "answer", !.resolved = NewlyResolved(c.rows)]
             ELSE AtRest]
      /\ recips' = recips
  BY DEF MarksPage
<1>2. c \in DeskCall /\ c.rows \subseteq InTable
  BY RcptOpened DEF Carried
<1>3. acks \in BOOLEAN
  BY <1>2 DEF DeskCall, Reading
<1> HIDE DEF acks
<1>4. \A m \in c.rows : /\ marked(m) \in MailStored /\ (mails[m].resolved => marked(m).resolved)
                        /\ (acks => marked(m).resolved)
  <2> SUFFICES ASSUME NEW m \in c.rows
               PROVE  /\ marked(m) \in MailStored /\ (mails[m].resolved => marked(m).resolved)
                      /\ (acks => marked(m).resolved)
    OBVIOUS
  <2> DEFINE reader == IF c.session # 0 THEN c.session ELSE mails[m].reader
             resolved == mails[m].resolved \/ acks
  <2>1. mails[m] \in MailStored /\ c.session \in 0 .. MaxWindows
    BY <1>2, RcptOpened DEF DeskCall
  <2>2. reader \in 0 .. MaxWindows /\ resolved \in BOOLEAN
    BY <1>3, <2>1 DEF MailStored
  <2>3. marked(m) = [mails[m] EXCEPT !.reader = reader, !.resolved = resolved]
    BY <2>1 DEF MailStored
  <2> HIDE DEF reader
  <2> QED BY <2>1, <2>2, <2>3 DEF MailStored
<1> HIDE DEF marked, c
<1>5. mails' \in [Posted -> MailStored \cup {NotSent}]
  BY <1>1, <1>4, RcptOpened DEF RcptRecords
<1>6. MailKept
  BY <1>1, <1>4 DEF MailKept, InTable, MailStored
<1>7. CASE acks
  <2> DEFINE row == [AtRest EXCEPT !.stage = "answer", !.resolved = NewlyResolved(c.rows)]
  <2>1. rcall' = [rcall EXCEPT ![d] = row]
    BY <1>1, <1>7
  <2>2. NewlyResolved(c.rows) \subseteq c.rows /\ NewlyResolved(c.rows) \in SUBSET Posted
    BY <1>2 DEF NewlyResolved, InTable
  <2>3. row \in DeskCall /\ row.rows = {} /\ row.resolved = NewlyResolved(c.rows)
    BY <2>2, RestingDesk DEF DeskCall
  <2> HIDE DEF row
  <2>4. \A m \in row.resolved : ~mails[m].resolved /\ mails'[m].resolved /\ m \in InTable
    BY <1>1, <1>2, <1>4, <1>7, <2>2, <2>3 DEF NewlyResolved, InTable
  <2> QED BY <1>1, <1>5, <1>6, <2>1, <2>3, <2>4, DeskCounts
<1>8. CASE ~acks
  <2>1. rcall' = [rcall EXCEPT ![d] = AtRest]
    BY <1>1, <1>8
  <2> QED BY <1>1, <1>5, <1>6, <2>1, RestingDesk, DeskCounts
<1> QED BY <1>3, <1>7, <1>8

\* resolve_messages, by either side: it counts what it closes.
LEMMA StepResolves ==
  ASSUME RcptInv, NEW d \in Desks, NEW ids \in SUBSET InTable,
         SenderResolves(d, ids) \/ \E r \in Recipients : RecipientResolves(d, r, ids)
  PROVE  RcptInv'
<1>1. PICK own \in SUBSET ids, stage \in {"answer", "sender"} :
        /\ \A m \in own : ~mails[m].resolved
        /\ mails' = [m \in Posted |-> IF m \in own THEN [mails[m] EXCEPT !.resolved = TRUE] ELSE mails[m]]
        /\ rcall' = [rcall EXCEPT ![d] = [AtRest EXCEPT !.stage = stage, !.resolved = own]]
        /\ recips' = recips
  <2>1. CASE SenderResolves(d, ids)
    <3> DEFINE mine == {m \in ids : OpenToSender(m)}
    <3>1. mine \in SUBSET ids /\ \A m \in mine : ~mails[m].resolved
      BY DEF OpenToSender
    <3> QED BY <2>1, <3>1 DEF SenderResolves
  <2>2. ASSUME NEW r \in Recipients, RecipientResolves(d, r, ids)
        PROVE  \E own \in SUBSET ids, stage \in {"answer", "sender"} :
                 /\ \A m \in own : ~mails[m].resolved
                 /\ mails' = [m \in Posted |-> IF m \in own THEN [mails[m] EXCEPT !.resolved = TRUE] ELSE mails[m]]
                 /\ rcall' = [rcall EXCEPT ![d] = [AtRest EXCEPT !.stage = stage, !.resolved = own]]
                 /\ recips' = recips
    <3> DEFINE mine == NewlyResolved({m \in ids : mails[m].to = r})
    <3>1. mine \in SUBSET ids /\ \A m \in mine : ~mails[m].resolved
      BY DEF NewlyResolved
    <3> QED BY <2>2, <3>1 DEF RecipientResolves
  <2> QED BY <2>1, <2>2
<1> DEFINE row == [AtRest EXCEPT !.stage = stage, !.resolved = own]
           closed(m) == [mails[m] EXCEPT !.resolved = TRUE]
<1>2. own \subseteq InTable /\ InTable \subseteq Posted
  BY DEF InTable
<1>3. row \in DeskCall /\ row.rows = {} /\ row.resolved = own
  BY <1>2, RestingDesk DEF DeskCall
<1>4. \A m \in own : closed(m) \in MailStored /\ closed(m).resolved
  BY <1>2, RcptOpened DEF MailStored
<1>5. /\ rcall' = [rcall EXCEPT ![d] = row]
      /\ mails' = [m \in Posted |-> IF m \in own THEN closed(m) ELSE mails[m]]
  BY <1>1
<1> HIDE DEF row, closed
<1>6. mails' \in [Posted -> MailStored \cup {NotSent}]
  BY <1>4, <1>5, RcptOpened DEF RcptRecords
<1>7. MailKept
  BY <1>4, <1>5 DEF MailKept, InTable, MailStored
<1>8. \A m \in row.resolved : ~mails[m].resolved /\ mails'[m].resolved
  BY <1>1, <1>2, <1>3, <1>4, <1>5
<1> QED BY <1>1, <1>2, <1>3, <1>5, <1>6, <1>7, <1>8, DeskCounts

LEMMA StepSends ==
  ASSUME RcptInv, NEW r \in Recipients, NEW kind \in Dispositions, Sends(r, kind)
  PROVE  RcptInv'
<1> DEFINE row == [state |-> "stored", to |-> r, kind |-> kind, old |-> FALSE, reader |-> 0, resolved |-> FALSE]
<1>1. PICK m \in Posted : mails[m] = NotSent /\ mails' = [mails EXCEPT ![m] = row]
  BY DEF Sends
<1>2. rcall' = rcall /\ recips' = recips
  BY DEF Sends
<1>3. row \in MailStored
  BY ReceiptBounds DEF MailStored
<1> HIDE DEF row
<1>4. mails' \in [Posted -> MailStored \cup {NotSent}] /\ recips' \in [Recipients -> RecipRow]
  BY <1>1, <1>2, <1>3, RcptOpened DEF RcptRecords
<1>5. MailKept
  BY <1>1, <1>3, RcptOpened DEF RcptRecords, MailKept, InTable, NotSent
<1> QED BY <1>2, <1>4, <1>5, NobodyCounts

LEMMA StepAges ==
  ASSUME RcptInv, NEW m \in Posted, GetsOld(m)
  PROVE  RcptInv'
<1> DEFINE row == [mails[m] EXCEPT !.old = TRUE]
<1>1. rcall' = rcall /\ recips' = recips /\ mails' = [mails EXCEPT ![m] = row] /\ m \in InTable
  BY DEF GetsOld
<1>2. row \in MailStored /\ row.resolved = mails[m].resolved
  BY <1>1, RcptOpened DEF MailStored
<1> HIDE DEF row
<1>3. mails' \in [Posted -> MailStored \cup {NotSent}] /\ recips' \in [Recipients -> RecipRow]
  BY <1>1, <1>2, RcptOpened DEF RcptRecords
<1>4. MailKept
  BY <1>1, <1>2, RcptOpened DEF RcptRecords, MailKept, InTable, MailStored
<1> QED BY <1>1, <1>3, <1>4, NobodyCounts

LEMMA StepRecipient ==
  ASSUME RcptInv, NEW r \in Recipients, Arrives(r) \/ Unbinds(r) \/ Unregisters(r)
  PROVE  RcptInv'
<1>1. rcall' = rcall /\ mails' = mails
  BY DEF Arrives, Unbinds, Unregisters
<1>2. recips[r] \in RecipRow /\ recips[r].given \in Nat
  BY RcptOpened, ReceiptBounds DEF RecipRow
<1>3. recips' \in [Recipients -> RecipRow]
  <2>1. CASE Arrives(r)
    <3>1. Bound(recips[r]) \in RecipRow
      BY <1>2, <2>1, ReceiptBounds DEF Arrives, Bound, RecipRow
    <3> QED BY <2>1, <3>1, RcptOpened DEF RcptRecords, Arrives
  <2>2. CASE Unbinds(r)
    BY <1>2, <2>2, RcptOpened, ReceiptBounds DEF RcptRecords, Unbinds, RecipRow
  <2>3. CASE Unregisters(r)
    <3> DEFINE row == [recips[r] EXCEPT !.here = FALSE, !.session = 0]
    <3>1. row \in RecipRow
      BY <1>2, NothingYet DEF RecipRow
    <3>2. recips' = [recips EXCEPT ![r] = row]
      BY <2>3 DEF Unregisters
    <3> HIDE DEF row
    <3> QED BY <3>1, <3>2, RcptOpened DEF RcptRecords
  <2> QED BY <2>1, <2>2, <2>3
<1>4. mails' \in [Posted -> MailStored \cup {NotSent}] /\ MailKept
  BY <1>1, RcptOpened DEF RcptRecords, MailKept, InTable
<1> QED BY <1>1, <1>3, <1>4, NobodyCounts

LEMMA RcptInitInv == ReceiptInit => RcptInv
<1> SUFFICES ASSUME ReceiptInit PROVE RcptInv
  OBVIOUS
<1>1. /\ mails = [m \in Posted |-> NotSent] /\ rcall = [d \in Desks |-> AtRest]
      /\ recips = [r \in Recipients |-> [here |-> FALSE, session |-> 0, given |-> 0]]
  BY DEF ReceiptInit
<1>2. RcptRecords
  BY <1>1, RestingDesk, ReceiptBounds DEF RcptRecords, RecipRow
<1>3. Carried /\ CountedOnce
  BY <1>1, RestingDesk DEF Carried, CountedOnce
<1> QED BY <1>2, <1>3 DEF RcptInv

LEMMA RcptNextInv == RcptInv /\ [ReceiptNext]_rcptVars => RcptInv'
<1> SUFFICES ASSUME RcptInv, [ReceiptNext]_rcptVars PROVE RcptInv'
  OBVIOUS
<1>1. CASE UNCHANGED rcptVars
  BY <1>1 DEF rcptVars, RcptInv, RcptRecords, Carried, CountedOnce, InTable
<1>2. ASSUME NEW d \in Desks, NEW r \in Recipients, NEW how \in Readings, GetMessages(d, r, how) PROVE RcptInv'
  BY <1>2, StepReads
<1>3. ASSUME NEW d \in Desks,
             CountsCanonical(d) \/ SelectsPage(d) \/ MarksPage(d) \/ Answers(d) \/ DeskCrash(d)
      PROVE  RcptInv'
  BY <1>3, StepCounts, StepSelects, StepMarks, StepDeskEnds
<1>4. ASSUME NEW r \in Recipients, NEW kind \in Dispositions, Sends(r, kind) PROVE RcptInv'
  BY <1>4, StepSends
<1>5. ASSUME NEW d \in Desks, NEW ids \in SUBSET InTable, SenderResolves(d, ids) PROVE RcptInv'
  BY <1>5, StepResolves
<1>6. ASSUME NEW d \in Desks, NEW r \in Recipients, NEW ids \in SUBSET InTable, RecipientResolves(d, r, ids)
      PROVE  RcptInv'
  BY <1>6, StepResolves
<1>7. ASSUME NEW r \in Recipients, Arrives(r) \/ Unbinds(r) \/ Unregisters(r) PROVE RcptInv'
  BY <1>7, StepRecipient
<1>8. ASSUME NEW m \in Posted, GetsOld(m) PROVE RcptInv'
  BY <1>8, StepAges
<1> QED BY <1>1, <1>2, <1>3, <1>4, <1>5, <1>6, <1>7, <1>8 DEF ReceiptNext

THEOREM ReceiptInvariant == ReceiptSpec => []RcptInv
BY RcptInitInv, RcptNextInv, PTL DEF ReceiptSpec

LEMMA RcptInvSays == RcptInv => ReceiptTypeOK /\ CountedOnce /\ OpenIsShown /\ PreviewHidesDelivered
<1> SUFFICES ASSUME RcptInv PROVE ReceiptTypeOK /\ CountedOnce /\ OpenIsShown /\ PreviewHidesDelivered
  OBVIOUS
<1>1. ReceiptTypeOK
  <2>1. \A m \in Posted : mails[m].state = "stored" => mails[m] \in MailRow
    BY RcptOpened DEF InTable, MailStored, MailRow
  <2> QED BY <2>1, RcptOpened DEF ReceiptTypeOK, RcptRecords, RecipRow, DeskCall
<1>2. OpenIsShown
  <2> SUFFICES ASSUME NEW m \in Outstanding, m \notin HumanLane, m \notin SummaryOf(mails[m].to)
               PROVE  recips[mails[m].to].session # 0 /\ mails[m].reader = recips[mails[m].to].session
    BY DEF OpenIsShown
  <2>1. m \in InTable /\ ~mails[m].resolved /\ recips[mails[m].to].here
    BY DEF Outstanding, HumanLane
  <2> QED BY <2>1 DEF SummaryOf, PendingFor
<1>3. PreviewHidesDelivered
  <2> SUFFICES ASSUME NEW r \in Recipients, NEW m \in SummaryOf(r), m \notin Previewed(r)
               PROVE  mails[m].reader # 0
    BY DEF PreviewHidesDelivered
  <2> DEFINE how == [NoReading EXCEPT !.status = "pending", !.recent = TRUE]
  <2>1. how.status = "pending" /\ how.recent
    BY DEF NoReading
  <2> HIDE DEF how
  <2>2. m \in InTable /\ mails[m].to = r /\ PendingFor(m, recips[r].session)
    BY DEF SummaryOf
  <2>3. ~InWindow(m, how)
    BY <2>2 DEF Previewed, Found, how
  <2> QED BY <2>1, <2>3 DEF InWindow
<1> QED BY <1>1, <1>2, <1>3, RcptOpened

\* Only a call of the sender's answers as one, and it closed what no agent holds.
LEMMA SenderCallSpares ==
  ASSUME RcptInv, [ReceiptNext]_rcptVars, NEW d \in Desks, rcall'[d].stage = "sender", rcall[d].stage = "idle"
  PROVE  \A m \in rcall'[d].resolved : ~recips[mails[m].to].here
<1>1. \A e \in Desks : rcall[e] \in DeskCall
  BY RcptOpened
<1>2. ASSUME NEW e \in Desks, NEW row, row.stage # "sender", rcall' = [rcall EXCEPT ![e] = row] PROVE FALSE
  BY <1>2 DEF RcptInv, RcptRecords
<1>3. PICK e \in Desks, ids \in SUBSET InTable : SenderResolves(e, ids)
  <2>1. ~UNCHANGED rcptVars /\ rcall' # rcall
    BY DEF rcptVars
  <2>2. ASSUME NEW e \in Desks, NEW r \in Recipients, NEW how \in Readings, GetMessages(e, r, how) PROVE FALSE
    BY <1>2, <2>2, RestingDesk DEF GetMessages, DeskCall
  <2>3. ASSUME NEW e \in Desks, CountsCanonical(e) \/ SelectsPage(e) PROVE FALSE
    <3>1. rcall'[e].stage # "sender" /\ \A f \in Desks \ {e} : rcall'[f] = rcall[f]
      BY <1>1, <2>3, RestingDesk DEF CountsCanonical, SelectsPage, DeskCall, RcptInv, RcptRecords
    <3> QED BY <3>1
  <2>4. ASSUME NEW e \in Desks, MarksPage(e) PROVE FALSE
    <3>1. rcall'[e].stage # "sender" /\ \A f \in Desks \ {e} : rcall'[f] = rcall[f]
      BY <1>1, <2>4, RestingDesk DEF MarksPage, DeskCall, RcptInv, RcptRecords
    <3> QED BY <3>1
  <2>5. ASSUME NEW e \in Desks, Answers(e) \/ DeskCrash(e) PROVE FALSE
    BY <1>2, <2>5, RestingDesk DEF Answers, DeskCrash
  <2>6. ASSUME NEW e \in Desks, NEW r \in Recipients, NEW ids \in SUBSET InTable, RecipientResolves(e, r, ids)
        PROVE  FALSE
    <3>1. rcall'[e].stage # "sender" /\ \A f \in Desks \ {e} : rcall'[f] = rcall[f]
      BY <1>1, <2>6, RestingDesk DEF RecipientResolves, DeskCall, RcptInv, RcptRecords
    <3> QED BY <3>1
  <2> QED BY <2>1, <2>2, <2>3, <2>4, <2>5, <2>6 DEF ReceiptNext, Sends, Arrives, Unbinds, Unregisters, GetsOld
<1> DEFINE own == {m \in ids : OpenToSender(m)}
           row == [AtRest EXCEPT !.stage = "sender", !.resolved = own]
<1>4. rcall' = [rcall EXCEPT ![e] = row] /\ row.resolved = own
  BY <1>3, RestingDesk DEF SenderResolves, DeskCall
<1>5. rcall'[d] = row
  BY <1>1, <1>4 DEF RcptInv, RcptRecords
<1> QED BY <1>4, <1>5 DEF OpenToSender

\* Every promise of a receipt holds: what is settled is counted once, what is open is shown, what was
\* delivered is hidden, and a sender settles no agent's mail.
THEOREM ReceiptsAreTrue == ReceiptSpec => ReceiptsTrue
<1>1. ReceiptSpec => []ReceiptTypeOK /\ []CountedOnce /\ []OpenIsShown /\ []PreviewHidesDelivered
  BY RcptInvSays, ReceiptInvariant, PTL
<1>2. RcptInv /\ [ReceiptNext]_rcptVars
        => [\A d \in Desks :
              rcall'[d].stage = "sender" /\ rcall[d].stage = "idle"
                => \A m \in rcall'[d].resolved : ~recips[mails[m].to].here]_rcptVars
  BY SenderCallSpares
<1>3. ReceiptSpec
        => [][\A d \in Desks :
                rcall'[d].stage = "sender" /\ rcall[d].stage = "idle"
                  => \A m \in rcall'[d].resolved : ~recips[mails[m].to].here]_rcptVars
  BY <1>2, ReceiptInvariant, PTL DEF ReceiptSpec
<1> QED BY <1>1, <1>3 DEF ReceiptsTrue, SenderSparesAgents

-----------------------------------------------------------------------------
(* Credentials.  Every write of a row, by whoever it is, moves its tokens in  *)
(* one of three ways (TokensMove): a new current token, the current one made  *)
(* previous under a new one, or tokens dropped.  So a token that is no longer *)
(* current is never current again (Retired), and what a compare saw, what a   *)
(* call was granted on and what the cache holds stay true of the row as far   *)
(* as the row still has those tokens (SeenGood, Vouches).  Between a write of *)
(* another process and its increment of the generation the cache may be       *)
(* behind; at any other moment it agrees with the rows (EntryGood).           *)

Alive == {"active", "rotation_grace"}

RowGood(r) == r \in CredRow /\ RowCoherent(r) /\ r.look \in {NoSecret, r.hash}

TokensMove(r, q, t) ==
  \/ q.hash = r.hash /\ q.prev = r.prev
  \/ q.hash \in {r.hash, NoSecret, t} /\ q.prev = NoSecret
  \/ q.hash = t /\ q.prev = r.hash

LiveMove(r, q, t) ==
  /\ q.state \in Alive => q.hash = t \/ (r.state \in Alive /\ r.hash = q.hash)
  /\ q.state = "rotation_grace" =>
       \/ r.state = "rotation_grace" /\ q.prev = r.prev /\ q.until = r.until
       \/ r.state = "active" /\ q.prev = r.hash

RevokedMove(r, q, t) ==
  /\ r.state = "revoked" => q.state \in {"revoked", "none"}
  /\ r.state = "recovery_pending" /\ q.state \notin {"none", "revoked", "recovery_pending"}
       => q.recovery = NoSecret /\ q.hash = t

RowMove(r, q, t) == RowGood(q) /\ TokensMove(r, q, t) /\ LiveMove(r, q, t) /\ RevokedMove(r, q, t)

\* A write that leaves the verdict on the row's tokens alone.
Quiet(r, q) == q.state = r.state /\ q.hash = r.hash /\ q.prev = r.prev /\ q.until = r.until

LEMMA EmptyRow ==
  /\ RowGood(NoRow) /\ NoRow.state = "none" /\ NoRow.hash = NoSecret /\ NoRow.prev = NoSecret
  /\ NoRow.recovery = NoSecret /\ NoRow.look = NoSecret
BY DEF NoRow, RowGood, CredRow, RowCoherent, AuthStates, NoSecret

LEMMA SameRow == ASSUME NEW r, RowGood(r), NEW t PROVE RowMove(r, r, t)
BY DEF RowMove, TokensMove, LiveMove, RevokedMove, RowGood, RowCoherent, Alive

LEMMA RemovedRow == ASSUME NEW r, NEW t PROVE RowMove(r, NoRow, t)
BY EmptyRow DEF RowMove, TokensMove, LiveMove, RevokedMove, Alive

LEMMA RegisteredRow ==
  ASSUME NEW r, r.state = "none", NEW t \in Secrets, NEW h \in Secrets \cup {NoSecret}
  PROVE  RowMove(r, Registered(t, h), t) /\ Registered(t, h).hash = t
<1> DEFINE q == Registered(t, h)
<1>1. /\ q \in CredRow /\ q.state = "active" /\ q.hash = t /\ q.look = t /\ q.prev = NoSecret /\ q.until = 0
      /\ q.recovery = NoSecret
  BY DEF Registered, NoRow, CredRow, AuthStates
<1> HIDE DEF q
<1>2. t # NoSecret
  BY DEF Secrets, NoSecret
<1>3. RowMove(r, q, t)
  BY <1>1, <1>2 DEF RowMove, RowGood, RowCoherent, TokensMove, LiveMove, RevokedMove, Alive
<1> QED BY <1>1, <1>3 DEF q

LEMMA MintedRow ==
  ASSUME NEW r, r.state = "none", NEW t \in Secrets
  PROVE  RowMove(r, Minted(t), t) /\ Minted(t).hash = t
<1>1. Minted(t) = Registered(t, NoSecret)
  BY DEF Minted, Registered, NoRow
<1> QED BY <1>1, RegisteredRow

LEMMA RecoveredRow ==
  ASSUME NEW r, RowGood(r), r.state \in {"recovery_pending", "legacy_bootstrap"}, NEW t \in Secrets
  PROVE  RowMove(r, Recovered(r, t), t) /\ Recovered(r, t).hash = t
<1> DEFINE q == Recovered(r, t)
<1>1. r \in CredRow /\ r.prev = NoSecret /\ r.until = 0 /\ t # NoSecret
  BY DEF RowGood, RowCoherent, CredRow, Secrets, NoSecret
<1>2. /\ q.state = "active" /\ q.hash = t /\ q.look = t /\ q.prev = r.prev /\ q.until = r.until
      /\ q.recovery = NoSecret
  BY <1>1 DEF Recovered, CredRow
<1>3. q \in CredRow
  <2> DEFINE est == r.established \/ r.state = "recovery_pending"
             hnd == IF r.state = "recovery_pending" /\ ~r.established THEN NoSecret ELSE r.handle
             base == [r EXCEPT !.state = "active", !.hash = t, !.look = t, !.recovery = NoSecret, !.held = TRUE]
  <2>1. base \in CredRow
    BY <1>1 DEF CredRow, AuthStates
  <2>2. est \in BOOLEAN /\ hnd \in Secrets \cup {NoSecret}
    BY <1>1 DEF CredRow
  <2>3. q = [base EXCEPT !.established = est, !.handle = hnd]
    BY <1>1 DEF Recovered, CredRow
  <2> HIDE DEF est, hnd, base, q
  <2> QED BY <2>1, <2>2, <2>3 DEF CredRow
<1> HIDE DEF q
<1>4. RowMove(r, q, t)
  BY <1>1, <1>2, <1>3 DEF RowMove, RowGood, RowCoherent, TokensMove, LiveMove, RevokedMove, Alive
<1> QED BY <1>2, <1>4 DEF q

LEMMA HeldRow ==
  ASSUME NEW r, RowGood(r), NEW t, NEW b \in BOOLEAN
  PROVE  RowMove(r, [r EXCEPT !.held = b], t) /\ Quiet(r, [r EXCEPT !.held = b])
<1> DEFINE q == [r EXCEPT !.held = b]
<1>1. q \in CredRow /\ q.state = r.state /\ q.hash = r.hash /\ q.look = r.look /\ q.prev = r.prev
      /\ q.until = r.until /\ q.recovery = r.recovery
  BY DEF RowGood, CredRow
<1> HIDE DEF q
<1>2. RowMove(r, q, t) /\ Quiet(r, q)
  BY <1>1 DEF RowGood, RowMove, RowCoherent, TokensMove, LiveMove, RevokedMove, Alive, Quiet
<1> QED BY <1>2 DEF q

LEMMA RotatedHardRow ==
  ASSUME NEW r, RowGood(r), r.state = "active", NEW t \in Secrets
  PROVE  RowMove(r, RotatedHard(r, t), t)
<1> DEFINE q == RotatedHard(r, t)
<1>1. /\ q \in CredRow /\ q.state = r.state /\ q.hash = t /\ q.look = t /\ q.prev = r.prev
      /\ q.until = r.until /\ q.recovery = r.recovery
  BY DEF RowGood, CredRow, RotatedHard
<1> HIDE DEF q
<1>2. r.prev = NoSecret /\ t # NoSecret
  BY DEF RowGood, RowCoherent, Secrets, NoSecret
<1>3. RowMove(r, q, t)
  BY <1>1, <1>2 DEF RowGood, RowMove, RowCoherent, TokensMove, LiveMove, RevokedMove, Alive
<1> QED BY <1>3 DEF q

LEMMA RotatedGraceRow ==
  ASSUME NEW r, RowGood(r), r.state = "active", NEW t \in Secrets, clock \in Nat
  PROVE  RowMove(r, RotatedGrace(r, t), t)
<1> DEFINE q == RotatedGrace(r, t)
<1>1. clock + GraceTicks \in Nat /\ clock + GraceTicks > 0
  BY AuthBounds
<1>2. /\ q \in CredRow /\ q.state = "rotation_grace" /\ q.hash = t /\ q.look = t /\ q.prev = r.hash
      /\ q.until = clock + GraceTicks /\ q.recovery = r.recovery
  BY <1>1 DEF RowGood, CredRow, RotatedGrace, AuthStates
<1> HIDE DEF q
<1>3. r.hash # NoSecret /\ t # NoSecret
  BY DEF RowGood, RowCoherent, Secrets, NoSecret
<1>4. RowMove(r, q, t)
  BY <1>1, <1>2, <1>3 DEF RowGood, RowMove, RowCoherent, TokensMove, LiveMove, RevokedMove, Alive
<1> QED BY <1>4 DEF q

LEMMA RevokedRow ==
  ASSUME NEW r, RowGood(r), r.state \in Revocable, NEW t, NEW rec \in Secrets \cup {NoSecret}
  PROVE  RowMove(r, Revoked(r, rec), t) /\ Revoked(r, rec).hash = r.hash
<1> DEFINE q == Revoked(r, rec)
<1>1. /\ q \in CredRow /\ q.state = (IF rec = NoSecret THEN "revoked" ELSE "recovery_pending")
      /\ q.hash = r.hash /\ q.look = r.look /\ q.prev = NoSecret /\ q.until = 0 /\ q.recovery = rec
  BY DEF RowGood, CredRow, Revoked, AuthStates
<1> HIDE DEF q
<1>2. RowMove(r, q, t)
  BY <1>1 DEF RowGood, RowMove, RowCoherent, TokensMove, LiveMove, RevokedMove, Alive, Revocable
<1> QED BY <1>1, <1>2 DEF q

LEMMA ForceMintedRow ==
  ASSUME NEW r, RowGood(r), r.state \in {"active", "rotation_grace", "legacy_bootstrap"}, NEW t \in Secrets
  PROVE  RowMove(r, ForceMinted(r, t), t)
<1> DEFINE q == ForceMinted(r, t)
<1>1. /\ q \in CredRow /\ q.state = "active" /\ q.hash = t /\ q.look = t /\ q.prev = NoSecret /\ q.until = 0
      /\ q.recovery = NoSecret
  BY DEF RowGood, CredRow, ForceMinted, AuthStates
<1> HIDE DEF q
<1>2. t # NoSecret
  BY DEF Secrets, NoSecret
<1>3. RowMove(r, q, t)
  BY <1>1, <1>2 DEF RowGood, RowMove, RowCoherent, TokensMove, LiveMove, RevokedMove, Alive
<1> QED BY <1>3 DEF q

LEMMA SweptRow ==
  ASSUME NEW r, RowGood(r), r.state = "rotation_grace", NEW t
  PROVE  RowMove(r, Swept(r), t) /\ Swept(r).hash = r.hash
<1> DEFINE q == Swept(r)
<1>1. /\ q \in CredRow /\ q.state = "active" /\ q.hash = r.hash /\ q.look = r.look /\ q.prev = NoSecret
      /\ q.until = 0 /\ q.recovery = r.recovery
  BY DEF RowGood, CredRow, Swept, AuthStates
<1> HIDE DEF q
<1>2. RowMove(r, q, t)
  BY <1>1 DEF RowGood, RowMove, RowCoherent, TokensMove, LiveMove, RevokedMove, Alive
<1> QED BY <1>1, <1>2 DEF q

LEMMA EstablishedRow ==
  ASSUME NEW r, RowGood(r), NEW t
  PROVE  RowMove(r, Established(r), t) /\ Quiet(r, Established(r)) /\ RowGood(Established(r))
         /\ Established(r).look = r.look /\ Established(r).plook = r.plook
<1> DEFINE q == Established(r)
<1>1. /\ q \in CredRow /\ q.state = r.state /\ q.hash = r.hash /\ q.look = r.look /\ q.prev = r.prev
      /\ q.until = r.until /\ q.recovery = r.recovery /\ q.plook = r.plook
  BY DEF RowGood, CredRow, Established
<1> HIDE DEF q
<1>2. RowMove(r, q, t) /\ Quiet(r, q) /\ RowGood(q)
  BY <1>1 DEF RowGood, RowMove, RowCoherent, TokensMove, LiveMove, RevokedMove, Alive, Quiet
<1> QED BY <1>1, <1>2 DEF q

LEMMA KeylessRow ==
  ASSUME NEW r, RowGood(r), NEW t
  PROVE  RowMove(r, [r EXCEPT !.look = NoSecret, !.plook = NoSecret], t)
         /\ Quiet(r, [r EXCEPT !.look = NoSecret, !.plook = NoSecret])
<1> DEFINE q == [r EXCEPT !.look = NoSecret, !.plook = NoSecret]
<1>1. /\ q \in CredRow /\ q.state = r.state /\ q.hash = r.hash /\ q.look = NoSecret /\ q.prev = r.prev
      /\ q.until = r.until /\ q.recovery = r.recovery
  BY DEF RowGood, CredRow
<1> HIDE DEF q
<1>2. RowMove(r, q, t) /\ Quiet(r, q)
  BY <1>1 DEF RowGood, RowMove, RowCoherent, TokensMove, LiveMove, RevokedMove, Alive, Quiet
<1> QED BY <1>2 DEF q

\* What a compare leaves on the row it was begun on: a self-heal of the current digest writes the
\* digest of the token that was compared with the very hash the row still has.
LEMMA VerdictRow ==
  ASSUME NEW r, RowGood(r), NEW t, NEW seen, NEW basis \in Bases, NEW s \in Secrets,
         basis = "current" => seen.hash = s
  PROVE  \A m \in {Marked(r, basis, HashOf(seen, basis))} :
           /\ RowMove(r, m, t) /\ Quiet(r, m)
           /\ RowMove(r, Healed(m, seen, basis, s), t) /\ Quiet(r, Healed(m, seen, basis, s))
<1> SUFFICES ASSUME NEW m, m = Marked(r, basis, HashOf(seen, basis))
             PROVE  /\ RowMove(r, m, t) /\ Quiet(r, m)
                    /\ RowMove(r, Healed(m, seen, basis, s), t) /\ Quiet(r, Healed(m, seen, basis, s))
  OBVIOUS
<1>1. m = r \/ m = Established(r)
  BY DEF Marked
<1>2. RowMove(r, m, t) /\ Quiet(r, m) /\ RowGood(m)
  BY <1>1, EstablishedRow, SameRow DEF Quiet
<1>3. CASE ~HealMatches(m, seen, basis)
  BY <1>2, <1>3 DEF Healed
<1>4. CASE HealMatches(m, seen, basis)
  <2> DEFINE q == Healed(m, seen, basis, s)
  <2>1. /\ q \in CredRow /\ q.state = m.state /\ q.hash = m.hash /\ q.prev = m.prev /\ q.until = m.until
        /\ q.recovery = m.recovery
        /\ q.look = IF basis = "current" THEN s ELSE m.look
    BY <1>2, <1>4 DEF RowGood, CredRow, Healed
  <2>2. basis = "current" => m.hash = s
    BY <1>4 DEF HealMatches, HashOf
  <2> HIDE DEF q
  <2>3. RowMove(r, q, t) /\ Quiet(r, q)
    BY <1>2, <2>1, <2>2 DEF RowGood, RowMove, RowCoherent, TokensMove, LiveMove, RevokedMove, Alive, Quiet
  <2> QED BY <1>2, <2>3 DEF q
<1> QED BY <1>3, <1>4

\* A token that is current nowhere, now and for ever.
Retired(s) == s # NoSecret => s \in Issued /\ \A m \in Names : cred[m].hash # s

\* What a compare saw of row n: if the row still has that previous token, it has that current one.
SeenGood(n, v) ==
  /\ v.state = "rotation_grace" <=> v.prev # NoSecret
  /\ v.state = "rotation_grace" <=> v.until > 0
  /\ v.look \in {NoSecret, v.hash}
  /\ v.hash \in Issued \cup {NoSecret} /\ Retired(v.prev)
  /\ v.prev # NoSecret /\ cred[n].prev = v.prev => cred[n].hash = v.hash

Agrees(n, v) == Quiet(v, cred[n])

\* The stored hash h, while the row has it as b, says that s is a token of n.
Vouches(n, b, h, s) ==
  /\ h \in Issued /\ s \in Issued
  /\ h # s => b = "previous" /\ Retired(h) /\ (cred[n].prev = h => cred[n].hash = s)

\* What the call was begun with.
BegunWell(k) ==
  /\ k.secret \in Issued
  /\ k.kind = "claimed" => k.seen.state \in Alive /\ MatchedBases(k.seen, "claimed", k.secret, k.begun) # {}
  /\ k.stage = "which" => /\ k.kind = "claimed" /\ k.seen.state = "rotation_grace" /\ k.seen.look = NoSecret
                          /\ k.basis \in MatchedBases(k.seen, "claimed", k.secret, k.begun)
  /\ k.kind = "register" => k.seen.hash = k.secret
  /\ k.kind = "recover" => k.seen.recovery = k.secret
  /\ k.kind = "abandon" => k.seen.handle = k.secret

CallTrue(k) ==
  /\ k.stage \in {"verify", "which", "scan"} =>
       /\ BegunWell(k) /\ SeenGood(k.name, k.seen)
       /\ k.fresh /\ peer.stage # "bump" => Agrees(k.name, k.seen)
  /\ k.stage \in {"granted", "late"} =>
       /\ k.kind \in {"claimed", "token", "register"} => Vouches(k.name, k.basis, k.hash, k.secret)
       /\ k.kind \in {"recover", "abandon"} => k.hash = k.secret

EntryGood(s, e) ==
  e # NoEntry =>
    /\ Vouches(e.name, e.basis, e.hash, s)
    /\ peer.stage # "bump" =>
         /\ StillGood(cred[e.name], e.basis, e.hash, clock)
         /\ e.basis = "previous" => e.until <= cred[e.name].until

\* No token is on two rows, or twice on one.
UniqueTokens ==
  /\ \A n \in Names : cred[n].hash \in Issued \cup {NoSecret}
                      /\ cred[n].prev \in Issued \cup {NoSecret}
  /\ \A n, m \in Names : cred[n].hash = cred[m].hash /\ cred[n].hash # NoSecret => n = m
  /\ \A n, m \in Names : cred[n].prev = cred[m].prev /\ cred[n].prev # NoSecret => n = m
  /\ \A n, m \in Names : cred[n].hash = cred[m].prev => cred[n].hash = NoSecret

AuthInv ==
  /\ AuthTypeOK /\ DigestOfToken /\ UniqueTokens
  /\ \A c \in Calls : CallTrue(call[c])
  /\ \A s \in Secrets : EntryGood(s, authCache[s])

\* What any step does to the rows: at most one has its tokens moved, the new ones new.
RowsMove ==
  /\ cred' \in [Names -> CredRow]
  /\ \A n \in Names : RowMove(cred[n], cred'[n], nextSecret)
  /\ \E n \in Names : \A m \in Names \ {n} : cred'[m].hash = cred[m].hash /\ cred'[m].prev = cred[m].prev
  /\ nextSecret \in Nat /\ nextSecret' \in Nat /\ nextSecret <= nextSecret' /\ nextSecret' <= MaxSecrets + 1
  /\ \A n \in Names : cred'[n].hash = nextSecret => nextSecret < nextSecret'

QuietRows == \A n \in Names : Quiet(cred[n], cred'[n])

LEMMA AuthOpened ==
  ASSUME AuthInv
  PROVE  /\ AuthTypeOK /\ DigestOfToken /\ UniqueTokens
         /\ \A n \in Names : RowGood(cred[n])
         /\ \A c \in Calls : call[c] \in CallRow /\ CallTrue(call[c])
         /\ \A s \in Secrets : authCache[s] \in CacheEntry \cup {NoEntry} /\ EntryGood(s, authCache[s])
         /\ nextSecret \in Nat /\ nextSecret > 0 /\ nextSecret <= MaxSecrets + 1 /\ MaxSecrets \in Nat
         /\ clock \in Nat /\ Issued \subseteq Secrets /\ NoSecret \notin Issued
BY AuthBounds DEF AuthInv, AuthTypeOK, RowGood, DigestOfToken, Issued, Secrets, NoSecret

\* The writers issue what they say.
LEMMA IssuedNext ==
  ASSUME AuthInv, NEW k \in 1 .. 2, CanGenerate(k)
  PROVE  /\ nextSecret \in Secrets /\ nextSecret # NoSecret /\ nextSecret \notin Issued
         /\ nextSecret + k <= MaxSecrets + 1 /\ nextSecret + k > nextSecret
         /\ k = 2 => nextSecret + 1 \in Secrets
BY AuthOpened DEF CanGenerate, Secrets, NoSecret, Issued

\* The unchanging rows, and a single row that moves.
LEMMA OneRowMoves ==
  ASSUME AuthInv, NEW n \in Names, NEW row, RowMove(cred[n], row, nextSecret), cred' = [cred EXCEPT ![n] = row],
         NEW k \in 0 .. 2, nextSecret' = nextSecret + k, nextSecret + k <= MaxSecrets + 1,
         k = 0 => row.hash # nextSecret
  PROVE  RowsMove /\ \A m \in Names : cred'[m] = IF m = n THEN row ELSE cred[m]
<1>1. cred \in [Names -> CredRow] /\ row \in CredRow
  BY DEF AuthInv, AuthTypeOK, RowMove, RowGood
<1>2. \A m \in Names : cred'[m] = IF m = n THEN row ELSE cred[m]
  BY <1>1
<1>3. cred' \in [Names -> CredRow]
  BY <1>1
<1>4. \A m \in Names : RowMove(cred[m], cred'[m], nextSecret)
  BY <1>2, AuthOpened, SameRow
<1>5. \A m \in Names : cred[m].hash # nextSecret
  BY AuthOpened DEF UniqueTokens, Issued, NoSecret
<1>6. nextSecret \in Nat /\ nextSecret' \in Nat /\ nextSecret <= nextSecret' /\ (k > 0 => nextSecret < nextSecret')
  BY AuthOpened
<1> QED BY <1>2, <1>3, <1>4, <1>5, <1>6 DEF RowsMove

LEMMA NoRowMoves ==
  ASSUME AuthInv, cred' = cred, nextSecret' = nextSecret
  PROVE  RowsMove /\ QuietRows
<1>1. PICK n \in Names : TRUE
  BY AuthBounds
<1>2. \A m \in Names : cred[m].hash # nextSecret
  BY AuthOpened DEF UniqueTokens, Issued, NoSecret
<1>3. \A m \in Names : RowMove(cred[m], cred'[m], nextSecret) /\ Quiet(cred[m], cred'[m])
  BY AuthOpened, SameRow DEF Quiet
<1>4. cred' \in [Names -> CredRow]
  BY AuthOpened DEF AuthTypeOK
<1> QED BY <1>1, <1>2, <1>3, <1>4, AuthOpened DEF RowsMove, QuietRows

LEMMA NumbersBelow ==
  ASSUME NEW a \in Nat, NEW b \in Nat, a <= b
  PROVE  (1 .. a - 1) \subseteq (1 .. b - 1) /\ (0 < a /\ a < b => a \in 1 .. b - 1)
OBVIOUS

\* What was said of a token or a row stays true whatever moves.
LEMMA Carries ==
  ASSUME AuthInv, RowsMove
  PROVE  /\ Issued \subseteq Issued' /\ nextSecret \notin Issued
         /\ \A s : Retired(s) => Retired(s)'
         /\ \A n \in Names : \A v : SeenGood(n, v) => SeenGood(n, v)'
         /\ \A n \in Names : \A b, h, s : Vouches(n, b, h, s) => Vouches(n, b, h, s)'
         /\ UniqueTokens' /\ DigestOfToken'
         /\ \A n \in Names : RowGood(cred'[n])
<1>0. /\ nextSecret \in Nat /\ nextSecret > 0 /\ nextSecret' \in Nat /\ nextSecret <= nextSecret'
      /\ nextSecret < nextSecret' => nextSecret \in Issued'
  <2>1. nextSecret \in Nat /\ nextSecret > 0
    BY AuthOpened
  <2>2. nextSecret' \in Nat /\ nextSecret <= nextSecret'
    BY DEF RowsMove
  <2>3. Issued' = 1 .. nextSecret' - 1
    BY DEF Issued
  <2>4. nextSecret < nextSecret' => nextSecret \in 1 .. nextSecret' - 1
    BY <2>1, <2>2, NumbersBelow
  <2> QED BY <2>1, <2>2, <2>3, <2>4
<1>1. Issued \subseteq Issued' /\ nextSecret \notin Issued /\ NoSecret \notin Issued /\ NoSecret # nextSecret
  <2>2. nextSecret \notin Issued /\ NoSecret \notin Issued /\ NoSecret # nextSecret
    BY <1>0 DEF NoSecret, Issued
  <2>3. 1 .. nextSecret - 1 \subseteq 1 .. nextSecret' - 1
    BY <1>0, NumbersBelow
  <2>4. Issued \subseteq Issued'
    BY <2>3 DEF Issued
  <2> QED BY <2>2, <2>4
<1>2. \A n \in Names : TokensMove(cred[n], cred'[n], nextSecret) /\ RowGood(cred'[n])
  BY DEF RowsMove, RowMove
<1>3. ASSUME NEW s, Retired(s) PROVE Retired(s)'
  BY <1>1, <1>2, <1>3 DEF Retired, TokensMove
<1>4. ASSUME NEW n \in Names, NEW s, s # NoSecret, Retired(s), cred'[n].prev = s
      PROVE  cred[n].prev = s /\ cred'[n].hash = cred[n].hash
  BY <1>1, <1>2, <1>4 DEF Retired, TokensMove
<1>5. ASSUME NEW n \in Names, NEW v, SeenGood(n, v) PROVE SeenGood(n, v)'
  <2>1. Retired(v.prev)' /\ v.hash \in Issued' \cup {NoSecret}
    BY <1>1, <1>3, <1>5 DEF SeenGood
  <2>2. v.prev # NoSecret /\ cred'[n].prev = v.prev => cred'[n].hash = v.hash
    BY <1>4, <1>5 DEF SeenGood
  <2> QED BY <1>5, <2>1, <2>2 DEF SeenGood
<1>6. ASSUME NEW n \in Names, NEW b, NEW h, NEW s, Vouches(n, b, h, s) PROVE Vouches(n, b, h, s)'
  <2>1. h \in Issued' /\ s \in Issued'
    BY <1>1, <1>6 DEF Vouches
  <2>2. ASSUME h # s PROVE b = "previous" /\ Retired(h)' /\ (cred'[n].prev = h => cred'[n].hash = s)
    <3>1. b = "previous" /\ Retired(h) /\ (cred[n].prev = h => cred[n].hash = s) /\ h # NoSecret
      BY <1>1, <1>6, <2>2 DEF Vouches
    <3> QED BY <1>3, <1>4, <3>1
  <2> QED BY <2>1, <2>2 DEF Vouches
<1>7. \A n \in Names : cred[n].hash \in Issued \cup {NoSecret} /\ cred[n].prev \in Issued \cup {NoSecret}
  BY AuthOpened DEF UniqueTokens
<1>8. DigestOfToken'
  BY <1>2 DEF RowGood, DigestOfToken
<1>9. UniqueTokens'
  <2>1. PICK o \in Names : \A m \in Names \ {o} : cred'[m].hash = cred[m].hash /\ cred'[m].prev = cred[m].prev
    BY DEF RowsMove
  <2>2. \A n \in Names : cred'[n].hash = nextSecret => nextSecret \in Issued'
    BY <1>0 DEF RowsMove
  <2>3. \A n \in Names : cred'[n].hash \in Issued' \cup {NoSecret} /\ cred'[n].prev \in Issued' \cup {NoSecret}
    BY <1>1, <1>2, <1>7, <2>2 DEF TokensMove
  <2>4. \/ cred'[o].hash = cred[o].hash /\ cred'[o].prev = cred[o].prev
        \/ cred'[o].hash \in {cred[o].hash, NoSecret, nextSecret} /\ cred'[o].prev = NoSecret
        \/ cred'[o].hash = nextSecret /\ cred'[o].prev = cred[o].hash
    BY <1>2 DEF TokensMove
  <2>5. \A n, m \in Names : cred'[n].hash = cred'[m].hash /\ cred'[n].hash # NoSecret => n = m
    BY <1>1, <1>7, <2>1, <2>4, AuthOpened DEF UniqueTokens
  <2>6. \A n, m \in Names : cred'[n].prev = cred'[m].prev /\ cred'[n].prev # NoSecret => n = m
    BY <1>1, <1>7, <2>1, <2>4, AuthOpened DEF UniqueTokens
  <2>7. \A n, m \in Names : cred'[n].hash = cred'[m].prev => cred'[n].hash = NoSecret
    BY <1>1, <1>7, <2>1, <2>4, AuthOpened DEF UniqueTokens
  <2> QED BY <2>3, <2>5, <2>6, <2>7 DEF UniqueTokens
<1> QED BY <1>1, <1>2, <1>3, <1>5, <1>6, <1>8, <1>9

\* A call that was under way, possibly overtaken by an increment of the generation.
LEMMA CallCarries ==
  ASSUME AuthInv, RowsMove, NEW k \in CallRow, CallTrue(k), NEW j, j \in {k, [k EXCEPT !.fresh = FALSE]},
         j.fresh /\ peer'.stage # "bump" => peer.stage # "bump" /\ QuietRows
  PROVE  CallTrue(j)' /\ j \in CallRow
<1>1. /\ j \in CallRow /\ j.stage = k.stage /\ j.kind = k.kind /\ j.name = k.name /\ j.secret = k.secret
      /\ j.seen = k.seen /\ j.begun = k.begun /\ j.basis = k.basis /\ j.hash = k.hash
      /\ (j.fresh => k.fresh) /\ j.name \in Names
  BY DEF CallRow
<1> HIDE DEF CallRow
<1>2. ASSUME j.stage \in {"verify", "which", "scan"}
      PROVE  /\ BegunWell(j)' /\ SeenGood(j.name, j.seen)'
             /\ j.fresh /\ peer'.stage # "bump" => Agrees(j.name, j.seen)'
  <2>1. BegunWell(k) /\ SeenGood(k.name, k.seen)
    BY <1>1, <1>2 DEF CallTrue
  <2>2. BegunWell(j)'
    BY <1>1, <2>1, Carries DEF BegunWell
  <2>3. SeenGood(j.name, j.seen)'
    BY <1>1, <2>1, Carries
  <2>4. j.fresh /\ peer'.stage # "bump" => Agrees(j.name, j.seen)'
    BY <1>1, <1>2 DEF CallTrue, Agrees, Quiet, QuietRows
  <2> QED BY <2>2, <2>3, <2>4
<1>3. ASSUME j.stage \in {"granted", "late"}
      PROVE  /\ j.kind \in {"claimed", "token", "register"} => Vouches(j.name, j.basis, j.hash, j.secret)'
             /\ j.kind \in {"recover", "abandon"} => j.hash = j.secret
  BY <1>1, <1>3, Carries DEF CallTrue
<1> QED BY <1>1, <1>2, <1>3 DEF CallTrue

\* An entry of the cache that stays.
LEMMA EntryCarries ==
  ASSUME AuthInv, RowsMove, clock' \in Nat, NEW s \in Secrets, NEW e \in CacheEntry, EntryGood(s, e),
         peer'.stage # "bump" => peer.stage # "bump" /\ QuietRows /\ (clock' = clock \/ clock' < e.until)
  PROVE  EntryGood(s, e)'
<1>0. clock' \in Nat
  OBVIOUS
<1>1. e # NoEntry /\ e.name \in Names /\ e.until \in Nat
  BY DEF CacheEntry, NoEntry, Secrets, NoSecret
<1>2. Vouches(e.name, e.basis, e.hash, s)'
  BY <1>1, Carries DEF EntryGood
<1>3. ASSUME peer'.stage # "bump"
      PROVE  /\ StillGood(cred'[e.name], e.basis, e.hash, clock')
             /\ e.basis = "previous" => e.until <= cred'[e.name].until
  <2>1. Quiet(cred[e.name], cred'[e.name]) /\ (clock' = clock \/ clock' < e.until)
    BY <1>1, <1>3 DEF QuietRows
  <2>2. /\ StillGood(cred[e.name], e.basis, e.hash, clock)
        /\ e.basis = "previous" => e.until <= cred[e.name].until
    BY <1>1, <1>3 DEF EntryGood
  <2>3. cred[e.name].until \in Nat /\ clock \in Nat
    BY <1>1, AuthOpened DEF RowGood, CredRow
  <2>4. e.basis = "previous" => e.until <= cred'[e.name].until
    BY <2>1, <2>2 DEF Quiet
  <2>5. e.basis = "previous" => ~Expired(cred'[e.name], clock')
    <3>1. CASE clock' = clock
      BY <2>1, <2>2, <3>1 DEF StillGood, Quiet, Expired
    <3>2. CASE clock' < e.until
      BY <1>0, <1>1, <2>1, <2>3, <2>4, <3>2 DEF Quiet, Expired
    <3> QED BY <2>1, <3>1, <3>2
  <2>6. /\ cred'[e.name].state \in {"active", "rotation_grace"}
        /\ e.hash # NoSecret /\ HashOf(cred'[e.name], e.basis) = e.hash
        /\ e.basis = "previous" => cred'[e.name].state = "rotation_grace"
    BY <2>1, <2>2 DEF StillGood, Quiet, HashOf
  <2> QED BY <2>4, <2>5, <2>6 DEF StillGood
<1> QED BY <1>2, <1>3 DEF EntryGood
DeedStep == did' = NoDeed \/ \E n \in Names : \E s \in LiveSecrets(n) : did' = [name |-> n, secret |-> s]

StepWell == AuthInv' /\ RowsMove /\ DeedStep /\ (clock' = clock \/ (clock' = clock + 1 /\ cred' = cred))

OnlyCaller(c) == \A d \in Calls \ {c} : call'[d].stage = call[d].stage

EstablishedBy(c) ==
  \A n \in Names : ~cred[n].established /\ cred'[n].established =>
    /\ call[c].name = n
    /\ \/ call[c].secret \in {cred[n].hash, cred[n].prev, cred[n].recovery} \ {NoSecret}
       \/ call[c].kind = "new" /\ cred[n].state = "recovery_pending"

CallWell(c) == StepWell /\ OnlyCaller(c) /\ EstablishedBy(c)

LEMMA Nothings ==
  /\ NoDeed \in [name : Names, secret : Secrets \cup {NoSecret}] /\ NoDeed.secret = NoSecret /\ NoDeed.name \in Names
  /\ IdlePeer \in PeerRow /\ IdlePeer.stage = "idle"
  /\ IdleCall \in CallRow /\ IdleCall.stage = "idle"
  /\ NoEntry \notin CacheEntry /\ NoEntry.until = 0
<1>1. (CHOOSE n \in Names : TRUE) \in Names
  BY AuthBounds
<1>2. NoSecret \notin Secrets
  BY DEF NoSecret, Secrets
<1>3. NoRow \in CredRow
  BY EmptyRow DEF RowGood
<1>4. NoDeed \in [name : Names, secret : Secrets \cup {NoSecret}] /\ NoDeed.secret = NoSecret /\ NoDeed.name \in Names
  BY <1>1 DEF NoDeed
<1>5. IdlePeer \in PeerRow /\ IdlePeer.stage = "idle"
  BY <1>1 DEF IdlePeer, PeerRow
<1>6. IdleCall \in CallRow /\ IdleCall.stage = "idle"
  BY <1>1, <1>3 DEF IdleCall, CallRow, Kinds, Bases
<1>7. NoEntry \notin CacheEntry /\ NoEntry.until = 0
  BY <1>2 DEF NoEntry, CacheEntry
<1> QED BY <1>4, <1>5, <1>6, <1>7

LEMMA DeedIsTyped ==
  ASSUME DeedStep PROVE did' \in [name : Names, secret : Secrets \cup {NoSecret}]
BY Nothings DEF DeedStep, LiveSecrets

\* Whoever passes the dispatcher's second look presents a token that authenticates it now.
LEMMA AuthorizedIsLive ==
  ASSUME AuthInv, NEW c \in Calls, call[c].stage \in {"granted", "late"}, Authorized(c)
  PROVE  call[c].name \in Names /\ call[c].secret \in LiveSecrets(call[c].name)
<1> DEFINE n == call[c].name
           s == call[c].secret
           h == call[c].hash
           b == call[c].basis
<1>1. n \in Names /\ b \in Bases /\ Vouches(n, b, h, s)
  BY AuthOpened DEF CallRow, CallTrue, Authorized
<1>2. s \in Secrets /\ s # NoSecret
  BY <1>1, AuthOpened DEF Vouches
<1>3. StillGood(cred[n], b, h, clock)
  BY DEF Authorized
<1> HIDE DEF n, s, h, b
<1>4. \E a \in Bases : s = HashOf(cred[n], a) /\ StillGood(cred[n], a, s, clock)
  <2>1. CASE h = s
    BY <1>1, <1>3, <2>1 DEF StillGood
  <2>2. CASE h # s
    <3>1. b = "previous" /\ cred[n].prev = h /\ cred[n].hash = s
      BY <1>1, <1>3, <2>2 DEF Vouches, StillGood, HashOf
    <3>2. StillGood(cred[n], "current", s, clock)
      BY <1>2, <1>3, <3>1 DEF StillGood, HashOf
    <3> QED BY <3>1, <3>2 DEF Bases, HashOf
  <2> QED BY <2>1, <2>2
<1>5. s \in LiveSecrets(n)
  BY <1>2, <1>4 DEF LiveSecrets
<1> QED BY <1>1, <1>5 DEF n, s

\* From the parts to the whole.
LEMMA InvAssembled ==
  ASSUME AuthInv, RowsMove, peer' \in PeerRow, clock' \in 0 .. MaxNow, DeedStep,
         call' \in [Calls -> CallRow], \A d \in Calls : CallTrue(call[d])',
         authCache' \in [Secrets -> CacheEntry \cup {NoEntry}],
         \A s \in Secrets : EntryGood(s, authCache[s])'
  PROVE  AuthInv'
<1>1. nextSecret' \in 1 .. MaxSecrets + 1
  BY AuthOpened DEF RowsMove
<1>2. cred' \in [Names -> CredRow] /\ \A n \in Names : RowCoherent(cred'[n])
  BY Carries DEF RowsMove, RowGood
<1>3. AuthTypeOK'
  BY <1>1, <1>2, DeedIsTyped DEF AuthTypeOK
<1> QED BY <1>3, Carries DEF AuthInv

\* A step of one call, which may add a verdict to the cache.
LEMMA CallProceeds ==
  ASSUME AuthInv, RowsMove, QuietRows, UNCHANGED <<peer, clock>>, DeedStep,
         NEW c \in Calls, NEW k \in CallRow, CallTrue(k), call' = [call EXCEPT ![c] = k],
         \/ authCache' = authCache
         \/ \E s \in Secrets : \E e \in CacheEntry :
              EntryGood(s, e) /\ authCache' = [authCache EXCEPT ![s] = e]
  PROVE  StepWell /\ OnlyCaller(c)
<1>1. call \in [Calls -> CallRow] /\ authCache \in [Secrets -> CacheEntry \cup {NoEntry}]
      /\ peer \in PeerRow /\ clock \in 0 .. MaxNow
  BY DEF AuthInv, AuthTypeOK
<1>2. call' \in [Calls -> CallRow] /\ \A d \in Calls : call'[d] = IF d = c THEN k ELSE call[d]
  BY <1>1
<1>3. ASSUME NEW j \in CallRow, CallTrue(j) PROVE CallTrue(j)'
  BY <1>3, CallCarries
<1>4. ASSUME NEW d \in Calls PROVE CallTrue(call[d])'
  <2>1. PICK j \in CallRow : j = call'[d] /\ CallTrue(j)
    BY <1>2, AuthOpened
  <2> QED BY <1>3, <2>1 DEF CallTrue
<1>5. ASSUME NEW s \in Secrets, NEW e \in CacheEntry \cup {NoEntry}, EntryGood(s, e) PROVE EntryGood(s, e)'
  <2>1. CASE e = NoEntry
    BY <2>1 DEF EntryGood
  <2>2. CASE e \in CacheEntry
    BY <1>1, <1>5, <2>2, EntryCarries
  <2> QED BY <2>1, <2>2
<1>6. /\ authCache' \in [Secrets -> CacheEntry \cup {NoEntry}]
      /\ \A s \in Secrets : \E e \in CacheEntry \cup {NoEntry} : e = authCache'[s] /\ EntryGood(s, e)
  <2>1. CASE authCache' = authCache
    BY <1>1, <2>1, AuthOpened
  <2>2. CASE \E s \in Secrets : \E e \in CacheEntry : EntryGood(s, e) /\ authCache' = [authCache EXCEPT ![s] = e]
    BY <1>1, <2>2, AuthOpened
  <2> QED BY <2>1, <2>2
<1>7. ASSUME NEW s \in Secrets PROVE EntryGood(s, authCache[s])'
  <2>1. PICK e \in CacheEntry \cup {NoEntry} : e = authCache'[s] /\ EntryGood(s, e)
    BY <1>6
  <2>2. EntryGood(s, e)'
    BY <1>5, <2>1
  <2> QED BY <2>1, <2>2 DEF EntryGood
<1>8. AuthInv'
  BY <1>1, <1>2, <1>4, <1>6, <1>7, InvAssembled
<1>9. RowsMove /\ DeedStep /\ clock' = clock
  OBVIOUS
<1>10. StepWell
  BY <1>8, <1>9, Zenon DEF StepWell
<1>11. OnlyCaller(c)
  BY <1>2 DEF OnlyCaller
<1> QED BY <1>10, <1>11

LEMMA FreshFalse ==
  ASSUME NEW k \in CallRow
  PROVE  [k EXCEPT !.fresh = FALSE] \in CallRow /\ ~[k EXCEPT !.fresh = FALSE].fresh
BY DEF CallRow

\* A write of the daemon itself, or the increment that another process owed.
LEMMA Overtakes ==
  ASSUME AuthInv, RowsMove, clock' = clock, peer' \in PeerRow, DeedStep, authCache' = EmptyCache,
         NEW calls \in [Calls -> CallRow], call' = Stale(calls),
         \A d \in Calls : calls[d] = call[d] \/ calls[d] = IdleCall
  PROVE  StepWell
<1>1. clock' \in 0 .. MaxNow
  BY DEF AuthInv, AuthTypeOK
<1>2. ASSUME NEW d \in Calls PROVE call'[d] = [calls[d] EXCEPT !.fresh = FALSE] /\ call'[d] \in CallRow
  BY DEF Stale, CallRow
<1>3. call' \in [Calls -> CallRow]
  BY <1>2 DEF Stale
<1>4. ASSUME NEW d \in Calls PROVE CallTrue(call[d])'
  <2>1. CASE calls[d] = IdleCall
    <3>1. PICK k \in CallRow : k = call'[d] /\ k.stage = "idle"
      BY <1>2, <2>1, Nothings DEF CallRow
    <3> QED BY <3>1 DEF CallTrue
  <2>2. CASE calls[d] = call[d]
    <3>1. PICK k \in CallRow : k = call[d] /\ CallTrue(k)
      BY AuthOpened
    <3>2. PICK j \in CallRow : j = call'[d] /\ j = [k EXCEPT !.fresh = FALSE] /\ ~j.fresh
      BY <1>2, <2>2, <3>1, FreshFalse
    <3>3. CallTrue(j)'
      BY <3>1, <3>2, CallCarries
    <3> QED BY <3>2, <3>3 DEF CallTrue
  <2> QED BY <2>1, <2>2
<1>5. authCache' \in [Secrets -> CacheEntry \cup {NoEntry}] /\ \A s \in Secrets : authCache'[s] = NoEntry
  BY DEF EmptyCache
<1>6. \A s \in Secrets : EntryGood(s, authCache[s])'
  BY <1>5 DEF EntryGood
<1>7. AuthInv'
  BY <1>1, <1>3, <1>4, <1>5, <1>6, InvAssembled
<1>8. RowsMove /\ DeedStep /\ clock' = clock
  OBVIOUS
<1> QED BY <1>7, <1>8, Zenon DEF StepWell

\* Another process, the end of a session, the loss of the lookup key, time.
LEMMA Elsewhere ==
  ASSUME AuthInv, RowsMove, clock' \in 0 .. MaxNow, peer' \in PeerRow, did' = NoDeed, call' = call,
         clock' = clock \/ (clock' = clock + 1 /\ cred' = cred),
         peer'.stage # "bump" => peer.stage # "bump" /\ QuietRows,
         authCache' \in [Secrets -> CacheEntry \cup {NoEntry}],
         \A s \in Secrets : \/ authCache'[s] = NoEntry
                            \/ authCache'[s] = authCache[s] /\ (clock' = clock \/ clock' < authCache[s].until)
  PROVE  StepWell
<1>1. DeedStep
  BY DEF DeedStep
<1>2. call \in [Calls -> CallRow]
  BY DEF AuthInv, AuthTypeOK
<1>3. ASSUME NEW d \in Calls PROVE CallTrue(call[d])'
  <2>1. PICK k \in CallRow : k = call[d] /\ CallTrue(k)
    BY AuthOpened
  <2>2. CallTrue(k)'
    BY <2>1, CallCarries
  <2> QED BY <2>1, <2>2 DEF CallTrue
<1>4. ASSUME NEW s \in Secrets PROVE EntryGood(s, authCache[s])'
  <2>1. CASE authCache'[s] = NoEntry
    BY <2>1 DEF EntryGood
  <2>2. CASE authCache'[s] # NoEntry
    <3>1. PICK e \in CacheEntry : e = authCache[s] /\ EntryGood(s, e) /\ e = authCache'[s]
                                  /\ (clock' = clock \/ clock' < e.until)
      BY <2>2, AuthOpened
    <3>2. EntryGood(s, e)'
      BY <3>1, EntryCarries
    <3> QED BY <3>1, <3>2 DEF EntryGood
  <2> QED BY <2>1, <2>2
<1>5. AuthInv'
  BY <1>1, <1>2, <1>3, <1>4, InvAssembled
<1> QED BY <1>1, <1>5 DEF StepWell
LEMMA OldTokens ==
  ASSUME AuthInv PROVE NoSecret # nextSecret /\ \A n \in Names : cred[n].hash # nextSecret
BY AuthOpened DEF UniqueTokens, Issued, NoSecret

LEMMA PeerWrites ==
  ASSUME AuthInv, NEW n \in Names, NEW row, NEW k \in 0 .. 2, PeerCommit(n, row, k),
         RowMove(cred[n], row, nextSecret), nextSecret + k <= MaxSecrets + 1, k = 0 => row.hash # nextSecret
  PROVE  StepWell /\ call' = call
<1>1. /\ cred' = [cred EXCEPT ![n] = row] /\ nextSecret' = nextSecret + k
      /\ peer' = [IdlePeer EXCEPT !.stage = "bump"]
      /\ authCache' = authCache /\ call' = call /\ clock' = clock /\ did' = NoDeed
  BY DEF PeerCommit, Keep
<1>2. RowsMove
  BY <1>1, OneRowMoves
<1>3. peer' \in PeerRow /\ peer'.stage = "bump"
  BY <1>1, Nothings DEF PeerRow
<1>4. clock' \in 0 .. MaxNow /\ authCache' \in [Secrets -> CacheEntry \cup {NoEntry}]
  BY <1>1 DEF AuthInv, AuthTypeOK
<1>5. StepWell
  BY <1>1, <1>2, <1>3, <1>4, Elsewhere
<1> QED BY <1>1, <1>5

LEMMA StepPeerRegister ==
  ASSUME AuthInv, NEW n \in Names, PeerRegister(n) PROVE StepWell /\ call' = call
<1>1. cred[n].state = "none" /\ CanGenerate(2) /\ PeerCommit(n, Registered(nextSecret, nextSecret + 1), 2)
  BY DEF PeerRegister
<1>2. /\ nextSecret \in Secrets /\ nextSecret + 1 \in Secrets /\ nextSecret + 2 <= MaxSecrets + 1 /\ 2 \in 0 .. 2
      /\ ~(2 = 0)
  BY <1>1, IssuedNext
<1>3. RowMove(cred[n], Registered(nextSecret, nextSecret + 1), nextSecret)
  BY <1>1, <1>2, RegisteredRow
<1> QED BY <1>1, <1>2, <1>3, PeerWrites

LEMMA StepPeerMint ==
  ASSUME AuthInv, NEW n \in Names, PeerMint(n) PROVE StepWell /\ call' = call
<1>1. cred[n].state = "none" /\ CanGenerate(1) /\ PeerCommit(n, Minted(nextSecret), 1)
  BY DEF PeerMint
<1>2. nextSecret \in Secrets /\ nextSecret + 1 <= MaxSecrets + 1 /\ 1 \in 0 .. 2 /\ ~(1 = 0)
  BY <1>1, IssuedNext
<1>3. RowMove(cred[n], Minted(nextSecret), nextSecret)
  BY <1>1, <1>2, MintedRow
<1> QED BY <1>1, <1>2, <1>3, PeerWrites

LEMMA StepPeerRevoke ==
  ASSUME AuthInv, NEW n \in Names, PeerRevoke(n) PROVE StepWell /\ call' = call
<1>1. cred[n].state \in Revocable /\ RowGood(cred[n])
  BY AuthOpened DEF PeerRevoke
<1>2. CASE PeerCommit(n, Revoked(cred[n], NoSecret), 0)
  <2>1. nextSecret + 0 <= MaxSecrets + 1 /\ 0 \in 0 .. 2
    BY AuthOpened
  <2>2. RowMove(cred[n], Revoked(cred[n], NoSecret), nextSecret) /\ Revoked(cred[n], NoSecret).hash # nextSecret
    BY <1>1, RevokedRow, OldTokens
  <2> QED BY <1>2, <2>1, <2>2, PeerWrites
<1>3. CASE CanGenerate(1) /\ PeerCommit(n, Revoked(cred[n], nextSecret), 1)
  <2>1. nextSecret \in Secrets /\ nextSecret + 1 <= MaxSecrets + 1 /\ 1 \in 0 .. 2 /\ ~(1 = 0)
    BY <1>3, IssuedNext
  <2>2. RowMove(cred[n], Revoked(cred[n], nextSecret), nextSecret)
    BY <1>1, <2>1, RevokedRow
  <2> QED BY <1>3, <2>1, <2>2, PeerWrites
<1> QED BY <1>2, <1>3 DEF PeerRevoke

LEMMA StepPeerRemove ==
  ASSUME AuthInv, NEW n \in Names, PeerRemove(n) PROVE StepWell /\ call' = call
<1>1. PeerCommit(n, NoRow, 0) /\ nextSecret + 0 <= MaxSecrets + 1 /\ 0 \in 0 .. 2
  BY AuthOpened DEF PeerRemove
<1>2. RowMove(cred[n], NoRow, nextSecret) /\ NoRow.hash # nextSecret
  BY EmptyRow, RemovedRow, OldTokens
<1> QED BY <1>1, <1>2, PeerWrites

\* A write that leaves every verdict as it is.
LEMMA QuietWrite ==
  ASSUME AuthInv, NEW n \in Names, NEW row, cred' = [cred EXCEPT ![n] = row], nextSecret' = nextSecret,
         RowMove(cred[n], row, nextSecret), Quiet(cred[n], row)
  PROVE  RowsMove /\ QuietRows /\ \A m \in Names : cred'[m] = IF m = n THEN row ELSE cred[m]
<1>1. row.hash # nextSecret
  BY OldTokens DEF Quiet
<1>2. 0 \in 0 .. 2 /\ nextSecret' = nextSecret + 0 /\ nextSecret + 0 <= MaxSecrets + 1
  BY AuthOpened
<1>3. RowsMove /\ \A m \in Names : cred'[m] = IF m = n THEN row ELSE cred[m]
  BY <1>1, <1>2, OneRowMoves
<1> QED BY <1>3 DEF QuietRows, Quiet

LEMMA StepPeerServes ==
  ASSUME AuthInv, NEW n \in Names, PeerServes(n) PROVE StepWell /\ call' = call
<1>1. RowGood(cred[n])
  BY AuthOpened
<1>2. CASE /\ cred[n].state = "recovery_pending" /\ CanGenerate(1)
           /\ PeerCommit(n, Recovered(cred[n], nextSecret), 1)
  <2>1. nextSecret \in Secrets /\ nextSecret + 1 <= MaxSecrets + 1 /\ 1 \in 0 .. 2 /\ ~(1 = 0)
    BY <1>2, IssuedNext
  <2>2. RowMove(cred[n], Recovered(cred[n], nextSecret), nextSecret)
    BY <1>1, <1>2, <2>1, RecoveredRow
  <2> QED BY <1>2, <2>1, <2>2, PeerWrites
<1>3. CASE cred' = [cred EXCEPT ![n] = Established(cred[n])] /\ Keep(<<authCache, call, peer, nextSecret, clock>>)
  <2>1. RowMove(cred[n], Established(cred[n]), nextSecret) /\ Quiet(cred[n], Established(cred[n]))
    BY <1>1, EstablishedRow
  <2>2. /\ authCache' = authCache /\ call' = call /\ peer' = peer /\ clock' = clock /\ did' = NoDeed
        /\ nextSecret' = nextSecret
    BY <1>3 DEF Keep
  <2>3. RowsMove /\ QuietRows
    BY <1>3, <2>1, <2>2, QuietWrite
  <2>4. clock' \in 0 .. MaxNow /\ peer' \in PeerRow /\ authCache' \in [Secrets -> CacheEntry \cup {NoEntry}]
    BY <2>2 DEF AuthInv, AuthTypeOK
  <2>5. StepWell
    BY <2>2, <2>3, <2>4, Elsewhere
  <2> QED BY <2>2, <2>5
<1> QED BY <1>2, <1>3 DEF PeerServes

LEMMA StepSessionEnds ==
  ASSUME AuthInv, NEW n \in Names, SessionEnds(n) PROVE StepWell /\ call' = call
<1>1. RowGood(cred[n]) /\ cred \in [Names -> CredRow]
  BY AuthOpened DEF AuthTypeOK
<1>2. PICK row : row = [cred[n] EXCEPT !.held = FALSE]
  OBVIOUS
<1>3. cred' = [cred EXCEPT ![n] = row]
  BY <1>2 DEF SessionEnds
<1>4. RowMove(cred[n], row, nextSecret) /\ Quiet(cred[n], row)
  BY <1>1, <1>2, HeldRow
<1>5. /\ authCache' = authCache /\ call' = call /\ peer' = peer /\ clock' = clock /\ did' = NoDeed
      /\ nextSecret' = nextSecret
  BY DEF SessionEnds, Keep
<1>6. RowsMove /\ QuietRows
  BY <1>3, <1>4, <1>5, QuietWrite
<1>7. clock' \in 0 .. MaxNow /\ peer' \in PeerRow /\ authCache' \in [Secrets -> CacheEntry \cup {NoEntry}]
  BY <1>5 DEF AuthInv, AuthTypeOK
<1>8. StepWell
  BY <1>5, <1>6, <1>7, Elsewhere
<1> QED BY <1>5, <1>8

LEMMA StepPeerRead ==
  ASSUME AuthInv, NEW n \in Names, NEW op \in {"mint", "rotate", "sweep"}, PeerRead(n, op)
  PROVE  StepWell /\ call' = call
<1>1. /\ authCache' = authCache /\ call' = call /\ clock' = clock /\ did' = NoDeed
      /\ nextSecret' = nextSecret /\ cred' = cred /\ peer.stage = "idle"
      /\ peer' = [stage |-> "read", op |-> op, name |-> n, hash |-> cred[n].hash]
  BY DEF PeerRead, Keep
<1>2. cred[n].hash \in Secrets \cup {NoSecret}
  BY AuthOpened DEF RowGood, CredRow
<1>3. peer' \in PeerRow
  BY <1>1, <1>2 DEF PeerRow
<1>4. RowsMove /\ QuietRows
  BY <1>1, NoRowMoves
<1>5. clock' \in 0 .. MaxNow /\ authCache' \in [Secrets -> CacheEntry \cup {NoEntry}]
  BY <1>1 DEF AuthInv, AuthTypeOK
<1>6. StepWell
  BY <1>1, <1>3, <1>4, <1>5, Elsewhere
<1> QED BY <1>1, <1>6

LEMMA StepPeerWrite ==
  ASSUME AuthInv, PeerWrite PROVE StepWell /\ call' = call
<1>1. PICK n \in Names : n = peer.name
  BY DEF AuthInv, AuthTypeOK, PeerRow
<1>2. PICK r : r = cred[n] /\ RowGood(r)
  BY AuthOpened
<1>3. peer.stage = "read"
  BY DEF PeerWrite
<1>4. CASE PeerMatches(r) /\ peer.op = "mint" /\ CanGenerate(1) /\ PeerCommit(n, ForceMinted(r, nextSecret), 1)
  <2>1. nextSecret \in Secrets /\ nextSecret + 1 <= MaxSecrets + 1 /\ 1 \in 0 .. 2 /\ ~(1 = 0)
    BY <1>4, IssuedNext
  <2>2. r.state \in {"active", "rotation_grace", "legacy_bootstrap"}
    BY <1>4 DEF PeerMatches
  <2>3. RowMove(cred[n], ForceMinted(r, nextSecret), nextSecret)
    BY <1>2, <2>1, <2>2, ForceMintedRow
  <2> QED BY <1>4, <2>1, <2>3, PeerWrites
<1>5. CASE /\ PeerMatches(r) /\ peer.op = "rotate" /\ CanGenerate(1)
           /\ \/ PeerCommit(n, RotatedHard(r, nextSecret), 1)
              \/ PeerCommit(n, RotatedGrace(r, nextSecret), 1)
  <2>1. nextSecret \in Secrets /\ nextSecret + 1 <= MaxSecrets + 1 /\ 1 \in 0 .. 2 /\ ~(1 = 0)
    BY <1>5, IssuedNext
  <2>2. r.state = "active" /\ clock \in Nat
    BY <1>5, AuthOpened DEF PeerMatches
  <2>3. RowMove(cred[n], RotatedHard(r, nextSecret), nextSecret)
    BY <1>2, <2>1, <2>2, RotatedHardRow
  <2>4. RowMove(cred[n], RotatedGrace(r, nextSecret), nextSecret)
    BY <1>2, <2>1, <2>2, RotatedGraceRow
  <2>5. CASE PeerCommit(n, RotatedHard(r, nextSecret), 1)
    BY <2>1, <2>3, <2>5, PeerWrites
  <2>6. CASE PeerCommit(n, RotatedGrace(r, nextSecret), 1)
    BY <2>1, <2>4, <2>6, PeerWrites
  <2> QED BY <1>5, <2>5, <2>6
<1>6. CASE PeerMatches(r) /\ peer.op = "sweep" /\ PeerCommit(n, Swept(r), 0)
  <2>1. r.state = "rotation_grace"
    BY <1>6 DEF PeerMatches
  <2>2. RowMove(cred[n], Swept(r), nextSecret) /\ Swept(r).hash # nextSecret
    BY <1>2, <2>1, SweptRow, OldTokens
  <2>3. nextSecret + 0 <= MaxSecrets + 1 /\ 0 \in 0 .. 2
    BY AuthOpened
  <2> QED BY <1>6, <2>2, <2>3, PeerWrites
<1>7. CASE peer' = IdlePeer /\ Keep(<<cred, authCache, call, nextSecret, clock>>)
  <2>1. /\ authCache' = authCache /\ call' = call /\ clock' = clock /\ did' = NoDeed
        /\ nextSecret' = nextSecret /\ cred' = cred /\ peer' = IdlePeer
    BY <1>7 DEF Keep
  <2>2. RowsMove /\ QuietRows /\ peer' \in PeerRow
    BY <2>1, NoRowMoves, Nothings
  <2>3. clock' \in 0 .. MaxNow /\ authCache' \in [Secrets -> CacheEntry \cup {NoEntry}]
    BY <2>1 DEF AuthInv, AuthTypeOK
  <2>4. StepWell
    BY <1>3, <2>1, <2>2, <2>3, Elsewhere
  <2> QED BY <2>1, <2>4
<1> QED BY <1>1, <1>2, <1>4, <1>5, <1>6, <1>7 DEF PeerWrite

LEMMA StepLoseLookupKey ==
  ASSUME AuthInv, LoseLookupKey PROVE StepWell /\ call' = call
<1>1. /\ authCache' = EmptyCache /\ call' = call /\ clock' = clock /\ did' = NoDeed
      /\ nextSecret' = nextSecret /\ peer' = peer
      /\ cred' = [n \in Names |-> [cred[n] EXCEPT !.look = NoSecret, !.plook = NoSecret]]
  BY DEF LoseLookupKey, Keep
<1>2. ASSUME NEW n \in Names
      PROVE  RowMove(cred[n], cred'[n], nextSecret) /\ Quiet(cred[n], cred'[n]) /\ cred'[n] \in CredRow
  BY <1>1, AuthOpened, KeylessRow DEF RowMove, RowGood
<1>3. cred' \in [Names -> CredRow]
  BY <1>1, <1>2
<1>4. QuietRows
  BY <1>2 DEF QuietRows
<1>5. \A n \in Names : cred'[n].hash # nextSecret /\ cred'[n].hash = cred[n].hash /\ cred'[n].prev = cred[n].prev
  BY <1>2, OldTokens DEF Quiet
<1>6. PICK n \in Names : TRUE
  BY AuthBounds
<1>7. RowsMove
  <2>1. \A m \in Names \ {n} : cred'[m].hash = cred[m].hash /\ cred'[m].prev = cred[m].prev
    BY <1>5
  <2>0. nextSecret' = nextSecret
    BY <1>1
  <2>2. nextSecret \in Nat /\ nextSecret' \in Nat /\ nextSecret <= nextSecret' /\ nextSecret' <= MaxSecrets + 1
    BY <2>0, AuthOpened
  <2> QED BY <1>2, <1>3, <1>5, <1>6, <2>1, <2>2 DEF RowsMove
<1>8. clock' \in 0 .. MaxNow /\ peer' \in PeerRow
  BY <1>1 DEF AuthInv, AuthTypeOK
<1>9. authCache' \in [Secrets -> CacheEntry \cup {NoEntry}] /\ \A s \in Secrets : authCache'[s] = NoEntry
  BY <1>1 DEF EmptyCache
<1>10. StepWell
  BY <1>1, <1>4, <1>7, <1>8, <1>9, Elsewhere
<1> QED BY <1>1, <1>10

LEMMA StepAuthTick ==
  ASSUME AuthInv, AuthTick PROVE StepWell /\ call' = call
<1>1. /\ call' = call /\ clock < MaxNow /\ clock' = clock + 1 /\ did' = NoDeed
      /\ nextSecret' = nextSecret /\ peer' = peer /\ cred' = cred
      /\ authCache' = [s \in Secrets |-> IF clock + 1 < authCache[s].until THEN authCache[s] ELSE NoEntry]
  BY DEF AuthTick, Keep
<1>2. RowsMove /\ QuietRows
  BY <1>1, NoRowMoves
<1>3. clock' \in 0 .. MaxNow /\ peer' \in PeerRow
  BY <1>1, AuthBounds DEF AuthInv, AuthTypeOK
<1>4. authCache' \in [Secrets -> CacheEntry \cup {NoEntry}]
  BY <1>1, AuthOpened
<1>5. \A s \in Secrets : authCache'[s] = NoEntry \/ (authCache'[s] = authCache[s] /\ clock' < authCache[s].until)
  BY <1>1
<1>6. StepWell
  BY <1>1, <1>2, <1>3, <1>4, <1>5, Elsewhere
<1> QED BY <1>1, <1>6

LEMMA StepPeerBump ==
  ASSUME AuthInv, PeerBump PROVE StepWell /\ \A d \in Calls : call'[d].stage = call[d].stage
<1>1. /\ authCache' = EmptyCache /\ call' = Stale(call) /\ clock' = clock /\ did' = NoDeed
      /\ nextSecret' = nextSecret /\ cred' = cred /\ peer' = IdlePeer
  BY DEF PeerBump, Keep
<1>2. RowsMove /\ DeedStep /\ peer' \in PeerRow
  BY <1>1, NoRowMoves, Nothings DEF DeedStep
<1>3. call \in [Calls -> CallRow]
  BY DEF AuthInv, AuthTypeOK
<1>4. StepWell
  BY <1>1, <1>2, <1>3, Overtakes
<1>5. \A d \in Calls : call'[d].stage = call[d].stage
  BY <1>1, <1>3 DEF Stale, CallRow
<1> QED BY <1>4, <1>5

LEMMA StepSweepGrace ==
  ASSUME AuthInv, NEW n \in Names, SweepGrace(n)
  PROVE  StepWell /\ \A d \in Calls : call'[d].stage = call[d].stage
<1>1. /\ authCache' = EmptyCache /\ call' = Stale(call) /\ clock' = clock /\ did' = NoDeed
      /\ nextSecret' = nextSecret /\ peer' = peer /\ cred[n].state = "rotation_grace"
      /\ cred' = [cred EXCEPT ![n] = Swept(cred[n])]
  BY DEF SweepGrace, Keep
<1>2. RowMove(cred[n], Swept(cred[n]), nextSecret) /\ Swept(cred[n]).hash # nextSecret
  BY <1>1, AuthOpened, SweptRow, OldTokens
<1>3. 0 \in 0 .. 2 /\ nextSecret' = nextSecret + 0 /\ nextSecret + 0 <= MaxSecrets + 1
  BY <1>1, AuthOpened
<1>4. RowsMove
  BY <1>1, <1>2, <1>3, OneRowMoves
<1>5. DeedStep /\ peer' \in PeerRow /\ call \in [Calls -> CallRow]
  BY <1>1 DEF DeedStep, AuthInv, AuthTypeOK
<1>6. StepWell
  BY <1>1, <1>4, <1>5, Overtakes
<1>7. \A d \in Calls : call'[d].stage = call[d].stage
  BY <1>1, <1>5 DEF Stale, CallRow
<1> QED BY <1>6, <1>7
-----------------------------------------------------------------------------
(* The daemon's own calls. *)

LEMMA CallOnly ==
  ASSUME AuthInv, NEW c \in Calls, NEW k \in CallRow, CallTrue(k), call' = [call EXCEPT ![c] = k],
         UNCHANGED <<cred, authCache, peer, nextSecret, clock>>, DeedStep
  PROVE  CallWell(c)
<1>1. RowsMove /\ QuietRows
  BY NoRowMoves
<1>2. StepWell /\ OnlyCaller(c)
  BY <1>1, CallProceeds
<1>3. EstablishedBy(c)
  BY DEF EstablishedBy
<1> QED BY <1>2, <1>3 DEF CallWell

LEMMA CallRefused ==
  ASSUME AuthInv, NEW c \in Calls, Refused(c), UNCHANGED <<cred, authCache, peer, nextSecret, clock>>, DeedStep
  PROVE  CallWell(c)
<1>1. IdleCall \in CallRow /\ CallTrue(IdleCall)
  BY Nothings DEF CallTrue
<1>2. call' = [call EXCEPT ![c] = IdleCall]
  BY DEF Refused
<1> QED BY <1>1, <1>2, CallOnly

\* What is kept of a row when a compare begins.
LEMMA SeenIsTrue ==
  ASSUME AuthInv, NEW n \in Names, NEW kind \in Kinds
  PROVE  \A v \in {Seen(n, kind)} :
           /\ v \in CredRow /\ SeenGood(n, v) /\ Agrees(n, v)
           /\ v.look = cred[n].look /\ v.plook = cred[n].plook
           /\ kind = "recover" => v.recovery = cred[n].recovery
           /\ kind = "abandon" => v.handle = cred[n].handle
<1> SUFFICES ASSUME NEW v, v = Seen(n, kind)
             PROVE  /\ v \in CredRow /\ SeenGood(n, v) /\ Agrees(n, v)
                    /\ v.look = cred[n].look /\ v.plook = cred[n].plook
                    /\ kind = "recover" => v.recovery = cred[n].recovery
                    /\ kind = "abandon" => v.handle = cred[n].handle
  OBVIOUS
<1>1. PICK r : r = cred[n] /\ RowGood(r)
  BY AuthOpened
<1>2. r \in CredRow
  BY <1>1 DEF RowGood
<1>3. /\ v \in CredRow /\ v.state = r.state /\ v.hash = r.hash /\ v.prev = r.prev /\ v.until = r.until
      /\ v.look = r.look /\ v.plook = r.plook
      /\ (kind = "recover" => v.recovery = r.recovery)
      /\ (kind = "abandon" => v.handle = r.handle)
  <2> DEFINE w == [r EXCEPT !.held = FALSE, !.established = FALSE]
  <2>1. /\ w \in CredRow /\ w.state = r.state /\ w.hash = r.hash /\ w.prev = r.prev /\ w.until = r.until
        /\ w.look = r.look /\ w.plook = r.plook /\ w.recovery = r.recovery /\ w.handle = r.handle
    BY <1>2 DEF CredRow
  <2>2. v = IF kind \in {"recover", "abandon"} THEN w ELSE [w EXCEPT !.recovery = NoSecret, !.handle = NoSecret]
    BY <1>1 DEF Seen
  <2> HIDE DEF w
  <2>3. CASE kind \in {"recover", "abandon"}
    BY <2>1, <2>2, <2>3
  <2>4. CASE kind \notin {"recover", "abandon"}
    BY <2>1, <2>2, <2>4 DEF CredRow
  <2> QED BY <2>3, <2>4
<1>4. Agrees(n, v)
  BY <1>1, <1>3 DEF Agrees, Quiet
<1>5. Retired(v.prev)
  BY <1>1, <1>3, AuthOpened DEF Retired, UniqueTokens
<1>6. v.hash \in Issued \cup {NoSecret}
  BY <1>1, <1>3, AuthOpened DEF UniqueTokens
<1>7. SeenGood(n, v)
  BY <1>1, <1>3, <1>5, <1>6 DEF SeenGood, RowGood, RowCoherent
<1> QED BY <1>1, <1>3, <1>4, <1>7

LEMMA OpenedWell ==
  ASSUME AuthInv, NEW c \in Calls, NEW n \in Names, NEW s \in Issued, NEW stage \in {"verify", "scan"},
         NEW kind \in Kinds, Opened(c, stage, kind, n, s), Keep(<<cred, authCache, peer, nextSecret, clock>>),
         kind = "claimed" => cred[n].state \in Alive /\ MatchedBases(cred[n], "claimed", s, clock) # {},
         kind = "register" => cred[n].hash = s,
         kind = "recover" => cred[n].recovery = s,
         kind = "abandon" => cred[n].handle = s
  PROVE  CallWell(c)
<1>1. PICK v \in CredRow : /\ v = Seen(n, kind) /\ SeenGood(n, v) /\ Agrees(n, v)
                           /\ v.look = cred[n].look /\ v.plook = cred[n].plook
                           /\ (kind = "recover" => v.recovery = cred[n].recovery)
                           /\ (kind = "abandon" => v.handle = cred[n].handle)
  BY SeenIsTrue
<1>2. s \in Secrets /\ clock \in Nat
  BY AuthOpened
<1>3. PICK k : k = [stage |-> stage, kind |-> kind, name |-> n, secret |-> s, seen |-> v, begun |-> clock,
                    fresh |-> TRUE, basis |-> "current", hash |-> NoSecret]
  OBVIOUS
<1>4. /\ k \in CallRow /\ k.stage = stage /\ k.kind = kind /\ k.name = n /\ k.secret = s /\ k.seen = v
      /\ k.begun = clock
  BY <1>2, <1>3 DEF CallRow, Bases
<1>5. call' = [call EXCEPT ![c] = k]
  BY <1>1, <1>3 DEF Opened
<1>6. MatchedBases(v, "claimed", s, clock) = MatchedBases(cred[n], "claimed", s, clock)
  BY <1>1 DEF Agrees, Quiet, MatchedBases, Expired
<1>7. BegunWell(k)
  BY <1>1, <1>4, <1>6 DEF BegunWell, Agrees, Quiet
<1>8. CallTrue(k)
  BY <1>1, <1>4, <1>7 DEF CallTrue
<1>9. DeedStep /\ UNCHANGED <<cred, authCache, peer, nextSecret, clock>>
  BY DEF Keep, DeedStep
<1> QED BY <1>4, <1>5, <1>8, <1>9, CallOnly

\* A call admitted on a stored hash that vouches for its token.
LEMMA GrantedWell ==
  ASSUME AuthInv, NEW n \in Names, NEW kind \in Kinds, NEW s \in Secrets \cup {NoSecret}, NEW b \in Bases,
         NEW h \in Secrets \cup {NoSecret},
         kind \in {"claimed", "token", "register"} => Vouches(n, b, h, s),
         kind \in {"recover", "abandon"} => h = s
  PROVE  \A k \in {[IdleCall EXCEPT !.stage = "granted", !.kind = kind, !.name = n, !.secret = s,
                                    !.basis = b, !.hash = h]} : k \in CallRow /\ CallTrue(k)
<1> DEFINE k == [IdleCall EXCEPT !.stage = "granted", !.kind = kind, !.name = n, !.secret = s,
                                 !.basis = b, !.hash = h]
           j == [IdleCall EXCEPT !.stage = "granted", !.kind = kind, !.name = n]
<1>1. j \in CallRow /\ j.stage = "granted" /\ j.kind = kind /\ j.name = n
  BY Nothings DEF CallRow
<1>2. k = [j EXCEPT !.secret = s, !.basis = b, !.hash = h]
  BY Nothings DEF CallRow
<1> HIDE DEF j
<1>3. /\ k \in CallRow /\ k.stage = "granted" /\ k.kind = kind /\ k.name = n /\ k.secret = s /\ k.basis = b
      /\ k.hash = h
  BY <1>1, <1>2 DEF CallRow
<1> HIDE DEF k
<1>4. CallTrue(k)
  BY <1>3 DEF CallTrue
<1>5. k \in CallRow /\ CallTrue(k)
  BY <1>3, <1>4
<1> QED BY <1>5 DEF k

\* A hit of the cache is evidence too.
LEMMA HitVouches ==
  ASSUME AuthInv, NEW s \in Issued, NEW names \in SUBSET Names, Hits(s, names)
  PROVE  /\ authCache[s].name \in Names /\ authCache[s].name \in names /\ authCache[s].basis \in Bases
         /\ authCache[s].hash \in Secrets /\ s \in Secrets
         /\ Vouches(authCache[s].name, authCache[s].basis, authCache[s].hash, s)
<1>1. s \in Secrets
  BY AuthOpened
<1>2. authCache[s] \in CacheEntry /\ EntryGood(s, authCache[s]) /\ authCache[s] # NoEntry
  BY <1>1, AuthOpened DEF Hits
<1> QED BY <1>1, <1>2 DEF Hits, EntryGood, CacheEntry

LEMMA StepClaimIdentity ==
  ASSUME AuthInv, NEW c \in Calls, NEW n \in Names, NEW s \in Secrets, ClaimIdentity(c, n, s)
  PROVE  CallWell(c)
<1>1. s \in Issued /\ Keep(<<cred, authCache, peer, nextSecret, clock>>) /\ "claimed" \in Kinds
      /\ "verify" \in {"verify", "scan"}
  BY DEF ClaimIdentity, Kinds
<1>2. CASE /\ Hits(s, {n})
           /\ call' = [call EXCEPT ![c] = [IdleCall EXCEPT !.stage = "granted", !.kind = "claimed", !.name = n,
                         !.secret = s, !.basis = authCache[s].basis, !.hash = authCache[s].hash]]
  <2>1. /\ n = authCache[s].name /\ authCache[s].basis \in Bases /\ authCache[s].hash \in Secrets
        /\ Vouches(n, authCache[s].basis, authCache[s].hash, s)
    BY <1>1, <1>2, HitVouches
  <2>2. PICK h \in Secrets, b \in Bases, m \in Names :
          h = authCache[s].hash /\ b = authCache[s].basis /\ m = n /\ Vouches(m, b, h, s)
    BY <2>1
  <2>4. PICK k : k = [IdleCall EXCEPT !.stage = "granted", !.kind = "claimed", !.name = m, !.secret = s,
                                      !.basis = b, !.hash = h]
    OBVIOUS
  <2>5. s \in Secrets \cup {NoSecret} /\ h \in Secrets \cup {NoSecret} /\ ~("claimed" \in {"recover", "abandon"})
    OBVIOUS
  <2>6. k \in CallRow /\ CallTrue(k)
    BY <1>1, <2>2, <2>4, <2>5, GrantedWell
  <2>3. call' = [call EXCEPT ![c] = k] /\ DeedStep /\ UNCHANGED <<cred, authCache, peer, nextSecret, clock>>
    BY <1>1, <1>2, <2>2, <2>4 DEF Keep, DeedStep
  <2> QED BY <2>3, <2>6, CallOnly
<1>3. CASE /\ cred[n].state \in {"active", "rotation_grace"}
           /\ MatchedBases(cred[n], "claimed", s, clock) # {}
           /\ Opened(c, "verify", "claimed", n, s)
  <2>1. /\ "claimed" = "claimed" => cred[n].state \in Alive /\ MatchedBases(cred[n], "claimed", s, clock) # {}
        /\ ~("claimed" = "register") /\ ~("claimed" = "recover") /\ ~("claimed" = "abandon")
    BY <1>3 DEF Alive
  <2> QED BY <1>1, <1>3, <2>1, OpenedWell
<1> QED BY <1>2, <1>3 DEF ClaimIdentity

LEMMA StepPresentToken ==
  ASSUME AuthInv, NEW c \in Calls, NEW s \in Secrets, PresentToken(c, s)
  PROVE  CallWell(c)
<1>1. s \in Issued /\ Keep(<<cred, authCache, peer, nextSecret, clock>>) /\ "token" \in Kinds
      /\ "verify" \in {"verify", "scan"}
  BY DEF PresentToken, Kinds
<1>2. CASE /\ Hits(s, Names)
           /\ call' = [call EXCEPT ![c] = [IdleCall EXCEPT !.stage = "granted", !.kind = "token",
                         !.name = authCache[s].name, !.secret = s, !.basis = authCache[s].basis,
                         !.hash = authCache[s].hash]]
  <2>1. /\ authCache[s].name \in Names /\ authCache[s].basis \in Bases /\ authCache[s].hash \in Secrets
        /\ Vouches(authCache[s].name, authCache[s].basis, authCache[s].hash, s)
    BY <1>1, <1>2, HitVouches
  <2>2. PICK h \in Secrets, b \in Bases, m \in Names :
          h = authCache[s].hash /\ b = authCache[s].basis /\ m = authCache[s].name /\ Vouches(m, b, h, s)
    BY <2>1
  <2>4. PICK k : k = [IdleCall EXCEPT !.stage = "granted", !.kind = "token", !.name = m, !.secret = s,
                                      !.basis = b, !.hash = h]
    OBVIOUS
  <2>5. s \in Secrets \cup {NoSecret} /\ h \in Secrets \cup {NoSecret} /\ ~("token" \in {"recover", "abandon"})
    OBVIOUS
  <2>6. k \in CallRow /\ CallTrue(k)
    BY <1>1, <2>2, <2>4, <2>5, GrantedWell
  <2>3. call' = [call EXCEPT ![c] = k] /\ DeedStep /\ UNCHANGED <<cred, authCache, peer, nextSecret, clock>>
    BY <1>1, <1>2, <2>2, <2>4 DEF Keep, DeedStep
  <2> QED BY <2>3, <2>6, CallOnly
<1>3. CASE \E n \in Names : Opened(c, "verify", "token", n, s)
  <2>1. PICK n \in Names : Opened(c, "verify", "token", n, s)
    BY <1>3
  <2>2. ~("token" = "claimed") /\ ~("token" = "register") /\ ~("token" = "recover") /\ ~("token" = "abandon")
    OBVIOUS
  <2> QED BY <1>1, <2>1, <2>2, OpenedWell
<1> QED BY <1>2, <1>3 DEF PresentToken

LEMMA StepOpens ==
  ASSUME AuthInv, NEW c \in Calls, NEW n \in Names, NEW s \in Secrets,
         ScanRow(c, s, n) \/ RegisterAgain(c, n, s) \/ RegisterRecovering(c, n, s) \/ Abandon(c, n, s)
  PROVE  CallWell(c)
<1>1. {"token", "register", "recover", "abandon"} \subseteq Kinds /\ "verify" \in {"verify", "scan"}
      /\ "scan" \in {"verify", "scan"}
  BY DEF Kinds
<1>2. s \in Issued /\ Keep(<<cred, authCache, peer, nextSecret, clock>>)
  BY DEF ScanRow, RegisterAgain, RegisterRecovering, Abandon
<1>3. CASE ScanRow(c, s, n)
  <2>1. Opened(c, "scan", "token", n, s)
    BY <1>3 DEF ScanRow
  <2>2. ~("token" = "claimed") /\ ~("token" = "register") /\ ~("token" = "recover") /\ ~("token" = "abandon")
    OBVIOUS
  <2> QED BY <1>1, <1>2, <2>1, <2>2, OpenedWell
<1>4. CASE RegisterAgain(c, n, s)
  <2>1. Opened(c, "verify", "register", n, s) /\ MatchedBases(cred[n], "register", s, clock) # {}
    BY <1>4 DEF RegisterAgain
  <2>2. cred[n].hash = s
    BY <2>1 DEF MatchedBases, Compares
  <2>3. ~("register" = "claimed") /\ ~("register" = "recover") /\ ~("register" = "abandon")
    OBVIOUS
  <2> QED BY <1>1, <1>2, <2>1, <2>2, <2>3, OpenedWell
<1>5. CASE RegisterRecovering(c, n, s)
  <2>1. Opened(c, "verify", "recover", n, s) /\ cred[n].recovery = s
    BY <1>5 DEF RegisterRecovering
  <2>2. ~("recover" = "claimed") /\ ~("recover" = "register") /\ ~("recover" = "abandon")
    OBVIOUS
  <2> QED BY <1>1, <1>2, <2>1, <2>2, OpenedWell
<1>6. CASE Abandon(c, n, s)
  <2>1. Opened(c, "verify", "abandon", n, s) /\ cred[n].handle = s
    BY <1>6 DEF Abandon
  <2>2. ~("abandon" = "claimed") /\ ~("abandon" = "register") /\ ~("abandon" = "recover")
    OBVIOUS
  <2> QED BY <1>1, <1>2, <2>1, <2>2, OpenedWell
<1> QED BY <1>3, <1>4, <1>5, <1>6

LEMMA StepRegisterNew ==
  ASSUME AuthInv, NEW c \in Calls, NEW n \in Names, RegisterNew(c, n)
  PROVE  CallWell(c)
<1>1. PICK k : k = [IdleCall EXCEPT !.stage = "granted", !.kind = "new", !.name = n]
  OBVIOUS
<1>2. k \in CallRow /\ k.kind = "new" /\ k.stage = "granted"
  BY <1>1, Nothings DEF CallRow, Kinds
<1>3. CallTrue(k)
  BY <1>2 DEF CallTrue
<1>4. call' = [call EXCEPT ![c] = k] /\ DeedStep /\ UNCHANGED <<cred, authCache, peer, nextSecret, clock>>
  BY <1>1 DEF RegisterNew, Keep, DeedStep
<1> QED BY <1>2, <1>3, <1>4, CallOnly
\* The end of a compare that admits the call: the row is marked, its digest healed or the verdict cached.
LEMMA VerdictPut ==
  ASSUME AuthInv, NEW c \in Calls, NEW k \in CallRow, k = call[c], k.stage \in {"verify", "which", "scan"},
         NEW b \in Bases, PutVerdict(k.name, k.secret, k.seen, b, k.fresh),
         b = "current" => k.seen.hash = k.secret,
         b = "previous" => k.seen.state = "rotation_grace" /\ k.secret \in {k.seen.prev, k.seen.hash},
         k.seen.state \in Alive,
         NEW j \in CallRow, CallTrue(j), call' = [call EXCEPT ![c] = j],
         UNCHANGED <<peer, nextSecret, clock>>, did' = NoDeed
  PROVE  CallWell(c)
<1>1. PICK n \in Names, s \in Issued, v \in CredRow : n = k.name /\ s = k.secret /\ v = k.seen
  BY AuthOpened DEF CallRow, CallTrue, BegunWell
<1>2. SeenGood(n, v) /\ (k.fresh /\ peer.stage # "bump" => Agrees(n, v)) /\ s \in Secrets /\ s # NoSecret
  BY <1>1, AuthOpened DEF CallTrue
<1>3. PICK h : h = HashOf(v, b)
  OBVIOUS
<1>4. Vouches(n, b, h, s) /\ h # NoSecret /\ h \in Secrets
  <2>1. CASE b = "current"
    BY <1>1, <1>2, <1>3, <2>1, AuthOpened DEF Vouches, HashOf
  <2>2. CASE b = "previous"
    <3>1. h = v.prev /\ v.state = "rotation_grace" /\ s \in {h, v.hash}
      BY <1>1, <1>3, <2>2 DEF HashOf
    <3>2. h # NoSecret /\ h \in Issued /\ Retired(h) /\ (cred[n].prev = h => cred[n].hash = v.hash)
      BY <1>2, <3>1 DEF SeenGood, Retired
    <3> QED BY <2>2, <3>1, <3>2, AuthOpened DEF Vouches
  <2> QED BY <2>1, <2>2 DEF Bases
<1>5. PICK m : m = Marked(cred[n], b, h)
  OBVIOUS
<1>6. /\ RowMove(cred[n], m, nextSecret) /\ Quiet(cred[n], m)
      /\ RowMove(cred[n], Healed(m, v, b, s), nextSecret) /\ Quiet(cred[n], Healed(m, v, b, s))
  BY <1>1, <1>2, <1>3, <1>5, AuthOpened, VerdictRow
<1>7. m.established => cred[n].established \/ OnRow(cred[n], b, h)
  BY <1>5 DEF Marked
<1>8. Healed(m, v, b, s).established = m.established
  <2>1. m \in CredRow
    BY <1>6 DEF RowMove, RowGood
  <2> QED BY <2>1 DEF Healed, CredRow
<1>9. PICK last : last = IF b = "previous" /\ v.until > 0 THEN Smaller(clock + CacheTicks, v.until)
                         ELSE clock + CacheTicks
  OBVIOUS
<1>10. PICK e : e = [name |-> n, basis |-> b, hash |-> h, until |-> last]
  OBVIOUS
<1>11. PICK row : /\ row \in {m, Healed(m, v, b, s)} /\ cred' = [cred EXCEPT ![n] = row]
                  /\ \/ authCache' = authCache
                     \/ MayCache(k.fresh, last) /\ authCache' = [authCache EXCEPT ![s] = e]
  <2>1. PutVerdict(n, s, v, b, k.fresh)
    BY <1>1
  <2>2. CASE LookOf(v, b) = s
    <3>1. /\ cred' = [cred EXCEPT ![n] = m]
          /\ authCache' = IF MayCache(k.fresh, last) THEN [authCache EXCEPT ![s] = e] ELSE authCache
      BY <1>3, <1>5, <1>9, <1>10, <2>1, <2>2 DEF PutVerdict
    <3> QED BY <3>1
  <2>3. CASE LookOf(v, b) # s
    <3>1. cred' = [cred EXCEPT ![n] = Healed(m, v, b, s)] /\ authCache' = authCache
      BY <1>3, <1>5, <2>1, <2>3 DEF PutVerdict
    <3> QED BY <3>1
  <2> QED BY <2>2, <2>3
<1>12. RowsMove /\ QuietRows /\ \A o \in Names : cred'[o] = IF o = n THEN row ELSE cred[o]
  BY <1>6, <1>11, QuietWrite
<1>13. ASSUME MayCache(k.fresh, last) PROVE e \in CacheEntry /\ EntryGood(s, e)
  <2>1. clock \in Nat /\ CacheTicks \in Nat /\ v.until \in Nat
    BY AuthBounds, AuthOpened DEF CredRow
  <2>2. last \in Nat
    BY <1>9, <2>1 DEF Smaller
  <2>3. e \in CacheEntry /\ e.name = n /\ e.basis = b /\ e.hash = h /\ e.until = last
    BY <1>4, <1>10, <2>2 DEF CacheEntry
  <2>4. ASSUME peer.stage # "bump"
        PROVE  StillGood(cred[n], b, h, clock) /\ (b = "previous" => last <= cred[n].until)
    <3>1. Quiet(v, cred[n]) /\ clock < last
      BY <1>2, <1>13, <2>4 DEF MayCache, Agrees
    <3>2. cred[n].state \in Alive /\ HashOf(cred[n], b) = h
      BY <1>1, <1>3, <3>1 DEF Quiet, HashOf
    <3>3. ASSUME b = "previous"
          PROVE  cred[n].state = "rotation_grace" /\ ~Expired(cred[n], clock) /\ last <= cred[n].until
      <4>1. cred[n].state = "rotation_grace" /\ v.until > 0 /\ cred[n].until = v.until
        BY <1>1, <1>2, <3>1, <3>3 DEF Quiet, SeenGood
      <4>2. last <= v.until
        BY <1>9, <2>1, <3>3, <4>1, AuthBounds DEF Smaller
      <4>3. ~Expired(cred[n], clock)
        BY <2>1, <2>2, <3>1, <4>1, <4>2 DEF Expired
      <4> QED BY <4>1, <4>2, <4>3
    <3> QED BY <1>4, <3>2, <3>3 DEF StillGood, Alive
  <2> QED BY <1>4, <2>3, <2>4 DEF EntryGood
<1>14. \/ authCache' = authCache
       \/ \E t \in Secrets : \E x \in CacheEntry : EntryGood(t, x) /\ authCache' = [authCache EXCEPT ![t] = x]
  BY <1>2, <1>11, <1>13
<1>15. DeedStep /\ UNCHANGED <<peer, clock>>
  BY DEF DeedStep
<1>16. StepWell /\ OnlyCaller(c)
  BY <1>12, <1>14, <1>15, CallProceeds
<1>17. ASSUME NEW o \in Names, ~cred[o].established, cred'[o].established
       PROVE  call[c].name = o /\ call[c].secret \in {cred[o].hash, cred[o].prev, cred[o].recovery} \ {NoSecret}
  <2>1. o = n /\ OnRow(cred[n], b, h)
    BY <1>7, <1>8, <1>11, <1>12, <1>17
  <2>2. HashOf(cred[n], b) = h
    BY <2>1 DEF OnRow
  <2>3. s \in {cred[n].hash, cred[n].prev}
    <3>1. CASE h = s
      BY <2>2, <3>1 DEF HashOf
    <3>2. CASE h # s
      BY <1>4, <2>2, <3>2 DEF Vouches, HashOf
    <3> QED BY <3>1, <3>2
  <2> QED BY <1>1, <1>2, <2>1, <2>3
<1>18. EstablishedBy(c)
  BY <1>17 DEF EstablishedBy
<1> QED BY <1>16, <1>18 DEF CallWell

\* What MatchedBases says.
LEMMA MatchedIsSecret ==
  ASSUME NEW r, NEW kind, NEW s, NEW t, NEW b \in MatchedBases(r, kind, s, t)
  PROVE  /\ b \in Bases /\ HashOf(r, b) = s
         /\ b = "current" => r.hash = s /\ r.look \in {NoSecret, s}
         /\ b = "previous" => r.state = "rotation_grace" /\ r.prev = s
BY DEF MatchedBases, Compares, Bases, HashOf

LEMMA StepVerifyClaimed ==
  ASSUME AuthInv, NEW c \in Calls, VerifyClaimed(c) PROVE CallWell(c)
<1>1. PICK k \in CallRow : k = call[c] /\ CallTrue(k)
  BY AuthOpened
<1>2. /\ k.stage = "verify" /\ k.kind = "claimed" /\ BegunWell(k) /\ k.seen.state \in Alive
      /\ k.secret \in Issued /\ k.name \in Names /\ k.secret \in Secrets
  BY <1>1, AuthOpened DEF VerifyClaimed, CallTrue, BegunWell, CallRow
<1>3. did' = NoDeed /\ UNCHANGED <<peer, nextSecret, clock>> /\ DeedStep
  BY DEF VerifyClaimed, Keep, DeedStep
<1>4. PICK basis \in MatchedBases(k.seen, "claimed", k.secret, k.begun) :
        IF k.seen.state = "rotation_grace" /\ k.seen.look = NoSecret
        THEN /\ call' = [call EXCEPT ![c].stage = "which", ![c].basis = basis]
             /\ UNCHANGED <<cred, authCache>>
        ELSE /\ PutVerdict(k.name, k.secret, k.seen,
                  IF k.seen.state = "rotation_grace" /\ k.seen.look # k.secret
                  THEN "previous" ELSE "current", k.fresh)
             /\ Granted(c, k.name, basis, HashOf(k.seen, basis))
  BY <1>1, <1>2 DEF VerifyClaimed
<1>5. /\ basis \in Bases /\ HashOf(k.seen, basis) = k.secret
      /\ basis = "current" => k.seen.hash = k.secret /\ k.seen.look \in {NoSecret, k.secret}
      /\ basis = "previous" => k.seen.state = "rotation_grace" /\ k.seen.prev = k.secret
  BY MatchedIsSecret
<1>6. CASE k.seen.state = "rotation_grace" /\ k.seen.look = NoSecret
  <2>1. PICK j : j = [k EXCEPT !.stage = "which", !.basis = basis]
    OBVIOUS
  <2>2. /\ j \in CallRow /\ j.stage = "which" /\ j.basis = basis /\ j.kind = k.kind /\ j.secret = k.secret
        /\ j.seen = k.seen /\ j.begun = k.begun /\ j.name = k.name /\ j.fresh = k.fresh
    BY <1>5, <2>1 DEF CallRow
  <2>3. call' = [call EXCEPT ![c] = j] /\ UNCHANGED <<cred, authCache, peer, nextSecret, clock>>
    BY <1>1, <1>3, <1>4, <1>6, <2>1
  <2>4. BegunWell(j)
    BY <1>2, <1>6, <2>2 DEF BegunWell
  <2>5. CallTrue(j)
    BY <1>1, <1>2, <2>2, <2>4 DEF CallTrue
  <2> QED BY <1>3, <2>2, <2>3, <2>5, CallOnly
<1>7. CASE ~(k.seen.state = "rotation_grace" /\ k.seen.look = NoSecret)
  <2>1. PICK b \in Bases : b = IF k.seen.state = "rotation_grace" /\ k.seen.look # k.secret
                               THEN "previous" ELSE "current"
    BY DEF Bases
  <2>2. PutVerdict(k.name, k.secret, k.seen, b, k.fresh)
    BY <1>4, <1>7, <2>1
  <2>3. SeenGood(k.name, k.seen)
    BY <1>1, <1>2 DEF CallTrue
  <2>4. b = "current" => k.seen.hash = k.secret
    <3>1. CASE k.seen.state = "rotation_grace" /\ k.seen.look = k.secret
      BY <1>7, <2>3, <3>1 DEF SeenGood
    <3>2. CASE k.seen.state # "rotation_grace"
      BY <1>5, <3>2 DEF Bases
    <3> QED BY <2>1, <3>1, <3>2
  <2>5. b = "previous" => k.seen.state = "rotation_grace" /\ k.secret \in {k.seen.prev, k.seen.hash}
    BY <1>5, <2>1 DEF Bases
  <2>6. PICK j : j = [IdleCall EXCEPT !.stage = "granted", !.kind = "claimed", !.name = k.name,
                        !.secret = k.secret, !.basis = basis, !.hash = k.secret]
    OBVIOUS
  <2>7. Vouches(k.name, basis, k.secret, k.secret) /\ "claimed" \in Kinds /\ k.secret \in Secrets \cup {NoSecret}
        /\ ~("claimed" \in {"recover", "abandon"})
    BY <1>2 DEF Vouches, Kinds
  <2>8. j \in CallRow /\ CallTrue(j)
    BY <1>2, <1>5, <2>6, <2>7, GrantedWell
  <2>9. call' = [call EXCEPT ![c] = j]
    BY <1>1, <1>2, <1>4, <1>5, <1>7, <2>6 DEF Granted
  <2>10. k.stage \in {"verify", "which", "scan"}
    BY <1>2
  <2> QED BY <1>1, <1>2, <1>3, <2>2, <2>4, <2>5, <2>8, <2>9, <2>10, VerdictPut
<1> QED BY <1>6, <1>7

LEMMA StepSecondCompare ==
  ASSUME AuthInv, NEW c \in Calls, NEW answered \in BOOLEAN, SecondCompare(c, answered) PROVE CallWell(c)
<1>1. PICK k \in CallRow : k = call[c] /\ CallTrue(k)
  BY AuthOpened
<1>2. /\ k.stage = "which" /\ BegunWell(k) /\ k.kind = "claimed" /\ k.seen.state = "rotation_grace"
      /\ k.secret \in Issued /\ k.name \in Names /\ k.secret \in Secrets
      /\ k.basis \in MatchedBases(k.seen, "claimed", k.secret, k.begun)
  BY <1>1, AuthOpened DEF SecondCompare, CallTrue, BegunWell, CallRow
<1>3. did' = NoDeed /\ UNCHANGED <<peer, nextSecret, clock>>
  BY DEF SecondCompare, Keep
<1>4. /\ k.basis \in Bases /\ HashOf(k.seen, k.basis) = k.secret
      /\ k.basis = "current" => k.seen.hash = k.secret
      /\ k.basis = "previous" => k.seen.prev = k.secret
  BY <1>2, MatchedIsSecret
<1>5. PICK b \in Bases : b = IF answered /\ k.seen.hash = k.secret THEN "current" ELSE "previous"
  BY DEF Bases
<1>6. PutVerdict(k.name, k.secret, k.seen, b, k.fresh) /\ Granted(c, k.name, k.basis, HashOf(k.seen, k.basis))
  BY <1>1, <1>5 DEF SecondCompare
<1>7. /\ b = "current" => k.seen.hash = k.secret
      /\ b = "previous" => k.seen.state = "rotation_grace" /\ k.secret \in {k.seen.prev, k.seen.hash}
  BY <1>2, <1>4, <1>5 DEF Bases
<1>8. PICK j : j = [IdleCall EXCEPT !.stage = "granted", !.kind = "claimed", !.name = k.name,
                      !.secret = k.secret, !.basis = k.basis, !.hash = k.secret]
  OBVIOUS
<1>9. Vouches(k.name, k.basis, k.secret, k.secret) /\ "claimed" \in Kinds /\ k.secret \in Secrets \cup {NoSecret}
      /\ ~("claimed" \in {"recover", "abandon"})
  BY <1>2 DEF Vouches, Kinds
<1>10. j \in CallRow /\ CallTrue(j)
  BY <1>2, <1>4, <1>8, <1>9, GrantedWell
<1>11. call' = [call EXCEPT ![c] = j]
  BY <1>1, <1>2, <1>4, <1>6, <1>8 DEF Granted
<1>12. k.stage \in {"verify", "which", "scan"} /\ k.seen.state \in Alive
  BY <1>2 DEF Alive
<1> QED BY <1>1, <1>3, <1>6, <1>7, <1>10, <1>11, <1>12, VerdictPut

LEMMA StepVerifyToken ==
  ASSUME AuthInv, NEW c \in Calls, VerifyToken(c) PROVE CallWell(c)
<1>1. PICK k \in CallRow : k = call[c] /\ CallTrue(k)
  BY AuthOpened
<1>2. /\ k.kind = "token" /\ k.stage \in {"verify", "which", "scan"} /\ BegunWell(k)
      /\ k.secret \in Issued /\ k.name \in Names /\ k.secret \in Secrets
  BY <1>1, AuthOpened DEF VerifyToken, CallTrue, BegunWell, CallRow
<1>3. did' = NoDeed /\ UNCHANGED <<peer, nextSecret, clock>>
  BY DEF VerifyToken, Keep
<1>4. PICK b \in Bases : /\ StillGood(k.seen, b, k.secret, clock)
                         /\ PutVerdict(k.name, k.secret, k.seen, b, k.fresh)
                         /\ Granted(c, k.name, b, k.secret)
  BY <1>1 DEF VerifyToken
<1>5. /\ b = "current" => k.seen.hash = k.secret
      /\ b = "previous" => k.seen.state = "rotation_grace" /\ k.secret \in {k.seen.prev, k.seen.hash}
  BY <1>4 DEF StillGood, HashOf
<1>6. PICK j : j = [IdleCall EXCEPT !.stage = "granted", !.kind = "token", !.name = k.name,
                      !.secret = k.secret, !.basis = b, !.hash = k.secret]
  OBVIOUS
<1>7. Vouches(k.name, b, k.secret, k.secret) /\ "token" \in Kinds /\ k.secret \in Secrets \cup {NoSecret}
      /\ ~("token" \in {"recover", "abandon"})
  BY <1>2 DEF Vouches, Kinds
<1>8. j \in CallRow /\ CallTrue(j)
  BY <1>2, <1>6, <1>7, GrantedWell
<1>9. call' = [call EXCEPT ![c] = j]
  BY <1>1, <1>2, <1>4, <1>6 DEF Granted
<1>10. k.seen.state \in Alive
  BY <1>4 DEF StillGood, Alive
<1> QED BY <1>1, <1>2, <1>3, <1>4, <1>5, <1>8, <1>9, <1>10, VerdictPut

LEMMA StepVerifyRegister ==
  ASSUME AuthInv, NEW c \in Calls, VerifyRegister(c) PROVE CallWell(c)
<1>1. PICK k \in CallRow : k = call[c] /\ CallTrue(k)
  BY AuthOpened
<1>2. /\ k.stage = "verify" /\ k.kind = "register" /\ k.seen.hash = k.secret
      /\ k.secret \in Issued /\ k.name \in Names /\ k.secret \in Secrets /\ k.secret # NoSecret
  BY <1>1, AuthOpened DEF VerifyRegister, CallTrue, BegunWell, CallRow
<1>3. DeedStep /\ UNCHANGED <<peer, nextSecret, clock, authCache>>
  BY DEF VerifyRegister, Keep, DeedStep
<1>4. PICK m : m = Marked(cred[k.name], "current", k.secret)
  OBVIOUS
<1>5. cred' = [cred EXCEPT ![k.name] = m]
  BY <1>1, <1>2, <1>4 DEF VerifyRegister
<1>6. RowMove(cred[k.name], m, nextSecret) /\ Quiet(cred[k.name], m)
  <2>1. m = cred[k.name] \/ m = Established(cred[k.name])
    BY <1>4 DEF Marked
  <2>2. RowGood(cred[k.name])
    BY <1>2, AuthOpened
  <2> QED BY <2>1, <2>2, EstablishedRow, SameRow DEF Quiet
<1>7. RowsMove /\ QuietRows /\ \A o \in Names : cred'[o] = IF o = k.name THEN m ELSE cred[o]
  BY <1>2, <1>3, <1>5, <1>6, QuietWrite
<1>8. PICK j : j = [IdleCall EXCEPT !.stage = "granted", !.kind = "register", !.name = k.name,
                      !.secret = k.secret, !.basis = "current", !.hash = k.secret]
  OBVIOUS
<1>9. Vouches(k.name, "current", k.secret, k.secret) /\ "register" \in Kinds /\ "current" \in Bases
      /\ k.secret \in Secrets \cup {NoSecret} /\ ~("register" \in {"recover", "abandon"})
  BY <1>2 DEF Vouches, Kinds, Bases
<1>10. j \in CallRow /\ CallTrue(j)
  BY <1>2, <1>8, <1>9, GrantedWell
<1>11. call' = [call EXCEPT ![c] = j]
  BY <1>1, <1>2, <1>8 DEF VerifyRegister, Granted
<1>12. StepWell /\ OnlyCaller(c)
  BY <1>3, <1>7, <1>10, <1>11, CallProceeds
<1>13. ASSUME NEW o \in Names, ~cred[o].established, cred'[o].established
       PROVE  o = k.name /\ cred[o].hash = k.secret
  BY <1>2, <1>4, <1>7, <1>13 DEF Marked, OnRow, HashOf
<1>14. EstablishedBy(c)
  BY <1>1, <1>2, <1>13 DEF EstablishedBy
<1> QED BY <1>12, <1>14 DEF CallWell

LEMMA StepVerifyOneTime ==
  ASSUME AuthInv, NEW c \in Calls, VerifyOneTime(c) PROVE CallWell(c)
<1>1. PICK k \in CallRow : k = call[c] /\ CallTrue(k)
  BY AuthOpened
<1>2. /\ k.stage = "verify" /\ k.kind \in {"recover", "abandon"} /\ k.kind \in Kinds
      /\ k.secret \in Secrets \cup {NoSecret} /\ k.name \in Names /\ BegunWell(k) /\ "current" \in Bases
  BY <1>1 DEF VerifyOneTime, CallTrue, CallRow, Bases
<1>3. Granted(c, k.name, "current", k.secret)
  BY <1>1, <1>2 DEF VerifyOneTime, BegunWell
<1>4. DeedStep /\ UNCHANGED <<cred, authCache, peer, nextSecret, clock>>
  BY DEF VerifyOneTime, Keep, DeedStep
<1>5. PICK j : j = [IdleCall EXCEPT !.stage = "granted", !.kind = k.kind, !.name = k.name,
                      !.secret = k.secret, !.basis = "current", !.hash = k.secret]
  OBVIOUS
<1>6. ~(k.kind \in {"claimed", "token", "register"})
  BY <1>2
<1>7. j \in CallRow /\ CallTrue(j)
  BY <1>2, <1>5, <1>6, GrantedWell
<1>8. call' = [call EXCEPT ![c] = j]
  BY <1>1, <1>3, <1>5 DEF Granted
<1> QED BY <1>4, <1>7, <1>8, CallOnly
LEMMA StepRefused ==
  ASSUME AuthInv, NEW c \in Calls, VerifyRefused(c) \/ DispatchRefused(c) PROVE CallWell(c)
<1>1. Refused(c) /\ DeedStep /\ UNCHANGED <<cred, authCache, peer, nextSecret, clock>>
  BY DEF VerifyRefused, DispatchRefused, Keep, DeedStep
<1> QED BY <1>1, CallRefused

\* The handler's write is a deed of the ledger.
LEMMA DeedIsLive ==
  ASSUME AuthInv, NEW c \in Calls, call[c].stage \in {"granted", "late"}, Authorized(c), Deed(c)
  PROVE  DeedStep
BY AuthorizedIsLive DEF Deed, DeedStep

LEMMA StepHandleWrite ==
  ASSUME AuthInv, NEW c \in Calls, HandleWrite(c) PROVE CallWell(c)
<1>1. Refused(c) /\ DeedStep /\ UNCHANGED <<cred, authCache, peer, nextSecret, clock>>
  BY DeedIsLive DEF HandleWrite
<1> QED BY <1>1, CallRefused

LEMMA StepHandleAwaits ==
  ASSUME AuthInv, NEW c \in Calls, HandleAwaits(c) PROVE CallWell(c)
<1>1. PICK k \in CallRow : k = call[c] /\ CallTrue(k)
  BY AuthOpened
<1>2. PICK j : j = [k EXCEPT !.stage = "late"]
  OBVIOUS
<1>3. k.stage = "granted"
  BY <1>1 DEF HandleAwaits
<1>4. /\ j \in CallRow /\ j.stage = "late" /\ j.kind = k.kind /\ j.name = k.name /\ j.secret = k.secret
      /\ j.basis = k.basis /\ j.hash = k.hash
  BY <1>2 DEF CallRow
<1>5. CallTrue(j)
  BY <1>1, <1>3, <1>4 DEF CallTrue
<1>6. call' = [call EXCEPT ![c] = j] /\ DeedStep /\ UNCHANGED <<cred, authCache, peer, nextSecret, clock>>
  BY <1>1, <1>2 DEF HandleAwaits, Keep, DeedStep
<1> QED BY <1>4, <1>5, <1>6, CallOnly

\* A credential write of the daemon: it ends the call and overtakes every other.
LEMMA Commits ==
  ASSUME AuthInv, NEW c \in Calls, NEW n \in Names, NEW row, NEW k \in 0 .. 2, Commit(c, n, row, k),
         RowMove(cred[n], row, nextSecret), nextSecret + k <= MaxSecrets + 1, k = 0 => row.hash # nextSecret,
         UNCHANGED <<peer, clock>>, DeedStep,
         ~cred[n].established /\ row.established =>
           /\ call[c].name = n
           /\ \/ call[c].secret \in {cred[n].hash, cred[n].prev, cred[n].recovery} \ {NoSecret}
              \/ call[c].kind = "new" /\ cred[n].state = "recovery_pending"
  PROVE  CallWell(c) /\ \A m \in Names : cred'[m] = IF m = n THEN row ELSE cred[m]
<1>1. /\ cred' = [cred EXCEPT ![n] = row] /\ authCache' = EmptyCache
      /\ call' = Stale([call EXCEPT ![c] = IdleCall]) /\ nextSecret' = nextSecret + k
  BY DEF Commit
<1>2. RowsMove /\ \A m \in Names : cred'[m] = IF m = n THEN row ELSE cred[m]
  BY <1>1, OneRowMoves
<1>3. PICK calls : calls = [call EXCEPT ![c] = IdleCall]
  OBVIOUS
<1>4. call \in [Calls -> CallRow] /\ peer' \in PeerRow /\ clock' = clock
  BY DEF AuthInv, AuthTypeOK
<1>5. /\ calls \in [Calls -> CallRow]
      /\ \A d \in Calls : calls[d] = IF d = c THEN IdleCall ELSE call[d]
  BY <1>3, <1>4, Nothings
<1>6. StepWell
  BY <1>1, <1>2, <1>3, <1>4, <1>5, Overtakes
<1>7. OnlyCaller(c)
  BY <1>1, <1>3, <1>5 DEF OnlyCaller, Stale, CallRow
<1>8. EstablishedBy(c)
  BY <1>2 DEF EstablishedBy
<1> QED BY <1>2, <1>6, <1>7, <1>8 DEF CallWell

\* What the writes say of the mark of an established identity.
LEMMA MarkKept ==
  ASSUME NEW r \in CredRow, NEW t, NEW rec
  PROVE  /\ RotatedHard(r, t).established = r.established
         /\ RotatedGrace(r, t).established = r.established
         /\ Reregistered(r).established = r.established
         /\ Registered(t, rec).established = FALSE
         /\ NoRow.established = FALSE
         /\ Recovered(r, t).established => r.established \/ r.state = "recovery_pending"
<1>1. RotatedHard(r, t).established = r.established
  BY DEF RotatedHard, CredRow
<1>2. RotatedGrace(r, t).established = r.established
  BY DEF RotatedGrace, CredRow
<1>4. Reregistered(r).established = r.established
  BY DEF Reregistered, CredRow
<1>5. Registered(t, rec).established = FALSE /\ NoRow.established = FALSE
  BY DEF Registered, NoRow
<1>6. Recovered(r, t).established => r.established \/ r.state = "recovery_pending"
  BY DEF Recovered, CredRow
<1> QED BY <1>1, <1>2, <1>4, <1>5, <1>6

LEMMA MarkKeptRevoked ==
  ASSUME NEW r \in CredRow, NEW rec PROVE Revoked(r, rec).established = r.established
BY DEF Revoked, CredRow

LEMMA StepHandleRotate ==
  ASSUME AuthInv, NEW c \in Calls, NEW n \in Names, HandleRotate(c, n) PROVE CallWell(c)
<1>1. /\ cred[n].state = "active" /\ CanGenerate(1) /\ DeedStep /\ UNCHANGED <<peer, clock>>
      /\ RowGood(cred[n]) /\ cred[n] \in CredRow /\ clock \in Nat
  BY DeedIsLive, AuthOpened DEF HandleRotate, RowGood
<1>2. nextSecret \in Secrets /\ nextSecret + 1 <= MaxSecrets + 1 /\ 1 \in 0 .. 2 /\ ~(1 = 0)
  BY <1>1, IssuedNext
<1>3. CASE Commit(c, n, RotatedHard(cred[n], nextSecret), 1)
  <2>1. RowMove(cred[n], RotatedHard(cred[n], nextSecret), nextSecret)
    BY <1>1, <1>2, RotatedHardRow
  <2>2. ~(~cred[n].established /\ RotatedHard(cred[n], nextSecret).established)
    BY <1>1, MarkKept
  <2> QED BY <1>1, <1>2, <1>3, <2>1, <2>2, Commits
<1>4. CASE Commit(c, n, RotatedGrace(cred[n], nextSecret), 1)
  <2>1. RowMove(cred[n], RotatedGrace(cred[n], nextSecret), nextSecret)
    BY <1>1, <1>2, RotatedGraceRow
  <2>2. ~(~cred[n].established /\ RotatedGrace(cred[n], nextSecret).established)
    BY <1>1, MarkKept
  <2> QED BY <1>1, <1>2, <1>4, <2>1, <2>2, Commits
<1> QED BY <1>3, <1>4 DEF HandleRotate

LEMMA StepHandleRevoke ==
  ASSUME AuthInv, NEW c \in Calls, NEW n \in Names, HandleRevoke(c, n) PROVE CallWell(c)
<1>1. /\ cred[n].state \in Revocable /\ DeedStep /\ UNCHANGED <<peer, clock>>
      /\ RowGood(cred[n]) /\ cred[n] \in CredRow
  BY DeedIsLive, AuthOpened DEF HandleRevoke, RowGood
<1>2. CASE Commit(c, n, Revoked(cred[n], NoSecret), 0)
  <2>1. nextSecret + 0 <= MaxSecrets + 1 /\ 0 \in 0 .. 2
    BY AuthOpened
  <2>2. RowMove(cred[n], Revoked(cred[n], NoSecret), nextSecret) /\ Revoked(cred[n], NoSecret).hash # nextSecret
    BY <1>1, RevokedRow, OldTokens
  <2>3. ~(~cred[n].established /\ Revoked(cred[n], NoSecret).established)
    BY <1>1, MarkKeptRevoked
  <2> QED BY <1>1, <1>2, <2>1, <2>2, <2>3, Commits
<1>3. CASE CanGenerate(1) /\ Commit(c, n, Revoked(cred[n], nextSecret), 1)
  <2>1. nextSecret \in Secrets /\ nextSecret + 1 <= MaxSecrets + 1 /\ 1 \in 0 .. 2 /\ ~(1 = 0)
    BY <1>3, IssuedNext
  <2>2. RowMove(cred[n], Revoked(cred[n], nextSecret), nextSecret)
    BY <1>1, <2>1, RevokedRow
  <2>3. ~(~cred[n].established /\ Revoked(cred[n], nextSecret).established)
    BY <1>1, MarkKeptRevoked
  <2> QED BY <1>1, <1>3, <2>1, <2>2, <2>3, Commits
<1> QED BY <1>2, <1>3 DEF HandleRevoke

LEMMA RowDeleted ==
  ASSUME AuthInv, NEW c \in Calls, NEW n \in Names, Commit(c, n, NoRow, 0), UNCHANGED <<peer, clock>>, DeedStep
  PROVE  CallWell(c) /\ \A m \in Names : cred'[m] = IF m = n THEN NoRow ELSE cred[m]
<1>1. nextSecret + 0 <= MaxSecrets + 1 /\ 0 \in 0 .. 2
  BY AuthOpened
<1>2. RowMove(cred[n], NoRow, nextSecret) /\ NoRow.hash # nextSecret
  BY EmptyRow, RemovedRow, OldTokens
<1>3. ~(~cred[n].established /\ NoRow.established)
  BY DEF NoRow
<1> QED BY <1>1, <1>2, <1>3, Commits

LEMMA StepHandleUnregister ==
  ASSUME AuthInv, NEW c \in Calls, HandleUnregister(c) PROVE CallWell(c)
<1>1. call[c].name \in Names
  BY AuthOpened DEF CallRow
<1>2. Commit(c, call[c].name, NoRow, 0) /\ DeedStep /\ UNCHANGED <<peer, clock>>
  BY DeedIsLive DEF HandleUnregister
<1>3. PICK n \in Names : n = call[c].name /\ Commit(c, n, NoRow, 0)
  BY <1>1, <1>2
<1> QED BY <1>2, <1>3, RowDeleted

LEMMA StepHandleAbandon ==
  ASSUME AuthInv, NEW c \in Calls, HandleAbandon(c)
  PROVE  /\ CallWell(c)
         /\ \A n \in Names : cred'[n] # cred[n] =>
              call[c].secret = cred[n].handle /\ ~cred[n].established /\ cred'[n].state = "none"
<1>1. PICK k \in CallRow : k = call[c] /\ CallTrue(k)
  BY AuthOpened
<1>2. k.stage = "granted" /\ k.kind = "abandon" /\ k.name \in Names /\ k.hash = k.secret
  BY <1>1 DEF HandleAbandon, CallTrue, CallRow
<1>3. DeedStep /\ UNCHANGED <<peer, clock>>
  BY DEF HandleAbandon, Keep, DeedStep
<1>4. CASE StillAbandonable(k, cred[k.name])
  <2>1. Commit(c, k.name, NoRow, 0)
    BY <1>1, <1>4 DEF HandleAbandon
  <2>2. CallWell(c) /\ \A m \in Names : cred'[m] = IF m = k.name THEN NoRow ELSE cred[m]
    BY <1>2, <1>3, <2>1, RowDeleted
  <2>3. cred[k.name].handle = k.secret /\ ~cred[k.name].established
    BY <1>2, <1>4 DEF StillAbandonable, Abandonable
  <2> QED BY <1>1, <2>2, <2>3, EmptyRow
<1>5. CASE ~StillAbandonable(k, cred[k.name])
  <2>1. Refused(c) /\ UNCHANGED <<cred, authCache, nextSecret>>
    BY <1>1, <1>5 DEF HandleAbandon
  <2> QED BY <1>3, <2>1, CallRefused
<1> QED BY <1>4, <1>5

LEMMA StepHandleRegister ==
  ASSUME AuthInv, NEW c \in Calls, HandleRegister(c)
  PROVE  /\ CallWell(c)
         /\ \A n \in Names : call[c].kind = "recover" /\ cred[n].state = "recovery_pending" /\ cred'[n].state = "active"
                               => call[c].secret = cred[n].recovery
<1>1. PICK k \in CallRow : k = call[c] /\ CallTrue(k)
  BY AuthOpened
<1>2. PICK n \in Names : n = k.name
  BY DEF CallRow
<1>3. PICK r \in CredRow : r = cred[n] /\ RowGood(r)
  BY AuthOpened DEF RowGood
<1>4. /\ k.stage = "granted" /\ k.kind \in {"register", "recover", "new"}
      /\ k.kind = "register" => StillGood(r, k.basis, k.hash, clock)
      /\ k.kind = "recover" => k.hash = k.secret
  BY <1>1, <1>2, <1>3 DEF HandleRegister, CallTrue
<1>5. DeedStep /\ UNCHANGED <<peer, clock>>
  BY DEF HandleRegister, Keep, DeedStep
<1>6. CASE /\ r.state = "none" /\ CanGenerate(2)
           /\ Commit(c, n, Registered(nextSecret, nextSecret + 1), 2)
  <2>1. /\ nextSecret \in Secrets /\ nextSecret + 1 \in Secrets /\ nextSecret + 2 <= MaxSecrets + 1 /\ 2 \in 0 .. 2
        /\ ~(2 = 0)
    BY <1>6, IssuedNext
  <2>2. RowMove(cred[n], Registered(nextSecret, nextSecret + 1), nextSecret)
    BY <1>3, <1>6, <2>1, RegisteredRow
  <2>3. ~Registered(nextSecret, nextSecret + 1).established
    BY <1>3, MarkKept
  <2>4. CallWell(c) /\ \A m \in Names : cred'[m] = IF m = n THEN Registered(nextSecret, nextSecret + 1) ELSE cred[m]
    BY <1>5, <1>6, <2>1, <2>2, <2>3, Commits
  <2> QED BY <1>3, <1>6, <2>4
<1>7. CASE /\ r.state \in {"recovery_pending", "legacy_bootstrap"} /\ CanGenerate(1) /\ RecoveryStands(k, r)
           /\ Commit(c, n, Recovered(r, nextSecret), 1)
  <2>1. nextSecret \in Secrets /\ nextSecret + 1 <= MaxSecrets + 1 /\ 1 \in 0 .. 2 /\ ~(1 = 0)
    BY <1>7, IssuedNext
  <2>2. RowMove(cred[n], Recovered(r, nextSecret), nextSecret)
    BY <1>3, <1>7, <2>1, RecoveredRow
  <2>3. k.kind \in {"recover", "new"} /\ (k.kind = "recover" => k.secret = r.recovery)
    BY <1>4, <1>7 DEF StillGood, RecoveryStands
  <2>4. ~cred[n].established /\ Recovered(r, nextSecret).established =>
          /\ call[c].name = n
          /\ \/ call[c].secret \in {cred[n].hash, cred[n].prev, cred[n].recovery} \ {NoSecret}
             \/ call[c].kind = "new" /\ cred[n].state = "recovery_pending"
    <3> SUFFICES ASSUME ~cred[n].established, Recovered(r, nextSecret).established
                 PROVE  \/ k.secret \in {r.hash, r.prev, r.recovery} \ {NoSecret}
                        \/ k.kind = "new" /\ r.state = "recovery_pending"
      BY <1>1, <1>2, <1>3
    <3>1. r.state = "recovery_pending" /\ r.recovery # NoSecret
      BY <1>3, MarkKept DEF RowGood, RowCoherent
    <3> QED BY <2>3, <3>1
  <2>5. CallWell(c) /\ \A m \in Names : cred'[m] = IF m = n THEN Recovered(r, nextSecret) ELSE cred[m]
    BY <1>5, <1>7, <2>1, <2>2, <2>4, Commits
  <2> QED BY <1>1, <1>3, <2>3, <2>5
<1>8. CASE /\ r.state \notin {"none", "recovery_pending", "legacy_bootstrap"}
           /\ Commit(c, n, Reregistered(r), 0)
  <2>1. nextSecret + 0 <= MaxSecrets + 1 /\ 0 \in 0 .. 2
    BY AuthOpened
  <2>2. RowMove(cred[n], Reregistered(r), nextSecret) /\ Quiet(cred[n], Reregistered(r))
    BY <1>3, HeldRow DEF Reregistered
  <2>3. Reregistered(r).hash # nextSecret
    BY <1>3, <2>2, OldTokens DEF Quiet
  <2>4. ~(~cred[n].established /\ Reregistered(r).established)
    BY <1>3, MarkKept
  <2>5. CallWell(c) /\ \A m \in Names : cred'[m] = IF m = n THEN Reregistered(r) ELSE cred[m]
    BY <1>5, <1>8, <2>1, <2>2, <2>3, <2>4, Commits
  <2> QED BY <1>3, <1>8, <2>5
<1>9. CASE Refused(c) /\ UNCHANGED <<cred, authCache, nextSecret>>
  <2>1. CallWell(c)
    BY <1>5, <1>9, CallRefused
  <2> QED BY <1>9, <2>1
<1> QED BY <1>1, <1>2, <1>3, <1>6, <1>7, <1>8, <1>9 DEF HandleRegister
LEMMA StepAuthCall ==
  ASSUME AuthInv, NEW c \in Calls, CallStep(c) PROVE CallWell(c)
<1>1. CASE \E n \in Names, s \in Secrets : \/ ClaimIdentity(c, n, s) \/ RegisterAgain(c, n, s)
                                           \/ RegisterRecovering(c, n, s) \/ Abandon(c, n, s)
                                           \/ ScanRow(c, s, n)
  BY <1>1, StepClaimIdentity, StepOpens
<1>2. CASE \E s \in Secrets : PresentToken(c, s)
  BY <1>2, StepPresentToken
<1>3. CASE \E n \in Names : RegisterNew(c, n) \/ HandleRotate(c, n) \/ HandleRevoke(c, n)
  BY <1>3, StepRegisterNew, StepHandleRotate, StepHandleRevoke
<1>4. CASE VerifyRefused(c) \/ DispatchRefused(c)
  BY <1>4, StepRefused
<1>5. CASE VerifyClaimed(c) \/ VerifyToken(c) \/ VerifyRegister(c) \/ VerifyOneTime(c)
  BY <1>5, StepVerifyClaimed, StepVerifyToken, StepVerifyRegister, StepVerifyOneTime
<1>6. CASE \E answered \in BOOLEAN : SecondCompare(c, answered)
  BY <1>6, StepSecondCompare
<1>7. CASE HandleWrite(c) \/ HandleAwaits(c) \/ HandleUnregister(c)
  BY <1>7, StepHandleWrite, StepHandleAwaits, StepHandleUnregister
<1>8. CASE HandleRegister(c) \/ HandleAbandon(c)
  BY <1>8, StepHandleRegister, StepHandleAbandon
<1> QED BY <1>1, <1>2, <1>3, <1>4, <1>5, <1>6, <1>7, <1>8 DEF CallStep

\* The steps of the daemon's calls apart from the others, which leave the calls where they are.
LEMMA AuthSteps ==
  ASSUME AuthInv, AuthNext
  PROVE  StepWell /\ (\/ \E c \in Calls : CallStep(c) /\ CallWell(c)
                      \/ \A c \in Calls : call'[c].stage = call[c].stage)
<1>1. CASE \E c \in Calls : CallStep(c)
  BY <1>1, StepAuthCall DEF CallWell
<1>2. ASSUME NEW n \in Names,
             \/ PeerRegister(n) \/ PeerMint(n) \/ PeerRevoke(n) \/ PeerRemove(n) \/ PeerServes(n)
             \/ SessionEnds(n) \/ \E op \in {"mint", "rotate", "sweep"} : PeerRead(n, op)
      PROVE  StepWell /\ call' = call
  BY <1>2, StepPeerRegister, StepPeerMint, StepPeerRevoke, StepPeerRemove, StepPeerServes,
     StepSessionEnds, StepPeerRead
<1>3. CASE \E n \in Names : SweepGrace(n)
  BY <1>3, StepSweepGrace
<1>4. CASE PeerBump
  BY <1>4, StepPeerBump
<1>5. CASE PeerWrite \/ LoseLookupKey \/ AuthTick
  BY <1>5, StepPeerWrite, StepLoseLookupKey, StepAuthTick
<1>6. CASE \E n \in Names :
             \/ PeerRegister(n) \/ PeerMint(n) \/ PeerRevoke(n) \/ PeerRemove(n) \/ PeerServes(n)
             \/ SessionEnds(n) \/ \E op \in {"mint", "rotate", "sweep"} : PeerRead(n, op)
  <2>1. StepWell /\ call' = call
    BY <1>2, <1>6
  <2> QED BY <2>1
<1> QED BY <1>1, <1>3, <1>4, <1>5, <1>6 DEF AuthNext

LEMMA AuthStutter ==
  ASSUME AuthInv, UNCHANGED authVars PROVE AuthInv'
<1>1. UNCHANGED <<cred, authCache, call, peer, nextSecret, clock, did>>
  BY DEF authVars
<1>2. RowsMove /\ QuietRows
  BY <1>1, NoRowMoves
<1>3. AuthTypeOK' /\ DigestOfToken' /\ UniqueTokens'
  BY <1>1, <1>2, Carries DEF AuthInv, AuthTypeOK
<1>4. ASSUME NEW d \in Calls PROVE CallTrue(call[d])'
  <2>1. PICK k \in CallRow : k = call[d] /\ CallTrue(k)
    BY AuthOpened
  <2>2. CallTrue(k)'
    BY <1>1, <1>2, <2>1, CallCarries
  <2> QED BY <1>1, <2>1, <2>2 DEF CallTrue
<1>5. ASSUME NEW s \in Secrets PROVE EntryGood(s, authCache[s])'
  <2>1. PICK e \in CacheEntry \cup {NoEntry} : e = authCache[s] /\ EntryGood(s, e) /\ e = authCache'[s]
    BY <1>1, AuthOpened
  <2>2. CASE e = NoEntry
    BY <2>1, <2>2 DEF EntryGood
  <2>3. CASE e \in CacheEntry
    <3>1. clock' \in Nat
      BY <1>1, AuthOpened
    <3>2. EntryGood(s, e)'
      BY <1>1, <1>2, <2>1, <2>3, <3>1, EntryCarries
    <3> QED BY <2>1, <3>2 DEF EntryGood
  <2> QED BY <2>2, <2>3
<1> QED BY <1>3, <1>4, <1>5 DEF AuthInv

LEMMA AuthInvariant == AuthSpec => []AuthInv
<1>1. AuthInit => AuthInv
  <2> SUFFICES ASSUME AuthInit PROVE AuthInv
    OBVIOUS
  <2>1. /\ cred \in [Names -> {NoRow, Legacy}] /\ authCache = EmptyCache /\ call = [c \in Calls |-> IdleCall]
        /\ peer = IdlePeer /\ nextSecret = 1 /\ clock = 0 /\ did = NoDeed
    BY DEF AuthInit
  <2>2. RowGood(Legacy) /\ Legacy.hash = NoSecret /\ Legacy.prev = NoSecret
    <3>1. /\ Legacy \in CredRow /\ Legacy.state = "legacy_bootstrap" /\ Legacy.hash = NoSecret
          /\ Legacy.prev = NoSecret /\ Legacy.look = NoSecret /\ Legacy.until = 0 /\ Legacy.recovery = NoSecret
      BY DEF Legacy, NoRow, CredRow, AuthStates
    <3> QED BY <3>1 DEF RowGood, RowCoherent
  <2>3. \A n \in Names : RowGood(cred[n]) /\ cred[n].hash = NoSecret /\ cred[n].prev = NoSecret
    BY <2>1, <2>2, EmptyRow
  <2>4. cred \in [Names -> CredRow] /\ \A n \in Names : RowCoherent(cred[n])
    BY <2>1, <2>3 DEF RowGood
  <2>5. /\ authCache \in [Secrets -> CacheEntry \cup {NoEntry}] /\ \A s \in Secrets : authCache[s] = NoEntry
        /\ call \in [Calls -> CallRow] /\ \A c \in Calls : call[c] = IdleCall
    BY <2>1, Nothings DEF EmptyCache
  <2>6. nextSecret \in 1 .. MaxSecrets + 1 /\ clock \in 0 .. MaxNow
    BY <2>1, AuthBounds
  <2>7. AuthTypeOK
    BY <2>1, <2>4, <2>5, <2>6, Nothings DEF AuthTypeOK
  <2>8. DigestOfToken /\ UniqueTokens
    BY <2>3 DEF DigestOfToken, UniqueTokens, RowGood
  <2>9. \A c \in Calls : CallTrue(call[c])
    BY <2>5, Nothings DEF CallTrue
  <2>10. \A s \in Secrets : EntryGood(s, authCache[s])
    BY <2>5 DEF EntryGood
  <2> QED BY <2>7, <2>8, <2>9, <2>10 DEF AuthInv
<1>2. AuthInv /\ [AuthNext]_authVars => AuthInv'
  BY AuthSteps, AuthStutter DEF StepWell
<1> QED BY <1>1, <1>2, PTL DEF AuthSpec

\* An entry that may be served rests on a token that is live.
LEMMA InvCacheHonest == AuthInv => CacheHonest
<1> SUFFICES ASSUME AuthInv, peer.stage # "bump", NEW s \in Secrets, Hits(s, Names)
             PROVE  s \in LiveSecrets(authCache[s].name)
  BY DEF CacheHonest
<1>1. PICK e \in CacheEntry : e = authCache[s] /\ EntryGood(s, e) /\ e # NoEntry
  BY AuthOpened DEF Hits
<1>2. /\ e.name \in Names /\ e.basis \in Bases /\ Vouches(e.name, e.basis, e.hash, s)
      /\ StillGood(cred[e.name], e.basis, e.hash, clock)
  BY <1>1 DEF EntryGood, CacheEntry
<1>3. s # NoSecret
  BY <1>2, AuthOpened DEF Vouches
<1>4. \E a \in Bases : s = HashOf(cred[e.name], a) /\ StillGood(cred[e.name], a, s, clock)
  <2>1. CASE e.hash = s
    BY <1>2, <2>1 DEF StillGood
  <2>2. CASE e.hash # s
    <3>1. e.basis = "previous" /\ cred[e.name].prev = e.hash /\ cred[e.name].hash = s
      BY <1>2, <2>2 DEF Vouches, StillGood, HashOf
    <3>2. StillGood(cred[e.name], "current", s, clock)
      BY <1>2, <1>3, <3>1 DEF StillGood, HashOf
    <3> QED BY <3>1, <3>2 DEF Bases, HashOf
  <2> QED BY <2>1, <2>2
<1> QED BY <1>1, <1>4 DEF LiveSecrets

\* A granted recovery or handle is used by the two handlers that it is for, or not at all.
LEMMA OneTimeUse ==
  ASSUME NEW c \in Calls, CallStep(c), call[c].stage = "granted"
  PROVE  /\ call[c].kind = "recover" => HandleRegister(c)
         /\ call[c].kind = "abandon" => HandleAbandon(c)
<1> SUFFICES ASSUME call[c].kind \in {"recover", "abandon"} PROVE HandleRegister(c) \/ HandleAbandon(c)
  BY DEF HandleRegister, HandleAbandon
<1>1. ~Authorized(c)
  BY DEF Authorized
<1>2. \A n \in Names, s \in Secrets : ~(\/ ClaimIdentity(c, n, s) \/ RegisterAgain(c, n, s)
                                        \/ RegisterRecovering(c, n, s) \/ Abandon(c, n, s)
                                        \/ ScanRow(c, s, n))
  BY DEF ClaimIdentity, RegisterAgain, RegisterRecovering, Abandon, ScanRow
<1>3. \A s \in Secrets : ~PresentToken(c, s)
  BY DEF PresentToken
<1>4. \A n \in Names : ~(RegisterNew(c, n) \/ HandleRotate(c, n) \/ HandleRevoke(c, n))
  BY <1>1 DEF RegisterNew, HandleRotate, HandleRevoke
<1>5. ~(VerifyRefused(c) \/ VerifyClaimed(c) \/ VerifyToken(c) \/ VerifyRegister(c) \/ VerifyOneTime(c))
  BY DEF VerifyRefused, VerifyClaimed, VerifyToken, VerifyRegister, VerifyOneTime
<1>6. \A answered \in BOOLEAN : ~SecondCompare(c, answered)
  BY DEF SecondCompare
<1>7. ~(DispatchRefused(c) \/ HandleWrite(c) \/ HandleAwaits(c) \/ HandleUnregister(c))
  BY <1>1 DEF DispatchRefused, HandleWrite, HandleAwaits, HandleUnregister
<1> QED BY <1>2, <1>3, <1>4, <1>5, <1>6, <1>7 DEF CallStep

\* The tokens that authenticate after a step did so before, but for one that was generated in it.
LEMMA LiveMoves ==
  ASSUME AuthInv, StepWell, NEW n \in Names, NEW s \in LiveSecrets(n)'
  PROVE  s \in LiveSecrets(n) \/ s = nextSecret
<1>1. PICK r : r = cred[n] /\ RowGood(r)
  BY AuthOpened
<1>2. PICK q : q = cred'[n] /\ RowMove(r, q, nextSecret)
  BY <1>1 DEF StepWell, RowsMove
<1>3. clock \in Nat /\ clock' \in Nat /\ clock <= clock'
  BY AuthOpened DEF StepWell
<1>4. PICK b \in Bases : s = HashOf(q, b) /\ StillGood(q, b, s, clock') /\ s \in Secrets
  BY <1>2 DEF LiveSecrets
<1>5. CASE b = "current"
  <2>1. q.state \in Alive /\ q.hash = s /\ s # NoSecret
    BY <1>4, <1>5 DEF StillGood, HashOf, Alive
  <2>2. s = nextSecret \/ (r.state \in Alive /\ r.hash = s)
    BY <1>2, <2>1 DEF RowMove, LiveMove
  <2>3. ASSUME r.state \in Alive, r.hash = s PROVE StillGood(r, "current", s, clock) /\ s = HashOf(r, "current")
    BY <2>1, <2>3 DEF StillGood, HashOf, Alive
  <2> QED BY <1>1, <1>4, <2>2, <2>3 DEF LiveSecrets, Bases
<1>6. CASE b = "previous"
  <2>1. q.state = "rotation_grace" /\ q.prev = s /\ s # NoSecret /\ ~Expired(q, clock')
    BY <1>4, <1>6 DEF StillGood, HashOf
  <2>2. \/ r.state = "rotation_grace" /\ q.prev = r.prev /\ q.until = r.until
        \/ r.state = "active" /\ q.prev = r.hash
    BY <1>2, <2>1 DEF RowMove, LiveMove
  <2>3. CASE r.state = "active" /\ q.prev = r.hash
    <3>1. StillGood(r, "current", s, clock) /\ s = HashOf(r, "current")
      BY <2>1, <2>3 DEF StillGood, HashOf
    <3> QED BY <1>1, <1>4, <3>1 DEF LiveSecrets, Bases
  <2>4. CASE r.state = "rotation_grace" /\ q.prev = r.prev /\ q.until = r.until
    <3>1. r.until \in Nat
      BY <1>1 DEF RowGood, CredRow
    <3>2. ~Expired(r, clock)
      BY <1>3, <2>1, <2>4, <3>1 DEF Expired
    <3>3. StillGood(r, "previous", s, clock) /\ s = HashOf(r, "previous")
      BY <2>1, <2>4, <3>2 DEF StillGood, HashOf
    <3> QED BY <1>1, <1>4, <3>3 DEF LiveSecrets, Bases
  <2> QED BY <2>2, <2>3, <2>4
<1> QED BY <1>5, <1>6 DEF Bases

\* A live token was issued, and is on one row.
LEMMA LiveIsIssued ==
  ASSUME AuthInv, NEW n \in Names, NEW s \in LiveSecrets(n)
  PROVE  s \in Issued /\ s \in Secrets /\ \A m \in Names : s \in LiveSecrets(m) => m = n
<1>1. s \in Secrets /\ s # NoSecret
  BY DEF LiveSecrets, StillGood
<1>2. \A m \in Names : s \in LiveSecrets(m) => s = cred[m].hash \/ s = cred[m].prev
  BY DEF LiveSecrets, HashOf
<1>3. s = cred[n].hash \/ s = cred[n].prev
  BY <1>2
<1> QED BY <1>1, <1>2, <1>3, AuthOpened DEF UniqueTokens
LiveOnOneRow == \A n \in Names : \A s \in LiveSecrets(n) :
                  s \in Issued /\ s \in Secrets /\ \A m \in Names : s \in LiveSecrets(m) => m = n

LEMMA AuthLiveOnOneRow == AuthInv => LiveOnOneRow
BY LiveIsIssued DEF LiveOnOneRow

LEMMA CredLedgerSteps ==
  ASSUME AuthInv, AuthInv', StepWell
  PROVE  Ledger!Next
<1> DEFINE Live(n) == LiveSecrets(n)
           live == [n \in Names |-> LiveSecrets(n)]
           dead == {s \in Issued : \A n \in Names : s \notin LiveSecrets(n)}
<1>1. live' = [n \in Names |-> LiveSecrets(n)'] /\ dead' = {s \in Issued' : \A n \in Names : s \notin LiveSecrets(n)'}
  OBVIOUS
<1>2. \A n \in Names : live[n] = LiveSecrets(n) /\ live'[n] = LiveSecrets(n)'
  BY <1>1
<1>3. Issued \subseteq Issued' /\ nextSecret \notin Issued
  BY Carries DEF StepWell
<1>4. \A n \in Names : \A s \in LiveSecrets(n) :
        s \in Issued /\ \A m \in Names : s \in LiveSecrets(m) => m = n
  BY LiveIsIssued
<1>5. \A n \in Names : \A s \in LiveSecrets(n)' :
        s \in Issued' /\ s \in Secrets /\ \A m \in Names : s \in LiveSecrets(m)' => m = n
  <2>1. LiveOnOneRow'
    BY AuthLiveOnOneRow, PTL
  <2> QED BY <2>1 DEF LiveOnOneRow
<1>6. \A n \in Names : \A s \in LiveSecrets(n)' : s \in LiveSecrets(n) \/ s = nextSecret
  BY LiveMoves
<1>7. live' \in [Names -> SUBSET Secrets]
  <2>1. \A n \in Names : LiveSecrets(n)' \subseteq Secrets
    BY <1>5
  <2> QED BY <1>1, <2>1
<1>8. \A n \in Names : live'[n] \cap dead = {}
  BY <1>2, <1>3, <1>6
<1>9. \A a, b \in Names : a # b => live'[a] \cap live'[b] = {}
  BY <1>2, <1>5
<1>10. UNION {live[a] : a \in Names} \subseteq dead' \cup UNION {live'[a] : a \in Names}
  <2> SUFFICES ASSUME NEW a \in Names, NEW s \in live[a]
               PROVE  s \in dead' \/ \E m \in Names : s \in live'[m]
    OBVIOUS
  <2>1. s \in Issued'
    BY <1>2, <1>3, <1>4
  <2> QED BY <1>1, <1>2, <2>1
<1>11. dead \subseteq dead'
  <2> SUFFICES ASSUME NEW s \in dead PROVE s \in dead'
    OBVIOUS
  <2>1. s \in Issued /\ \A n \in Names : s \notin LiveSecrets(n)
    OBVIOUS
  <2>2. \A n \in Names : s \notin LiveSecrets(n)'
    BY <1>3, <1>6, <2>1
  <2>3. s \in Issued'
    BY <1>3, <2>1
  <2> QED BY <1>1, <2>2, <2>3
<1>12. \/ <<did.name, did.secret>>' = <<NoDeed.name, NoDeed.secret>>
       \/ \E a \in Names : \E k \in live[a] : <<did.name, did.secret>>' = <<a, k>>
  <2>1. CASE did' = NoDeed
    BY <2>1
  <2>2. CASE \E n \in Names : \E s \in LiveSecrets(n) : did' = [name |-> n, secret |-> s]
    <3>0. PICK n \in Names : \E s \in LiveSecrets(n) : did' = [name |-> n, secret |-> s]
      BY <2>2
    <3>1. PICK s \in LiveSecrets(n) : did' = [name |-> n, secret |-> s]
      BY <3>0
    <3>2. <<did.name, did.secret>>' = <<n, s>> /\ s \in live[n]
      BY <1>2, <3>1
    <3> QED BY <3>2
  <2> QED BY <2>1, <2>2 DEF StepWell, DeedStep
<1>13. Ledger!Change
  BY <1>7, <1>8, <1>9, <1>10, <1>11 DEF Ledger!Change
<1>14. <<did.name, did.secret>>' = <<NoDeed.name, NoDeed.secret>> \/ Ledger!Write
  BY <1>12 DEF Ledger!Write
<1> QED BY <1>13, <1>14 DEF Ledger!Next

\* The credentials keep the promises of the ledger: a key authenticates one agent, a dead one never
\* serves again, and whoever writes presents a key that is live at the moment of the write.
THEOREM CredentialsImplementLedger == AuthSpec => ImplementsCredentials
<1> DEFINE live == [n \in Names |-> LiveSecrets(n)]
           dead == {s \in Issued : \A n \in Names : s \notin LiveSecrets(n)}
           deed == <<did.name, did.secret>>
<1>1. AuthInit => Ledger!Init
  <2> SUFFICES ASSUME AuthInit PROVE Ledger!Init
    OBVIOUS
  <2>1. \A n \in Names : cred[n].state \notin {"active", "rotation_grace"}
    BY DEF AuthInit, NoRow, Legacy
  <2>2. \A n \in Names : LiveSecrets(n) = {}
    BY <2>1 DEF LiveSecrets, StillGood
  <2>3. live = [n \in Names |-> {}]
    BY <2>2
  <2>4. Issued = {}
    BY DEF AuthInit, Issued
  <2>5. dead = {} /\ deed = <<NoDeed.name, NoDeed.secret>>
    BY <2>4 DEF AuthInit
  <2> QED BY <2>3, <2>5 DEF Ledger!Init
<1>2. AuthInv /\ AuthInv' /\ [AuthNext]_authVars => [Ledger!Next]_<<live, dead, deed>>
  <2> SUFFICES ASSUME AuthInv, AuthInv', [AuthNext]_authVars PROVE [Ledger!Next]_<<live, dead, deed>>
    OBVIOUS
  <2>1. CASE AuthNext
    BY <2>1, AuthSteps, CredLedgerSteps
  <2>2. CASE UNCHANGED authVars
    BY <2>2 DEF authVars, LiveSecrets, Issued
  <2> QED BY <2>1, <2>2
<1> QED
  BY <1>1, <1>2, AuthInvariant, PTL DEF AuthSpec, ImplementsCredentials, Ledger!Spec, Ledger!vars

LEMMA RevocationStep ==
  ASSUME AuthInv, [AuthNext]_authVars
  PROVE  [\A n \in Names :
            /\ cred[n].state = "revoked" => cred'[n].state \in {"revoked", "none"}
            /\ cred[n].state = "recovery_pending" /\ cred'[n].state \notin {"none", "revoked",
                                                                            "recovery_pending"}
                 => cred'[n].recovery = NoSecret /\ cred'[n].hash = nextSecret]_authVars
<1>1. CASE AuthNext
  <2>1. \A n \in Names : RevokedMove(cred[n], cred'[n], nextSecret)
    BY <1>1, AuthSteps DEF StepWell, RowsMove, RowMove
  <2> QED BY <2>1 DEF RevokedMove
<1>2. CASE UNCHANGED authVars
  BY <1>2
<1> QED BY <1>1, <1>2

LEMMA LatestRecoveryStep ==
  ASSUME AuthInv, [AuthNext]_authVars
  PROVE  [\A c \in Calls, n \in Names :
            (/\ call[c].stage = "granted" /\ call[c].kind = "recover" /\ call[c].name = n
             /\ call'[c].stage = "idle" /\ cred[n].state = "recovery_pending"
             /\ cred'[n].state = "active")
              => call[c].secret = cred[n].recovery]_authVars
<1> SUFFICES ASSUME AuthNext, NEW c \in Calls, NEW n \in Names,
                    call[c].stage = "granted", call[c].kind = "recover", call'[c].stage = "idle",
                    cred[n].state = "recovery_pending", cred'[n].state = "active"
             PROVE  call[c].secret = cred[n].recovery
  OBVIOUS
<1>1. CallStep(c)
  BY AuthSteps DEF CallWell, OnlyCaller
<1>2. HandleRegister(c)
  BY <1>1, OneTimeUse
<1> QED BY <1>2, StepHandleRegister

LEMMA AbandonStep ==
  ASSUME AuthInv, [AuthNext]_authVars
  PROVE  [\A c \in Calls, n \in Names :
            (/\ call[c].kind = "abandon" /\ call[c].stage = "granted" /\ call'[c].stage = "idle"
             /\ call[c].name = n /\ cred'[n] # cred[n])
              => call[c].secret = cred[n].handle /\ ~cred[n].established]_authVars
<1> SUFFICES ASSUME AuthNext, NEW c \in Calls, NEW n \in Names,
                    call[c].stage = "granted", call[c].kind = "abandon", call'[c].stage = "idle",
                    cred'[n] # cred[n]
             PROVE  call[c].secret = cred[n].handle /\ ~cred[n].established
  OBVIOUS
<1>1. CallStep(c)
  BY AuthSteps DEF CallWell, OnlyCaller
<1>2. HandleAbandon(c)
  BY <1>1, OneTimeUse
<1> QED BY <1>2, StepHandleAbandon

LEMMA EstablishedStep ==
  ASSUME AuthInv, [AuthNext]_authVars
  PROVE  [\A c \in Calls, n \in Names :
            call'[c].stage # call[c].stage /\ ~cred[n].established /\ cred'[n].established =>
              /\ call[c].name = n
              /\ \/ call[c].secret \in {cred[n].hash, cred[n].prev, cred[n].recovery} \ {NoSecret}
                 \/ call[c].kind = "new" /\ cred[n].state = "recovery_pending"]_authVars
<1> SUFFICES ASSUME AuthNext, NEW c \in Calls, NEW n \in Names,
                    call'[c].stage # call[c].stage, ~cred[n].established, cred'[n].established
             PROVE  /\ call[c].name = n
                    /\ \/ call[c].secret \in {cred[n].hash, cred[n].prev, cred[n].recovery} \ {NoSecret}
                       \/ call[c].kind = "new" /\ cred[n].state = "recovery_pending"
  OBVIOUS
<1>1. EstablishedBy(c)
  BY AuthSteps DEF CallWell, OnlyCaller
<1> QED BY <1>1 DEF EstablishedBy

\* The promises of the credentials (CredentialsHold): the cache serves no verdict the rows would not
\* give, a revocation holds, a recovery uses the token of that moment, a handle removes its own
\* registration, a registration is established by its own credential, and the whole refines the ledger.
THEOREM CredentialsAlwaysHold == AuthSpec => CredentialsHold
<1>1. AuthInv => AuthTypeOK /\ DigestOfToken
  BY DEF AuthInv
<1>2. AuthSpec => []AuthTypeOK /\ []DigestOfToken /\ []CacheHonest
  BY <1>1, InvCacheHonest, AuthInvariant, PTL
<1>3. AuthSpec => RevocationHolds
  BY RevocationStep, AuthInvariant, PTL DEF AuthSpec, RevocationHolds
<1>4. AuthSpec => LatestRecovery
  BY LatestRecoveryStep, AuthInvariant, PTL DEF AuthSpec, LatestRecovery
<1>5. AuthSpec => AbandonsItsOwn
  BY AbandonStep, AuthInvariant, PTL DEF AuthSpec, AbandonsItsOwn
<1>6. AuthSpec => EstablishedByItself
  BY EstablishedStep, AuthInvariant, PTL DEF AuthSpec, EstablishedByItself
<1> QED BY <1>2, <1>3, <1>4, <1>5, <1>6, CredentialsImplementLedger DEF CredentialsHold
=============================================================================
