--------------------------- MODULE MessagesProofs ---------------------------
(***************************************************************************)
(* What the window does with the messages of a fetch: the tab and the      *)
(* store of its rows, for any views, any number of fetches and messages,   *)
(* any budget, and any order in which events, timers, answers and the      *)
(* user's doings come in; and how a message is shown with a schema.        *)
(*                                                                         *)
(* The Fetch button (IInv).  Only fetches begun by the mounted component   *)
(* can touch its state, and they are numbered as they begin.  While the    *)
(* tab is busy the refs name the last of them and it has not settled       *)
(* (Playing); while it neither plays nor was stopped, the last one has     *)
(* settled (Done).  A fetch that was replaced is not the one the refs      *)
(* name, so its end changes nothing.                                       *)
(*                                                                         *)
(* The rows (RInv).  While events are listened to, the fetch they are      *)
(* taken of is the last one begun in the view on screen, and it has not    *)
(* settled (Live); the buffer is empty otherwise (Buffered).  So rows and  *)
(* buffer together are messages of that fetch in order, none beyond those  *)
(* whose events were handled (AllRowed), and unless memory was cleared or  *)
(* the view lost its rows, they are the first ones without a gap           *)
(* (SoFarWhole): what the response adds from there on completes them.      *)
(*                                                                         *)
(* The books.  A view is charged for the rows it holds, or for more once   *)
(* a payload came for a row that had gone (Balanced), and eviction leaves  *)
(* a total within the limit or one view alone (Fits): the coldest of the   *)
(* views that stay does so because the total fits without all colder ones. *)
(*                                                                         *)
(* The schemas (SchemaIInv), for any registries, payloads and pasted texts.*)
(* A client holds the texts of one registry under their own ids            *)
(* (ClientsKeepTheirOwn), a command waits for the registry its connection  *)
(* named (HasItsText), and whatever is compiled is kept once (CompiledAre).*)
(* A command that is done was decided for its payload alone (DecidedView), *)
(* so what it shows is what the rules and the decoders compute of it.      *)
(*                                                                         *)
(* The decoders, for payloads, schemas and values of any size.  A varint   *)
(* is read where one is written and nowhere else (NumberIsRead,            *)
(* ReadIsNumber), so a header gives the path and the body that were        *)
(* written (HeaderIsRead), a field is read where there is one              *)
(* (FieldIsRead), and bytes are read to their end just when they can be    *)
(* cut into fields: the cuts are the places the loop comes by              *)
(* (WellFormedIsMessage).  The walk of an Avro value comes by the place of *)
(* the schema each node was written at (WalkIsRight), and a node is shown  *)
(* as what it is at its place (NodeIsRead): a decimal has all the digits   *)
(* of its number, on the right sides of the point (DecimalIsRead).         *)
(***************************************************************************)
EXTENDS DataTab, SchemaDecoding, BasicLemmas, SequenceTheorems

-----------------------------------------------------------------------------
(* The tab.                                                                *)

Latest(f) == f \in mine /\ \A g \in mine : g <= f

\* A record of every fetch, and those of this component have begun.
Shape ==
    /\ isPlaying \in BOOLEAN /\ stopped \in BOOLEAN
    /\ DOMAIN fetches = FetchIds
    /\ \A f \in FetchIds : "state" \in DOMAIN fetches[f]
    /\ mine \subseteq FetchIds
    /\ \A f \in mine : fetches[f].state # "none"

Playing ==
    isPlaying => ~stopped /\ Latest(active) /\ fetches[active].state # "settled"

Done ==
    ~isPlaying /\ ~stopped => \A f \in mine : Latest(f) => fetches[f].state = "settled"

\* The inductive invariant.
IInv == Shape /\ Playing /\ Done

refsOfBusy == <<isPlaying, stopped, active, mine>>
-----------------------------------------------------------------------------
\* Nothing has been fetched.
LEMMA InitInv == TabInit => IInv
<1> SUFFICES ASSUME TabInit PROVE IInv
  OBVIOUS
<1>1. /\ stopped = TRUE /\ isPlaying = FALSE /\ mine = {}
      /\ fetches = [f \in FetchIds |->
                      [view |-> Null, preview |-> 0, state |-> "none",
                       emitted |-> 0, handled |-> 0, total |-> 0]]
  BY DEF TabInit
<1> QED BY <1>1 DEF IInv, Shape, Playing, Done

\* A step that changes neither the refs nor how far a fetch is.
LEMMA Frame ==
    ASSUME IInv, UNCHANGED refsOfBusy, UNCHANGED fetches
    PROVE  IInv'
BY DEF IInv, Shape, Playing, Done, Latest, refsOfBusy

\* A tab that was stopped, or has gone, is not busy.
LEMMA Stopped ==
    ASSUME IInv, stopped' = TRUE, isPlaying' = FALSE, mine' \in {mine, {}},
           UNCHANGED fetches
    PROVE  IInv'
BY DEF IInv, Shape, Playing, Done, Latest

\* A new fetch is the last one, and the refs name it.
LEMMA PlayInv == IInv /\ handlePlay => IInv'
<1> SUFFICES ASSUME IInv, handlePlay PROVE IInv'
  OBVIOUS
<1> USE DEF IInv
<1>1. isPlaying' = TRUE /\ stopped' = FALSE
  BY DEF handlePlay
<1>2. PICK f \in FetchIds, preview \in Previews :
        /\ \A g \in FetchIds : fetches[g].state = "none" <=> g >= f
        /\ fetches' = [fetches EXCEPT ![f] =
               [@ EXCEPT !.view = tabKey, !.preview = preview, !.state = "running"]]
        /\ active' = f /\ mine' = mine \union {f}
  BY DEF handlePlay
<1>3. /\ DOMAIN fetches' = FetchIds
      /\ fetches'[f].state = "running" /\ "state" \in DOMAIN fetches'[f]
      /\ \A g \in FetchIds \ {f} : fetches'[g] = fetches[g]
  BY <1>2 DEF Shape
<1>4. \A g \in mine : g \in FetchIds /\ g < f
  BY <1>2, DataTabAssumption DEF Shape, FetchIds
<1>5. Shape'
  BY <1>1, <1>2, <1>3 DEF Shape
<1>6. Latest(f)'
  BY <1>2, <1>4 DEF Latest, FetchIds
<1> QED BY <1>1, <1>2, <1>3, <1>5, <1>6 DEF Playing, Done

\* What the backend sends does not settle anything.
LEMMA BackendInv ==
    ASSUME IInv, NEW f \in FetchIds, Respond(f) \/ HandleEvent(f)
    PROVE  IInv'
<1> USE DEF IInv, tabVars, refVars
<1>1. UNCHANGED refsOfBusy
  BY DEF Respond, HandleEvent, refsOfBusy
<1>2. /\ DOMAIN fetches' = FetchIds
      /\ \A g \in FetchIds : "state" \in DOMAIN fetches'[g]
      /\ \A g \in FetchIds : \/ fetches'[g].state = fetches[g].state
                             \/ /\ fetches[g].state = "running"
                                /\ fetches'[g].state \in {"answered", "failed"}
  <2>1. CASE Respond(f)
    <3>1. PICK emitted \in fetches[f].handled .. MaxMessages :
            \E total \in emitted .. MaxMessages, state \in {"answered", "failed"} :
               fetches' = [fetches EXCEPT ![f] =
                 [@ EXCEPT !.state = state, !.emitted = emitted, !.total = total]]
      BY <2>1 DEF Respond
    <3>2. PICK total \in emitted .. MaxMessages, state \in {"answered", "failed"} :
            fetches' = [fetches EXCEPT ![f] =
              [@ EXCEPT !.state = state, !.emitted = emitted, !.total = total]]
      BY <3>1
    <3> QED BY <2>1, <3>2 DEF Respond, Shape
  <2>2. CASE HandleEvent(f)
    <3>1. fetches' = [fetches EXCEPT ![f].handled = @ + 1]
      BY <2>2 DEF HandleEvent
    <3> QED BY <3>1 DEF Shape
  <2> QED BY <2>1, <2>2
<1> QED BY <1>1, <1>2 DEF refsOfBusy, Shape, Playing, Done, Latest

\* The end of a fetch frees the tab if the refs name it, and only then.
LEMMA SettleInv ==
    ASSUME IInv, NEW f \in FetchIds, Settle(f)
    PROVE  IInv'
<1> USE DEF IInv
<1>1. /\ UNCHANGED <<stopped, mine>>
      /\ fetches[f].state \in {"answered", "failed"}
      /\ fetches' = [fetches EXCEPT ![f].state = "settled"]
      /\ IF f \in mine /\ active = f THEN active' = Null /\ isPlaying' = FALSE
         ELSE UNCHANGED <<active, isPlaying>>
  BY DEF Settle, EndsTheFetch, IsCurrent
<1>2. /\ DOMAIN fetches' = FetchIds /\ fetches'[f].state = "settled"
      /\ \A g \in FetchIds : "state" \in DOMAIN fetches'[g]
      /\ \A g \in FetchIds \ {f} : fetches'[g] = fetches[g]
  BY <1>1 DEF Shape
<1>3. Shape'
  BY <1>1, <1>2 DEF Shape
<1>4. \A g, h : Latest(g) /\ Latest(h) => g = h
  BY DataTabAssumption DEF Latest, Shape, FetchIds
<1>5. CASE f \in mine /\ active = f
  BY <1>1, <1>2, <1>3, <1>4, <1>5 DEF Playing, Done, Latest, Shape
<1>6. CASE ~(f \in mine /\ active = f)
  BY <1>1, <1>2, <1>3, <1>6 DEF Playing, Done, Latest, Shape
<1> QED BY <1>5, <1>6

\* Every step keeps the invariant.
LEMMA NextInv == IInv /\ [TabNext]_tabDataVars => IInv'
<1> SUFFICES ASSUME IInv, [TabNext]_tabDataVars PROVE IInv'
  OBVIOUS
<1> USE DEF tabVars, refVars
<1>1. CASE UNCHANGED tabDataVars
  BY <1>1, Frame DEF tabDataVars, refsOfBusy
<1>2. CASE handlePlay
  BY <1>2, PlayInv
<1>3. ASSUME NEW f \in FetchIds, Respond(f) \/ HandleEvent(f) \/ Settle(f)
      PROVE  IInv'
  BY <1>3, BackendInv, SettleInv
<1>4. CASE handleStop \/ (\E v \in Views : SwitchTo(v)) \/ Unmount \/ clearForConnection
  BY <1>4, Stopped DEF handleStop, SwitchTo, Unmount, clearForConnection,
     Unmounted, stopActiveFetch
<1>5. CASE \/ flush \/ (\E v \in Views : Mount(v)) \/ clearAllMessagesForTab
           \/ AskPayload \/ PayloadAnswers \/ PayloadFails
  BY <1>5, Frame DEF flush, Mount, clearAllMessagesForTab, AskPayload,
     PayloadAnswers, PayloadFails, refsOfBusy
<1> QED BY <1>1, <1>2, <1>3, <1>4, <1>5 DEF TabNext

\* The tab is busy exactly while the fetch it would show is under way, however
\* many fetches it has begun and in whatever order they end (the finally of
\* handlePlay compares activeRequestIdRef before it frees the button).
THEOREM Busy == TabSpec => []BusyWhileItsFetchRuns
<1>1. IInv => BusyWhileItsFetchRuns
  <2> SUFFICES ASSUME IInv PROVE BusyWhileItsFetchRuns
    OBVIOUS
  <2> USE DEF IInv
  <2>1. BusyWhileItsFetchRuns <=>
          (isPlaying <=> ~stopped /\ \E f \in mine : Latest(f) /\ fetches[f].state # "settled")
    BY DEF BusyWhileItsFetchRuns, Latest
  <2>2. CASE isPlaying
    BY <2>1, <2>2 DEF Playing, Latest
  <2>3. CASE ~isPlaying
    BY <2>1, <2>3 DEF Done, Shape
  <2> QED BY <2>2, <2>3
<1> QED BY <1>1, InitInv, NextInv, PTL DEF TabSpec
-----------------------------------------------------------------------------
(* The books of the store. *)

StoreType ==
    [rows : [Views -> Seq(RowType)], bytes : [Views -> Nat],
     lastUsed : [Views -> Nat], evicted : SUBSET Views]

\* What a view is charged for, some of its charges being for lost rows.
Balanced(s, lost) ==
    \A v \in Views :
        LET kept == retainedPayloadBytes(s.rows[v])
        IN s.bytes[v] >= kept /\ (v \notin lost => s.bytes[v] = kept)

Holding(s) == {v \in Views : s.bytes[v] > 0}

Fits(s) ==
    totalRetainedPayloadBytes(s) <= Limit \/ Cardinality(Holding(s)) <= 1

\* A step of the store that only takes rows away, with what they are charged.
Loses(s, t, gone) ==
    /\ gone \subseteq Views
    /\ \A v \in Views : t.rows[v] = IF v \in gone THEN <<>> ELSE s.rows[v]
    /\ \A v \in Views : t.bytes[v] = IF v \in gone THEN 0 ELSE s.bytes[v]

\* The sizes of rows are numbers.
LEMMA RowSizes ==
    ASSUME NEW rows \in Seq(RowType)
    PROVE  /\ IsFiniteSet(DOMAIN rows) /\ DOMAIN rows = 1 .. Len(rows)
           /\ \A i \in DOMAIN rows : rows[i].size \in Nat /\ rows[i].size <= Whole
PROOF
<1>1. DOMAIN rows = 1 .. Len(rows) /\ Len(rows) \in Nat
      /\ \A i \in 1 .. Len(rows) : rows[i] \in RowType
  OBVIOUS
<1>2. IsFiniteSet(1 .. Len(rows))
  BY <1>1, FS_Interval
<1>3. ASSUME NEW r \in RowType PROVE r.size \in Nat /\ r.size <= Whole
  <2>1. r.size \in Previews \union {Whole}
    BY DEF RowType
  <2>2. ASSUME NEW size \in Previews \union {Whole}
        PROVE  size \in Nat /\ size <= Whole
    BY DataTabAssumption
  <2> QED BY <2>1, <2>2
<1> QED BY <1>1, <1>2, <1>3

\* The bytes of rows are a number, and no rows hold none.
LEMMA BytesOfRows ==
    ASSUME NEW rows \in Seq(RowType)
    PROVE  retainedPayloadBytes(rows) \in Nat
PROOF
<1> DEFINE size == [i \in DOMAIN rows |-> rows[i].size]
<1>1. IsFiniteSet(DOMAIN rows) /\ \A i \in DOMAIN rows : size[i] \in Nat
  BY RowSizes
<1>2. DOMAIN size = DOMAIN rows
  OBVIOUS
<1>3. SumFunction(size) = SumFunctionOnSet(size, DOMAIN rows)
  BY <1>2 DEF SumFunction
<1>4. retainedPayloadBytes(rows) = SumFunction(size)
  BY DEF retainedPayloadBytes
<1> HIDE DEF size
<1> QED BY <1>1, <1>3, <1>4, SumIsNat

\* No rows hold no bytes.
LEMMA BytesOfNoRows == retainedPayloadBytes(<<>>) = 0
PROOF
<1> DEFINE size == [i \in DOMAIN <<>> |-> <<>>[i].size]
<1>1. retainedPayloadBytes(<<>>) = SumFunctionOnSet(size, DOMAIN size)
  BY DEF retainedPayloadBytes, SumFunction
<1>2. DOMAIN size = {}
  <2>1. DOMAIN <<>> = {}
    OBVIOUS
  <2> QED BY <2>1
<1> HIDE DEF size
<1> QED BY <1>1, <1>2, SumOfNone

\* Rows that follow each other hold what each of them holds.
LEMMA BytesOfConcat ==
    ASSUME NEW a \in Seq(RowType), NEW b \in Seq(RowType)
    PROVE  retainedPayloadBytes(a \o b)
               = retainedPayloadBytes(a) + retainedPayloadBytes(b)
PROOF
<1> DEFINE size(rows) == [i \in DOMAIN rows |-> rows[i].size]
<1>1. ASSUME NEW rows \in Seq(RowType) PROVE size(rows) \in Seq(Int)
  <2>1. /\ DOMAIN rows = 1 .. Len(rows) /\ Len(rows) \in Nat
        /\ \A i \in DOMAIN rows : rows[i].size \in Int
    BY RowSizes
  <2> QED BY <2>1
<1>2. size(a \o b) = size(a) \o size(b)
  <2>1. /\ Len(a) \in Nat /\ Len(b) \in Nat
        /\ DOMAIN a = 1 .. Len(a) /\ DOMAIN b = 1 .. Len(b)
        /\ DOMAIN (a \o b) = 1 .. Len(a) + Len(b)
        /\ \A i \in 1 .. Len(a) + Len(b) :
              (a \o b)[i] = IF i <= Len(a) THEN a[i] ELSE b[i - Len(a)]
    OBVIOUS
  <2>2. size(a) \in Seq(Int) /\ size(b) \in Seq(Int)
    BY <1>1
  <2>3. Len(size(a)) = Len(a) /\ Len(size(b)) = Len(b)
    BY <2>1
  <2>4. size(a) \o size(b)
          = [i \in 1 .. Len(a) + Len(b) |->
               IF i <= Len(a) THEN a[i].size ELSE b[i - Len(a)].size]
    <3> DEFINE x == size(a)
               y == size(b)
    <3>1. /\ \A i \in 1 .. Len(a) : x[i] = a[i].size
          /\ \A i \in 1 .. Len(b) : y[i] = b[i].size
      BY <2>1
    <3> HIDE DEF x, y
    <3>2. x \o y = [i \in 1 .. Len(a) + Len(b) |->
                      IF i <= Len(a) THEN x[i] ELSE y[i - Len(a)]]
      BY <2>1, <2>2, <2>3 DEF x, y
    <3> QED BY <2>1, <3>1, <3>2 DEF x, y
  <2> QED BY <2>1, <2>4
<1>3. a \o b \in Seq(RowType)
  BY ConcatProperties
<1>4. SumFunction(size(a) \o size(b))
        = SumFunction(size(a)) + SumFunction(size(b))
  <2>1. size(a) \in Seq(Int) /\ size(b) \in Seq(Int)
    BY <1>1
  <2> HIDE DEF size
  <2> QED BY <2>1, SumOfConcat
<1> QED BY <1>2, <1>4 DEF retainedPayloadBytes

\* What is charged for all views together.
LEMMA TotalBytes ==
    ASSUME NEW s \in StoreType
    PROVE  /\ totalRetainedPayloadBytes(s) = SumFunctionOnSet(s.bytes, Views)
           /\ totalRetainedPayloadBytes(s) \in Nat
PROOF
<1>1. DOMAIN s.bytes = Views /\ \A v \in Views : s.bytes[v] \in Nat
  BY DEF StoreType
<1>2. totalRetainedPayloadBytes(s) = SumFunctionOnSet(s.bytes, Views)
  BY <1>1 DEF totalRetainedPayloadBytes, SumFunction
<1> QED BY <1>1, <1>2, SumIsNat, DataTabAssumption

\* Views that lose rows take their bytes with them, and what fits still fits.
LEMMA LosingKeeps ==
    ASSUME NEW s \in StoreType, NEW t \in StoreType, NEW gone,
           Loses(s, t, gone)
    PROVE  /\ \A lost : Balanced(s, lost) => Balanced(t, lost)
           /\ totalRetainedPayloadBytes(t) <= totalRetainedPayloadBytes(s)
           /\ Holding(t) = Holding(s) \ gone
           /\ Fits(s) => Fits(t)
PROOF
<1>1. \A lost : Balanced(s, lost) => Balanced(t, lost)
  BY BytesOfNoRows DEF Loses, Balanced
<1>2. totalRetainedPayloadBytes(t) <= totalRetainedPayloadBytes(s)
  <2>1. \A v \in Views : /\ t.bytes[v] \in Int /\ s.bytes[v] \in Int
                         /\ t.bytes[v] <= s.bytes[v]
    BY DEF Loses, StoreType
  <2>2. SumFunctionOnSet(t.bytes, Views) <= SumFunctionOnSet(s.bytes, Views)
    BY <2>1, SumMonotone, DataTabAssumption
  <2>3. /\ totalRetainedPayloadBytes(s) = SumFunctionOnSet(s.bytes, Views)
        /\ totalRetainedPayloadBytes(t) = SumFunctionOnSet(t.bytes, Views)
    BY TotalBytes, Zenon
  <2> QED BY <2>2, <2>3, Zenon
<1>3. Holding(t) = Holding(s) \ gone
  BY DEF Loses, Holding, StoreType
<1>4. Fits(s) => Fits(t)
  <2>1. /\ totalRetainedPayloadBytes(t) \in Nat
        /\ totalRetainedPayloadBytes(s) \in Nat /\ Limit \in Nat
    BY TotalBytes, DataTabAssumption
  <2>2. IsFiniteSet(Holding(s))
    BY DataTabAssumption, FS_Subset DEF Holding
  <2>3. /\ Cardinality(Holding(t)) <= Cardinality(Holding(s))
        /\ Cardinality(Holding(t)) \in Nat
        /\ Cardinality(Holding(s)) \in Nat
    <3>1. Holding(t) \subseteq Holding(s)
      BY <1>3
    <3> QED BY <2>2, <3>1, FS_Subset, FS_CardinalityType
  <2> QED BY <1>2, <2>1, <2>3 DEF Fits
<1> QED BY <1>1, <1>2, <1>3, <1>4

\* Dropping is losing, and evicts nothing.
LEMMA DroppedFacts ==
    ASSUME NEW s \in StoreType, NEW gone \in SUBSET Views
    PROVE  /\ Dropped(s, gone) \in StoreType
           /\ Loses(s, Dropped(s, gone), gone)
           /\ Dropped(s, gone).evicted = s.evicted
PROOF
<1>1. <<>> \in Seq(RowType)
  OBVIOUS
<1> QED BY <1>1 DEF Dropped, StoreType, Loses
\* Making room takes whole views' rows away, says which, never the protected
\* view's, and as many as it takes.
LEMMA EvictFacts ==
    ASSUME NEW s \in StoreType, NEW p \in Views
    PROVE  LET t == evictToFit(s, p)
           IN  /\ t \in StoreType /\ Fits(t)
               /\ \E gone \in SUBSET (Views \ {p}) :
                     Loses(s, t, gone) /\ t.evicted = s.evicted \union gone
PROOF
<1> DEFINE candidates == {v \in Views \ {p} : s.bytes[v] > 0}
           colder(v) == {w \in candidates : s.lastUsed[w] < s.lastUsed[v]}
           gone == {v \in candidates :
                      totalRetainedPayloadBytes(Dropped(s, colder(v))) > Limit}
           d == Dropped(s, gone)
           t == evictToFit(s, p)
<1>1. t = [d EXCEPT !.evicted = @ \union gone]
  BY DEF evictToFit
<1>2. gone \in SUBSET Views /\ p \notin gone
  OBVIOUS
<1>3. d \in StoreType /\ Loses(s, d, gone) /\ d.evicted = s.evicted
  <2> HIDE DEF gone
  <2> QED BY <1>2, DroppedFacts
<1>4. /\ t \in StoreType /\ t.evicted = s.evicted \union gone
      /\ t.rows = d.rows /\ t.bytes = d.bytes
  <2> HIDE DEF d, gone, t
  <2> QED BY <1>1, <1>2, <1>3 DEF StoreType
<1>5. Loses(s, t, gone) /\ Fits(t) = Fits(d)
  <2> HIDE DEF d, gone, t
  <2> QED BY <1>3, <1>4 DEF Loses, Fits, Holding, totalRetainedPayloadBytes
<1>6. Fits(d)
  <2>1. CASE gone = candidates
    <3>1. Holding(d) \subseteq {p}
      <4>1. Holding(d) = Holding(s) \ gone
        <5> HIDE DEF d, gone
        <5> QED BY <1>3, LosingKeeps
      <4>2. Holding(s) \subseteq candidates \union {p}
        BY DEF Holding
      <4> HIDE DEF d, gone, candidates
      <4> QED BY <2>1, <4>1, <4>2
    <3>2. IsFiniteSet({p}) /\ Cardinality({p}) = 1
      BY FS_Singleton
    <3>3. Cardinality(Holding(d)) <= Cardinality({p})
      BY <3>1, <3>2, FS_Subset
    <3> QED BY <3>2, <3>3 DEF Fits
  <2>2. CASE gone # candidates
    <3> DEFINE kept == candidates \ gone
               ranks == {s.lastUsed[v] : v \in kept}
               low == Min(ranks)
    <3>1. kept # {}
      BY <2>2
    <3>2. ranks \subseteq Nat /\ ranks # {}
      <4>1. \A v \in Views : s.lastUsed[v] \in Nat
        BY DEF StoreType
      <4>2. kept \subseteq Views
        OBVIOUS
      <4> HIDE DEF kept
      <4> QED BY <3>1, <4>1, <4>2
    <3>3. low \in ranks /\ \A r \in ranks : low <= r
      <4> HIDE DEF ranks
      <4> QED BY <3>2, MinOfNaturals
    <3>4. PICK v \in kept : s.lastUsed[v] = low
      BY <3>3
    <3>5. colder(v) \subseteq gone
      <4> SUFFICES ASSUME NEW w \in colder(v), w \notin gone PROVE FALSE
        OBVIOUS
      <4>1. w \in kept /\ s.lastUsed[w] < s.lastUsed[v]
        OBVIOUS
      <4>2. s.lastUsed[w] \in ranks
        BY <4>1
      <4>3. low <= s.lastUsed[w]
        BY <3>3, <4>2
      <4>4. s.lastUsed[w] \in Int /\ s.lastUsed[v] \in Int
        BY <4>1 DEF StoreType
      <4> HIDE DEF low
      <4> QED BY <3>4, <4>1, <4>3, <4>4
    <3> DEFINE c == Dropped(s, colder(v))
    <3>6. ~(totalRetainedPayloadBytes(c) > Limit)
      BY <3>4
    <3>7. c \in StoreType /\ Loses(s, c, colder(v))
      <4>1. colder(v) \in SUBSET Views
        OBVIOUS
      <4> HIDE DEF colder
      <4> QED BY <4>1, DroppedFacts
    <3>8. Loses(c, d, gone)
      <4> HIDE DEF c, d, gone, colder
      <4> QED BY <1>2, <1>3, <3>5, <3>7 DEF Loses
    <3> HIDE DEF c, d
    <3>9. /\ totalRetainedPayloadBytes(d) <= totalRetainedPayloadBytes(c)
          /\ totalRetainedPayloadBytes(d) \in Nat
          /\ totalRetainedPayloadBytes(c) \in Nat /\ Limit \in Nat
      BY <1>3, <3>7, <3>8, LosingKeeps, TotalBytes, DataTabAssumption
    <3> QED BY <3>6, <3>9 DEF Fits
  <2> QED BY <2>1, <2>2
<1> HIDE DEF gone, t, d
<1>7. gone \in SUBSET (Views \ {p})
  BY <1>2
<1> QED BY <1>4, <1>5, <1>6, <1>7 DEF t

\* Rows that arrive are charged for what they hold.
LEMMA RetainFacts ==
    ASSUME NEW s \in StoreType, NEW v \in Views, NEW rows \in Seq(RowType)
    PROVE  LET t == Retain(s, v, rows)
           IN  /\ t \in StoreType
               /\ t.rows = [s.rows EXCEPT ![v] = @ \o rows]
               /\ t.evicted = s.evicted
               /\ \A lost : Balanced(s, lost) => Balanced(t, lost)
PROOF
<1> DEFINE t == Retain(s, v, rows)
           old == s.rows[v]
           bytes == retainedPayloadBytes(rows)
<1>1. /\ old \in Seq(RowType) /\ old \o rows \in Seq(RowType)
      /\ s.rows \in [Views -> Seq(RowType)] /\ s.bytes \in [Views -> Nat]
      /\ s.lastUsed \in [Views -> Nat] /\ s.evicted \in SUBSET Views
  <2>1. s.rows \in [Views -> Seq(RowType)] /\ s.bytes \in [Views -> Nat]
        /\ s.lastUsed \in [Views -> Nat] /\ s.evicted \in SUBSET Views
    BY DEF StoreType
  <2>2. old \in Seq(RowType)
    BY <2>1
  <2> HIDE DEF old
  <2>3. old \o rows \in Seq(RowType)
    BY <2>2, ConcatProperties
  <2> QED BY <2>1, <2>2, <2>3
<1>2. bytes \in Nat /\ Cardinality(Views) + 1 \in Nat
  BY BytesOfRows, DataTabAssumption, FS_CardinalityType
<1>3. CASE rows = <<>>
  <2>1. t = s /\ old \o rows = old
    <3> HIDE DEF old
    <3> QED BY <1>1, <1>3 DEF Retain
  <2>2. s.rows = [s.rows EXCEPT ![v] = @ \o rows]
    BY <1>1, <2>1
  <2> QED BY <2>1, <2>2
<1>4. CASE rows # <<>>
  <2>1. t = [setTabMessages(s, v, old \o rows)
               EXCEPT !.bytes[v] = @ + bytes]
    BY <1>4 DEF Retain, appendTabMessages
  <2> HIDE DEF bytes, t
  <2>2. /\ t = [s EXCEPT !.rows[v] = old \o rows,
                         !.lastUsed[v] = Cardinality(Views) + 1,
                         !.bytes[v] = @ + bytes]
    BY <2>1 DEF setTabMessages, touchTab, StoreType
  <2> HIDE DEF old
  <2>3. /\ t.rows = [s.rows EXCEPT ![v] = old \o rows]
        /\ t.bytes = [s.bytes EXCEPT ![v] = @ + bytes]
        /\ t.lastUsed = [s.lastUsed EXCEPT ![v] = Cardinality(Views) + 1]
        /\ t.evicted = s.evicted
    BY <2>2 DEF StoreType
  <2>4. t \in StoreType
    <3>1. /\ t.rows \in [Views -> Seq(RowType)]
          /\ t.bytes \in [Views -> Nat]
          /\ t.lastUsed \in [Views -> Nat]
      BY <1>1, <1>2, <2>3
    <3>2. DOMAIN t = {"rows", "bytes", "lastUsed", "evicted"}
          /\ t = [x \in DOMAIN t |-> t[x]]
      BY <2>2 DEF StoreType
    <3> QED BY <1>1, <2>2, <3>1, <2>3 DEF StoreType
  <2>5. retainedPayloadBytes(old \o rows)
          = retainedPayloadBytes(old) + bytes
    BY <1>1, BytesOfConcat DEF bytes
  <2>6. retainedPayloadBytes(old) \in Nat
    BY <1>1, BytesOfRows
  <2>7. ASSUME NEW lost, Balanced(s, lost) PROVE Balanced(t, lost)
    <3> SUFFICES ASSUME NEW w \in Views
                 PROVE  LET kept == retainedPayloadBytes(t.rows[w])
                        IN  /\ t.bytes[w] >= kept
                            /\ w \notin lost => t.bytes[w] = kept
      BY DEF Balanced
    <3>1. CASE w = v
      <4>1. t.rows[w] = old \o rows /\ t.bytes[w] = s.bytes[v] + bytes
            /\ s.bytes[v] \in Nat
        BY <1>1, <2>3, <3>1
      <4>2. /\ s.bytes[v] >= retainedPayloadBytes(old)
            /\ v \notin lost => s.bytes[v] = retainedPayloadBytes(old)
        BY <2>7 DEF Balanced, old
      <4> QED BY <1>2, <2>5, <2>6, <3>1, <4>1, <4>2
    <3>2. CASE w # v
      <4>1. t.rows[w] = s.rows[w] /\ t.bytes[w] = s.bytes[w]
        BY <1>1, <2>3, <3>2
      <4> QED BY <2>7, <4>1 DEF Balanced
    <3> QED BY <3>1, <3>2
  <2> QED BY <2>3, <2>4, <2>7 DEF t, old
<1> QED BY <1>3, <1>4

\* Only the rows, the charges and what was evicted count.
LEMMA PutFacts ==
    ASSUME NEW s \in StoreType, NEW lost, PutCharging(s, lost)
    PROVE  /\ store' \in StoreType
           /\ store'.rows = s.rows /\ store'.bytes = s.bytes
           /\ store'.evicted = s.evicted
           /\ phantom' = (phantom \union lost) \intersect Holding(s)
           /\ Fits(s) => Fits(store')
           /\ Balanced(s, phantom \union lost) => Balanced(store', phantom')
PROOF
<1> DEFINE holding == Holding(s)
           rank(v) == Cardinality({w \in holding :
                                     s.lastUsed[w] <= s.lastUsed[v]})
           used == [v \in Views |-> IF v \in holding THEN rank(v) ELSE 0]
<1>1. /\ store' = [s EXCEPT !.lastUsed = used]
      /\ phantom' = (phantom \union lost) \intersect holding
  BY DEF PutCharging, Holding
<1>2. used \in [Views -> Nat]
  <2>1. ASSUME NEW v PROVE rank(v) \in Nat
    <3> DEFINE below == {w \in holding : s.lastUsed[w] <= s.lastUsed[v]}
    <3>1. below \subseteq Views
      BY DEF Holding
    <3> HIDE DEF below
    <3>2. Cardinality(below) \in Nat
      BY <3>1, FS_Subset, FS_CardinalityType, DataTabAssumption
    <3> QED BY <3>2 DEF below
  <2> HIDE DEF rank
  <2> QED BY <2>1
<1> HIDE DEF used
<1>3. /\ store' \in StoreType
      /\ store'.rows = s.rows /\ store'.bytes = s.bytes
      /\ store'.evicted = s.evicted
  BY <1>1, <1>2 DEF StoreType
<1>4. Fits(s) => Fits(store')
  BY <1>3 DEF Fits, totalRetainedPayloadBytes, Holding
<1>5. ASSUME Balanced(s, phantom \union lost)
      PROVE  Balanced(store', phantom')
  <2> SUFFICES ASSUME NEW v \in Views
               PROVE  LET kept == retainedPayloadBytes(s.rows[v])
                      IN  /\ s.bytes[v] >= kept
                          /\ v \notin phantom' => s.bytes[v] = kept
    BY <1>3 DEF Balanced
  <2>1. /\ s.bytes[v] \in Nat /\ s.rows[v] \in Seq(RowType)
    BY DEF StoreType
  <2>2. retainedPayloadBytes(s.rows[v]) \in Nat
    BY <2>1, BytesOfRows
  <2>3. /\ s.bytes[v] >= retainedPayloadBytes(s.rows[v])
        /\ v \notin phantom \union lost
              => s.bytes[v] = retainedPayloadBytes(s.rows[v])
    BY <1>5 DEF Balanced
  <2>4. v \notin holding => s.bytes[v] = 0
    BY <2>1 DEF Holding
  <2> QED BY <1>1, <2>1, <2>2, <2>3, <2>4
<1> QED BY <1>1, <1>3, <1>4, <1>5

\* A store that has got rows, and made room for them in other views.
Holds(s, v, rows, t) ==
    /\ t \in StoreType /\ Fits(t)
    /\ \A lost : Balanced(s, lost) => Balanced(t, lost)
    /\ \E gone \in SUBSET (Views \ {v}) :
          /\ t.evicted = s.evicted \union gone
          /\ \A w \in Views : t.rows[w] =
                IF w \in gone THEN <<>>
                ELSE IF w = v THEN s.rows[v] \o rows
                ELSE s.rows[w]

\* So it is when rows are retained.
LEMMA RetainAndFit ==
    ASSUME NEW s \in StoreType, NEW v \in Views, NEW rows \in Seq(RowType)
    PROVE  Holds(s, v, rows, evictToFit(Retain(s, v, rows), v))
PROOF
<1> DEFINE r == Retain(s, v, rows)
           t == evictToFit(r, v)
<1>1. /\ r \in StoreType
      /\ r.rows = [s.rows EXCEPT ![v] = @ \o rows]
      /\ r.evicted = s.evicted
      /\ \A lost : Balanced(s, lost) => Balanced(r, lost)
  BY RetainFacts
<1> HIDE DEF r
<1>2. /\ t \in StoreType /\ Fits(t)
      /\ \E gone \in SUBSET (Views \ {v}) :
            Loses(r, t, gone) /\ t.evicted = r.evicted \union gone
  BY <1>1, EvictFacts
<1> HIDE DEF t
<1>3. PICK gone \in SUBSET (Views \ {v}) :
        Loses(r, t, gone) /\ t.evicted = r.evicted \union gone
  BY <1>2
<1>4. \A w \in Views : r.rows[w] = IF w = v THEN s.rows[v] \o rows
                                   ELSE s.rows[w]
  BY <1>1 DEF StoreType
<1>5. \A w \in Views : t.rows[w] = IF w \in gone THEN <<>>
                                   ELSE IF w = v THEN s.rows[v] \o rows
                                   ELSE s.rows[w]
  BY <1>3, <1>4 DEF Loses
<1>6. \A lost : Balanced(s, lost) => Balanced(t, lost)
  BY <1>1, <1>2, <1>3, LosingKeeps
<1>7. Holds(s, v, rows, t)
  BY <1>1, <1>2, <1>3, <1>5, <1>6 DEF Holds
<1> QED BY <1>7 DEF t, r
-----------------------------------------------------------------------------
(* What the tab shows, and what it is charged for. *)

FetchType ==
    [view : Views \union {Null}, preview : Nat,
     state : {"none", "running", "answered", "failed", "settled"},
     emitted : 0 .. MaxMessages, handled : 0 .. MaxMessages,
     total : 0 .. MaxMessages]

Controls ==
    stopped \in BOOLEAN /\ isPlaying \in BOOLEAN /\ handle \in BOOLEAN

Typed ==
    /\ tabKey \in Views \union {Null}
    /\ active \in FetchIds \union {Null}
    /\ mine \subseteq FetchIds
    /\ buffer \in Seq(RowType)
    /\ asked \in [view : Views, offset : 1 .. MaxMessages] \union {Null}
    /\ fetches \in [FetchIds -> FetchType]
    /\ store \in StoreType
    /\ phantom \subseteq Views

Timed == timers \in Nat /\ (handle => timers > 0) /\ (tabKey = Null => timers = 0)

\* How far a fetch can be.
Fetched(fetch) ==
    IF fetch.state = "none"
    THEN fetch.view = Null /\ fetch.handled = 0 /\ fetch.emitted = 0
    ELSE /\ fetch.view \in Views /\ fetch.preview \in Previews
         /\ fetch.state # "running" => /\ fetch.handled <= fetch.emitted
                                       /\ fetch.emitted <= fetch.total

\* Events are taken of the last fetch begun in the view on screen, until it
\* has settled.
Listens == ~stopped /\ active # Null

Live ==
    Listens =>
        /\ tabKey \in Views /\ active \in mine
        /\ fetches[active].view = tabKey
        /\ fetches[active].state \notin {"none", "settled"}
        /\ \A g \in FetchIds : fetches[g].view = tabKey => g <= active

Buffered == buffer # <<>> => Listens

\* Rows are of the last fetch begun in their view, in order, and its events
\* that are still to come bring later ones.
Rowed(F, rows, v) ==
    \A i \in DOMAIN rows :
        /\ F[rows[i].fetch].view = v
        /\ \A g \in FetchIds : F[g].view = v => g <= rows[i].fetch
        /\ \A j \in DOMAIN rows : i < j => rows[i].offset < rows[j].offset
        /\ F[rows[i].fetch].state # "settled"
              => rows[i].offset <= F[rows[i].fetch].handled

AllRowed == \A v \in Views : Rowed(fetches, Coming(v), v)

\* The first n messages of a fetch.
FirstMessages(rows, n) ==
    Len(rows) = n /\ \A i \in DOMAIN rows : rows[i].offset = i

\* Nothing of the fetch is missing so far.
SoFarWhole ==
    Listens /\ ~cleared /\ tabKey \notin store.evicted
        => FirstMessages(Coming(tabKey), fetches[active].handled)

Books == Balanced(store, phantom) /\ Fits(store)

\* The second inductive invariant.
RInv ==
    /\ Controls /\ Typed /\ Timed
    /\ \A f \in FetchIds : Fetched(fetches[f])
    /\ Live /\ Buffered /\ AllRowed /\ SoFarWhole /\ Books
-----------------------------------------------------------------------------
\* Successive rows out of others, whatever their payloads.
Part(rows, part) ==
    \E k \in 0 .. Len(rows) :
        /\ k + Len(part) <= Len(rows)
        /\ \A i \in DOMAIN part : /\ part[i].fetch = rows[k + i].fetch
                                  /\ part[i].offset = rows[k + i].offset

\* What happens to fetches that leaves the rows of a view as they should be.
Evolves(F, G, v) ==
    \A g \in FetchIds :
        /\ G[g].view = v <=> F[g].view = v
        /\ F[g].view = v => /\ G[g].handled >= F[g].handled
                            /\ F[g].state = "settled" => G[g].state = "settled"

\* Fewer rows of a fetch that has come further.
LEMMA PartIsRowed ==
    ASSUME NEW F \in [FetchIds -> FetchType],
           NEW G \in [FetchIds -> FetchType], NEW v \in Views,
           NEW rows \in Seq(RowType), NEW part \in Seq(RowType),
           Rowed(F, rows, v), Part(rows, part), Evolves(F, G, v)
    PROVE  Rowed(G, part, v)
PROOF
<1>1. PICK k \in 0 .. Len(rows) :
        /\ k + Len(part) <= Len(rows)
        /\ \A i \in DOMAIN part : /\ part[i].fetch = rows[k + i].fetch
                                  /\ part[i].offset = rows[k + i].offset
  BY DEF Part
<1>2. /\ DOMAIN rows = 1 .. Len(rows) /\ Len(rows) \in Nat
      /\ DOMAIN part = 1 .. Len(part) /\ Len(part) \in Nat
      /\ \A i \in DOMAIN rows : rows[i] \in RowType
  OBVIOUS
<1>3. \A i \in DOMAIN part : k + i \in DOMAIN rows
  BY <1>1, <1>2
<1> SUFFICES ASSUME NEW i \in DOMAIN part
             PROVE  /\ G[part[i].fetch].view = v
                    /\ \A g \in FetchIds : G[g].view = v => g <= part[i].fetch
                    /\ \A j \in DOMAIN part :
                          i < j => part[i].offset < part[j].offset
                    /\ G[part[i].fetch].state # "settled"
                          => part[i].offset <= G[part[i].fetch].handled
  BY DEF Rowed
<1> DEFINE f == part[i].fetch
<1>4. /\ f \in FetchIds /\ f = rows[k + i].fetch
      /\ part[i].offset \in Int
      /\ rows[k + i].offset = part[i].offset /\ k + i \in DOMAIN rows
  BY <1>1, <1>2, <1>3 DEF RowType
<1>5. /\ F[f].view = v
      /\ \A g \in FetchIds : F[g].view = v => g <= f
      /\ F[f].state # "settled" => part[i].offset <= F[f].handled
  BY <1>4 DEF Rowed
<1>6. \A j \in DOMAIN part : i < j => part[i].offset < part[j].offset
  <2> SUFFICES ASSUME NEW j \in DOMAIN part, i < j
               PROVE  part[i].offset < part[j].offset
    OBVIOUS
  <2>1. k + j \in DOMAIN rows /\ k + i < k + j
        /\ part[j].offset = rows[k + j].offset
    BY <1>1, <1>2, <1>3
  <2> QED BY <1>4, <2>1 DEF Rowed
<1>7. F[f].handled \in Int /\ G[f].handled \in Int
  BY <1>4 DEF FetchType
<1> HIDE DEF f
<1>8. /\ G[f].view = v /\ \A g \in FetchIds : G[g].view = v => g <= f
      /\ G[f].state # "settled" => part[i].offset <= G[f].handled
  BY <1>4, <1>5, <1>7 DEF Evolves
<1> QED BY <1>6, <1>8 DEF f
\* All rows, none, the first ones and the last ones.
LEMMA PartSame == ASSUME NEW a \in Seq(RowType) PROVE Part(a, a)
<1>1. Len(a) \in Nat /\ DOMAIN a = 1 .. Len(a)
  OBVIOUS
<1>2. 0 \in 0 .. Len(a) /\ 0 + Len(a) <= Len(a) /\ \A i \in DOMAIN a : 0 + i = i
  BY <1>1
<1> QED BY <1>2 DEF Part

\* No rows at all.
LEMMA PartNone == ASSUME NEW a \in Seq(RowType) PROVE Part(a, <<>>)
<1>1. Len(a) \in Nat /\ Len(<<>>) = 0 /\ DOMAIN <<>> = {}
  OBVIOUS
<1>2. 0 \in 0 .. Len(a) /\ 0 + Len(<<>>) <= Len(a)
  BY <1>1
<1> QED BY <1>1, <1>2 DEF Part

\* The rows before and those behind.
LEMMA PartOfBoth ==
    ASSUME NEW a \in Seq(RowType), NEW b \in Seq(RowType)
    PROVE  Part(a \o b, a) /\ Part(a \o b, b)
<1>1. /\ Len(a) \in Nat /\ Len(b) \in Nat
      /\ DOMAIN a = 1 .. Len(a) /\ DOMAIN b = 1 .. Len(b)
      /\ Len(a \o b) = Len(a) + Len(b)
      /\ \A i \in DOMAIN a : (a \o b)[0 + i] = a[i]
      /\ \A i \in DOMAIN b : (a \o b)[Len(a) + i] = b[i]
  OBVIOUS
<1>2. /\ 0 \in 0 .. Len(a \o b) /\ 0 + Len(a) <= Len(a \o b)
      /\ Len(a) \in 0 .. Len(a \o b) /\ Len(a) + Len(b) <= Len(a \o b)
  BY <1>1
<1> DEFINE c == a \o b
<1> HIDE DEF c
<1>3. Part(c, a)
  BY <1>1, <1>2 DEF Part, c
<1>4. Part(c, b)
  BY <1>1, <1>2 DEF Part, c
<1> QED BY <1>3, <1>4 DEF c

\* What a view shows, with what is about to be added.
ComingParts ==
    \A v \in Views :
        /\ store.rows[v] \in Seq(RowType)
        /\ Coming(v) \in Seq(RowType)
        /\ (v # tabKey \/ buffer = <<>>) => Coming(v) = store.rows[v]
        /\ v = tabKey => Coming(v) = store.rows[v] \o buffer

\* It is put together of rows.
LEMMA ComingFacts == Typed => ComingParts
PROOF
<1> SUFFICES ASSUME Typed, NEW v \in Views
             PROVE  /\ store.rows[v] \in Seq(RowType)
                    /\ Coming(v) \in Seq(RowType)
                    /\ (v # tabKey \/ buffer = <<>>) => Coming(v) = store.rows[v]
                    /\ v = tabKey => Coming(v) = store.rows[v] \o buffer
  BY DEF ComingParts
<1> DEFINE rows == store.rows[v]
<1>1. rows \in Seq(RowType) /\ buffer \in Seq(RowType)
  BY DEF Typed, StoreType
<1> HIDE DEF rows
<1>2. rows \o buffer \in Seq(RowType) /\ rows \o <<>> = rows
  BY <1>1, ConcatProperties
<1>3. Coming(v) = rows \o (IF v = tabKey THEN buffer ELSE <<>>)
  BY DEF Coming, rows
<1> QED BY <1>1, <1>2, <1>3 DEF rows

\* Views that lose rows, or the tab what it has buffered, show fewer rows.
LEMMA LosingParts ==
    Typed /\ Typed' /\ (\E gone : Loses(store, store', gone))
          /\ (buffer' = <<>> \/ UNCHANGED <<tabKey, buffer>>)
        => \A v \in Views : Part(Coming(v), Coming(v)')
PROOF
<1> SUFFICES ASSUME Typed, Typed', NEW gone, Loses(store, store', gone),
                    buffer' = <<>> \/ UNCHANGED <<tabKey, buffer>>,
                    NEW v \in Views
             PROVE  Part(Coming(v), Coming(v)')
  OBVIOUS
<1> DEFINE rows == store.rows[v]
<1>1. /\ rows \in Seq(RowType) /\ Coming(v) \in Seq(RowType)
      /\ buffer \in Seq(RowType)
      /\ Coming(v) = rows \/ Coming(v) = rows \o buffer
      /\ v = tabKey => Coming(v) = rows \o buffer
      /\ v # tabKey => Coming(v) = rows
  BY ComingFacts DEF Typed, ComingParts
<1>2. store'.rows[v] \in {<<>>, rows}
  BY DEF Loses
<1>3. /\ v # tabKey' \/ buffer' = <<>> => Coming(v)' = store'.rows[v]
      /\ v = tabKey' => Coming(v)' = store'.rows[v] \o buffer'
  <2>1. ComingParts'
    BY ComingFacts, PTL
  <2> QED BY <2>1 DEF ComingParts
<1>4. CASE Coming(v)' = <<>>
  BY <1>1, <1>4, PartNone
<1>5. CASE Coming(v)' = rows
  <2>1. Part(rows, rows) /\ Part(rows \o buffer, rows)
    BY <1>1, PartSame, PartOfBoth
  <2> QED BY <1>1, <1>5, <2>1
<1>6. CASE v = tabKey /\ UNCHANGED <<tabKey, buffer>>
  <2>1. Coming(v)' = <<>> \o buffer \/ Coming(v)' = rows \o buffer
    BY <1>2, <1>3, <1>6
  <2>2. <<>> \o buffer = buffer
    BY <1>1
  <2>3. Coming(v) = rows \o buffer
    BY <1>1, <1>6
  <2>4. Part(rows \o buffer, buffer) /\ Part(Coming(v), Coming(v))
    BY <1>1, PartSame, PartOfBoth
  <2> QED BY <2>1, <2>2, <2>3, <2>4
<1>7. CASE v # tabKey' \/ buffer' = <<>>
  BY <1>2, <1>3, <1>4, <1>5, <1>7
<1> QED BY <1>6, <1>7

\* A step of the store that only loses rows keeps its books.
LEMMA PutLess ==
    ASSUME Typed, Books, NEW s \in StoreType, NEW gone,
           Loses(store, s, gone), Put(s)
    PROVE  /\ store' \in StoreType /\ phantom' \subseteq Views
           /\ Books' /\ Loses(store, store', gone)
           /\ store'.evicted = s.evicted
PROOF
<1>1. store \in StoreType /\ phantom \subseteq Views
  BY DEF Typed
<1>2. /\ store' \in StoreType
      /\ store'.rows = s.rows /\ store'.bytes = s.bytes
      /\ store'.evicted = s.evicted
      /\ phantom' = (phantom \union {}) \intersect Holding(s)
      /\ Fits(s) => Fits(store')
      /\ Balanced(s, phantom \union {}) => Balanced(store', phantom')
  <2>1. PutCharging(s, {})
    BY DEF Put
  <2> QED BY <2>1, PutFacts
<1>3. Balanced(s, phantom) /\ Fits(s)
  BY <1>1, LosingKeeps DEF Books
<1>4. phantom \union {} = phantom
  OBVIOUS
<1> QED BY <1>1, <1>2, <1>3, <1>4 DEF Books, Loses

\* Looking at a view, and clearing some.
LEMMA TouchFacts ==
    ASSUME NEW s \in StoreType, NEW v \in Views
    PROVE  /\ touchTab(s, v) \in StoreType /\ Loses(s, touchTab(s, v), {})
           /\ touchTab(s, v).evicted = s.evicted
PROOF
<1>1. Cardinality(Views) + 1 \in Nat
  BY FS_CardinalityType, DataTabAssumption
<1> QED BY <1>1 DEF touchTab, StoreType, Loses

\* Cleared views do not say that they lost their rows.
LEMMA ClearFacts ==
    ASSUME NEW s \in StoreType, NEW gone \in SUBSET Views
    PROVE  LET t == clearTabMessages(s, gone)
           IN  /\ t \in StoreType /\ Loses(s, t, gone)
               /\ t.evicted = s.evicted \ gone
PROOF
<1> DEFINE d == Dropped(s, gone)
<1>1. d \in StoreType /\ Loses(s, d, gone) /\ d.evicted = s.evicted
  BY DroppedFacts
<1>2. clearTabMessages(s, gone) = [d EXCEPT !.evicted = @ \ gone]
  BY DEF clearTabMessages
<1> HIDE DEF d
<1> QED BY <1>1, <1>2 DEF StoreType, Loses
-----------------------------------------------------------------------------
\* Nothing is shown.
LEMMA InitRInv == TabInit => RInv
PROOF
<1> SUFFICES ASSUME TabInit PROVE RInv
  OBVIOUS
<1>1. /\ tabKey \in Views /\ stopped = TRUE /\ active = Null
      /\ isPlaying = FALSE /\ buffer = <<>> /\ handle = FALSE
      /\ timers = 0 /\ mine = {} /\ phantom = {} /\ asked = Null
      /\ store = EmptyStore
      /\ fetches = [f \in FetchIds |->
                      [view |-> Null, preview |-> 0, state |-> "none",
                       emitted |-> 0, handled |-> 0, total |-> 0]]
  BY DEF TabInit
<1>2. /\ <<>> \in Seq(RowType) /\ 0 \in 0 .. MaxMessages
  BY DataTabAssumption
<1>3. /\ store \in StoreType
      /\ \A v \in Views : store.rows[v] = <<>> /\ store.bytes[v] = 0
  BY <1>1, <1>2 DEF EmptyStore, StoreType
<1>4. fetches \in [FetchIds -> FetchType]
  BY <1>1, <1>2 DEF FetchType
<1>5. Typed
  BY <1>1, <1>2, <1>3, <1>4 DEF Typed
<1>6. \A v \in Views : Coming(v) = <<>>
  BY <1>1, <1>3, <1>5, ComingFacts DEF ComingParts
<1>7. AllRowed
  <2>1. DOMAIN <<>> = {}
    OBVIOUS
  <2> QED BY <1>6, <2>1 DEF AllRowed, Rowed
<1>8. Books
  <2>1. Balanced(store, phantom)
    BY <1>3, BytesOfNoRows DEF Balanced
  <2>2. Holding(store) = {}
    BY <1>3 DEF Holding
  <2> QED BY <2>1, <2>2, FS_EmptySet DEF Books, Fits
<1>9. \A f \in FetchIds : Fetched(fetches[f])
  BY <1>1 DEF Fetched
<1> QED BY <1>1, <1>5, <1>7, <1>8, <1>9
        DEF RInv, Controls, Timed, Live, Buffered, SoFarWhole, Listens

\* The rows stay as they should be if views only lose some.
LEMMA RowedKept ==
    ASSUME Typed, Typed', AllRowed,
           \A v \in Views : /\ Part(Coming(v), Coming(v)')
                            /\ Evolves(fetches, fetches', v)
    PROVE  AllRowed'
PROOF
<1>1. ComingParts /\ ComingParts'
  BY ComingFacts, PTL
<1> SUFFICES ASSUME NEW v \in Views PROVE Rowed(fetches', Coming(v)', v)
  BY DEF AllRowed
<1> DEFINE rows == Coming(v)
           part == Coming(v)'
<1>2. /\ rows \in Seq(RowType) /\ part \in Seq(RowType)
      /\ Rowed(fetches, rows, v) /\ Part(rows, part)
      /\ Evolves(fetches, fetches', v)
      /\ fetches \in [FetchIds -> FetchType]
      /\ fetches' \in [FetchIds -> FetchType]
  BY <1>1 DEF ComingParts, AllRowed, Typed
<1> HIDE DEF rows, part
<1>3. Rowed(fetches', part, v)
  BY <1>2, PartIsRowed
<1> QED BY <1>3 DEF part

\* Steps that bring no rows.
LEMMA LosingInv ==
    ASSUME RInv, Controls', Typed', Timed', Books', Live',
           \A f \in FetchIds : Fetched(fetches'[f]),
           \A v \in Views : Evolves(fetches, fetches', v),
           \E gone : Loses(store, store', gone),
           buffer' = <<>> \/ UNCHANGED <<tabKey, buffer>>,
           buffer' # <<>> => Listens',
           Listens' => /\ Listens /\ UNCHANGED <<tabKey, buffer>>
                       /\ fetches'[active'].handled = fetches[active].handled,
           Listens' /\ ~cleared' /\ tabKey' \notin store'.evicted
              => /\ ~cleared /\ tabKey \notin store.evicted
                 /\ store'.rows[tabKey] = store.rows[tabKey]
    PROVE  RInv'
PROOF
<1>1. Typed /\ AllRowed /\ SoFarWhole
  BY DEF RInv
<1>2. AllRowed'
  BY <1>1, LosingParts, RowedKept
<1>3. SoFarWhole'
  <2> SUFFICES ASSUME Listens', ~cleared', tabKey' \notin store'.evicted
               PROVE  FirstMessages(Coming(tabKey)', fetches'[active'].handled)
    BY DEF SoFarWhole
  <2>1. Coming(tabKey)' = Coming(tabKey)
    BY DEF Coming
  <2> QED BY <1>1, <2>1 DEF SoFarWhole, FirstMessages
<1>4. Buffered'
  BY DEF Buffered
<1> QED BY <1>2, <1>3, <1>4 DEF RInv

\* A fetch goes on as it was.
LEMMA EvolvesSame ==
    Typed /\ UNCHANGED fetches
      => \A v \in Views : Evolves(fetches, fetches', v)
BY DEF Evolves, Typed, FetchType

\* Stop, another view, the tab's end: nothing is listened to any more.
LEMMA StopRInv ==
    ASSUME RInv,
           \/ handleStop \/ Unmount \/ clearForConnection
           \/ \E v \in Views : SwitchTo(v)
    PROVE  RInv'
PROOF
<1> USE DEF RInv
<1>1. /\ stopped' = TRUE /\ buffer' = <<>> /\ handle' = FALSE
      /\ isPlaying' = FALSE /\ UNCHANGED <<fetches, asked>>
      /\ active' \in {active, Null} /\ mine' \in {mine, {}}
      /\ timers' = 0 \/ (timers' = IF handle THEN timers - 1 ELSE timers)
      /\ tabKey' = Null => timers' = 0
  <2>1. CASE Unmounted /\ UNCHANGED <<fetches, asked>>
    BY <2>1 DEF Unmounted
  <2>2. CASE stopActiveFetch /\ UNCHANGED <<fetches, asked>> /\ tabKey' # Null
    BY <2>2 DEF stopActiveFetch, discardBufferedStream
  <2>3. CASE handleStop
    <3>1. stopActiveFetch /\ UNCHANGED <<fetches, asked, tabKey>>
      BY <2>3 DEF handleStop
    <3>2. tabKey = Null => handle = FALSE /\ timers = 0
      BY DEF Controls, Timed
    <3> QED BY <3>1, <3>2 DEF stopActiveFetch, discardBufferedStream
  <2>4. CASE \E v \in Views : SwitchTo(v)
    BY <2>2, <2>4, DataTabAssumption DEF SwitchTo
  <2> QED BY <2>1, <2>3, <2>4 DEF Unmount, clearForConnection
<1>2. /\ tabKey' \in Views \union {Null}
      /\ store' \in StoreType /\ phantom' \subseteq Views /\ Books'
      /\ \E gone : Loses(store, store', gone)
  <2>0. store \in StoreType /\ phantom \subseteq Views
        /\ tabKey \in Views \union {Null}
    BY DEF Typed
  <2>1. CASE UNCHANGED <<store, phantom>> /\ tabKey' \in {tabKey, Null}
    <3>1. Loses(store, store', {})
      BY <2>1 DEF Loses
    <3>2. Books'
      BY <2>1 DEF Books
    <3> QED BY <2>0, <2>1, <3>1, <3>2
  <2>2. CASE clearForConnection
    <3>1. Put(clearTabMessages(store, Views)) /\ tabKey' = Null
      BY <2>2 DEF clearForConnection, Unmounted
    <3>2. /\ clearTabMessages(store, Views) \in StoreType
          /\ Loses(store, clearTabMessages(store, Views), Views)
      BY <2>0, ClearFacts
    <3> QED BY <3>1, <3>2, PutLess
  <2>3. CASE \E v \in Views : SwitchTo(v)
    <3>1. PICK v \in Views : SwitchTo(v)
      BY <2>3
    <3>2. Put(touchTab(store, v)) /\ tabKey' = v
      BY <3>1 DEF SwitchTo
    <3>3. /\ touchTab(store, v) \in StoreType
          /\ Loses(store, touchTab(store, v), {})
      BY <2>0, TouchFacts
    <3> QED BY <3>2, <3>3, PutLess
  <2> QED BY <2>1, <2>2, <2>3 DEF handleStop, Unmount, Unmounted, dataVars
<1>3. Controls'
  BY <1>1 DEF Controls
<1>4. Typed'
  BY <1>1, <1>2 DEF Typed
<1>5. Timed'
  BY <1>1 DEF Timed, Controls
<1>6. ~Listens'
  BY <1>1 DEF Listens
<1>7. Live'
  BY <1>6 DEF Live
<1> HIDE DEF RInv
<1>8. /\ \A f \in FetchIds : Fetched(fetches'[f])
      /\ \A v \in Views : Evolves(fetches, fetches', v)
  BY <1>1, EvolvesSame DEF RInv
<1> QED BY <1>1, <1>2, <1>3, <1>4, <1>5, <1>6, <1>7, <1>8, LosingInv

\* What leaves the fetch, its rows on screen and its refs alone.
LEMMA QuietRInv ==
    ASSUME RInv,
           \/ clearAllMessagesForTab \/ AskPayload \/ PayloadFails
           \/ \E v \in Views : Mount(v)
           \/ UNCHANGED tabDataVars
    PROVE  RInv'
PROOF
<1>0. /\ Controls /\ Typed /\ Timed /\ Live /\ Buffered /\ Books
      /\ store \in StoreType /\ tabKey \in Views \union {Null}
      /\ phantom \subseteq Views
      /\ \A f \in FetchIds : Fetched(fetches[f])
  BY DEF RInv, Typed
<1>1. UNCHANGED <<isPlaying, refVars, fetches>>
  BY DEF clearAllMessagesForTab, AskPayload, PayloadFails, Mount, tabDataVars,
     tabVars
<1>2. /\ asked' \in [view : Views, offset : 1 .. MaxMessages] \union {Null}
  <2>1. CASE AskPayload
    <3>1. PICK i \in DOMAIN store.rows[tabKey] :
            /\ tabKey \in Views
            /\ asked' = [view |-> tabKey,
                         offset |-> store.rows[tabKey][i].offset]
      BY <2>1, <1>0 DEF AskPayload
    <3> DEFINE rows == store.rows[tabKey]
    <3>2. rows \in Seq(RowType)
      BY <1>0, <3>1 DEF StoreType
    <3>3. i \in DOMAIN rows /\ asked' = [view |-> tabKey, offset |-> rows[i].offset]
      BY <3>1
    <3> HIDE DEF rows
    <3>4. rows[i] \in RowType
      BY <3>2, <3>3
    <3> QED BY <3>1, <3>3, <3>4 DEF RowType
  <2>2. CASE asked' \in {asked, Null}
    BY <1>0, <2>2 DEF Typed
  <2> QED BY <2>1, <2>2 DEF clearAllMessagesForTab, PayloadFails, Mount,
          tabDataVars
<1>3. /\ store' \in StoreType /\ phantom' \subseteq Views /\ Books'
      /\ \E gone : /\ Loses(store, store', gone)
                   /\ gone = {} \/ cleared' = TRUE
      /\ cleared' = TRUE \/ (UNCHANGED cleared /\ store'.evicted = store.evicted)
  <2>1. CASE UNCHANGED <<store, phantom, cleared>>
    <3>1. Loses(store, store', {})
      BY <2>1 DEF Loses
    <3>2. Books'
      BY <1>0, <2>1 DEF Books
    <3> QED BY <1>0, <2>1, <3>1, <3>2
  <2>2. CASE clearAllMessagesForTab
    <3>1. Put(clearTabMessages(store, Views)) /\ cleared' = TRUE
      BY <2>2 DEF clearAllMessagesForTab
    <3>2. /\ clearTabMessages(store, Views) \in StoreType
          /\ Loses(store, clearTabMessages(store, Views), Views)
      BY <1>0, ClearFacts
    <3> QED BY <1>0, <3>1, <3>2, PutLess
  <2>3. CASE \E v \in Views : Mount(v)
    <3>1. PICK v \in Views : Mount(v)
      BY <2>3
    <3>2. Put(touchTab(store, v)) /\ UNCHANGED cleared
      BY <3>1 DEF Mount
    <3>3. /\ touchTab(store, v) \in StoreType
          /\ Loses(store, touchTab(store, v), {})
          /\ touchTab(store, v).evicted = store.evicted
      BY <1>0, TouchFacts
    <3> QED BY <1>0, <3>2, <3>3, PutLess
  <2> QED BY <2>1, <2>2, <2>3 DEF AskPayload, PayloadFails, tabDataVars, dataVars
<1>4. \/ UNCHANGED tabKey
      \/ tabKey = Null /\ tabKey' \in Views
  BY DEF clearAllMessagesForTab, AskPayload, PayloadFails, Mount, tabDataVars,
     tabVars
<1>5. Controls'
  BY <1>0, <1>1 DEF Controls, refVars
<1>6. Typed'
  BY <1>0, <1>1, <1>2, <1>3, <1>4 DEF Typed, refVars
<1>7. Timed'
  BY <1>0, <1>1, <1>4, DataTabAssumption DEF Timed, refVars
<1>8. tabKey = Null => ~Listens /\ buffer = <<>>
  BY <1>0, DataTabAssumption DEF Live, Buffered
<1>9. Listens' = Listens /\ (Listens => UNCHANGED tabKey)
      /\ (UNCHANGED tabKey \/ buffer' = <<>>)
  BY <1>1, <1>4, <1>8 DEF Listens, refVars
<1>10. Live'
  BY <1>0, <1>1, <1>9 DEF Live, refVars
<1>11. /\ \A f \in FetchIds : Fetched(fetches'[f])
       /\ \A v \in Views : Evolves(fetches, fetches', v)
  BY <1>0, <1>1, EvolvesSame
<1>12. /\ buffer' = <<>> \/ UNCHANGED <<tabKey, buffer>>
       /\ buffer' # <<>> => Listens'
  BY <1>0, <1>1, <1>9 DEF Buffered, refVars
<1>13. Listens' => /\ Listens /\ UNCHANGED <<tabKey, buffer>>
                   /\ fetches'[active'].handled = fetches[active].handled
  BY <1>1, <1>9 DEF refVars
<1>14. Listens' /\ ~cleared' /\ tabKey' \notin store'.evicted
          => /\ ~cleared /\ tabKey \notin store.evicted
             /\ store'.rows[tabKey] = store.rows[tabKey]
  <2> SUFFICES ASSUME Listens', ~cleared', tabKey' \notin store'.evicted
               PROVE  /\ ~cleared /\ tabKey \notin store.evicted
                      /\ store'.rows[tabKey] = store.rows[tabKey]
    OBVIOUS
  <2>1. Loses(store, store', {}) /\ tabKey \in Views
    BY <1>0, <1>3, <1>9 DEF Live
  <2> QED BY <1>3, <1>9, <2>1 DEF Loses
<1> QED BY <1>3, <1>5, <1>6, <1>7, <1>10, <1>11, <1>12, <1>13, <1>14, LosingInv

\* The response of a fetch says how far its events will come.
LEMMA RespondRInv ==
    ASSUME RInv, NEW f \in FetchIds, Respond(f)
    PROVE  RInv'
PROOF
<1>0. /\ Controls /\ Typed /\ Timed /\ Live /\ Buffered /\ Books
      /\ fetches \in [FetchIds -> FetchType]
      /\ \A g \in FetchIds : Fetched(fetches[g])
  BY DEF RInv, Typed
<1>1. UNCHANGED <<tabVars, dataVars, asked, cleared>>
      /\ fetches[f].state = "running"
  BY DEF Respond
<1>2. PICK emitted \in fetches[f].handled .. MaxMessages :
        \E total \in emitted .. MaxMessages, state \in {"answered", "failed"} :
           fetches' = [fetches EXCEPT ![f] =
              [@ EXCEPT !.state = state, !.emitted = emitted, !.total = total]]
  BY DEF Respond
<1>3. PICK total \in emitted .. MaxMessages, state \in {"answered", "failed"} :
        fetches' = [fetches EXCEPT ![f] =
           [@ EXCEPT !.state = state, !.emitted = emitted, !.total = total]]
  BY <1>2
<1> DEFINE old == fetches[f]
           new == fetches'[f]
<1>4. old \in FetchType /\ Fetched(old)
  BY <1>0
<1>5. /\ new = [old EXCEPT !.state = state, !.emitted = emitted,
                           !.total = total]
      /\ fetches' = [fetches EXCEPT ![f] = new]
      /\ \A g \in FetchIds \ {f} : fetches'[g] = fetches[g]
  BY <1>0, <1>3
<1> HIDE DEF old, new
<1>6. /\ new.view = old.view /\ new.handled = old.handled
      /\ new.preview = old.preview /\ new.state = state
      /\ new.emitted = emitted /\ new.total = total
  BY <1>4, <1>5 DEF FetchType
<1>7. /\ emitted \in 0 .. MaxMessages /\ total \in 0 .. MaxMessages
      /\ old.handled <= emitted /\ emitted <= total
  BY <1>4, <1>2, <1>3 DEF FetchType, old
<1>8. new \in FetchType
  BY <1>4, <1>5, <1>7 DEF FetchType
<1>9. fetches' \in [FetchIds -> FetchType]
  BY <1>0, <1>5, <1>8
<1>10. Fetched(new)
  <2>1. old.state = "running"
    BY <1>1 DEF old
  <2>2. old.view \in Views /\ old.preview \in Previews
    BY <1>4, <2>1 DEF Fetched
  <2> QED BY <1>6, <1>7, <2>2 DEF Fetched
<1>11. \A g \in FetchIds : Fetched(fetches'[g])
  BY <1>0, <1>5, <1>10 DEF new
<1>12. \A v \in Views : Evolves(fetches, fetches', v)
  <2>1. \A g \in FetchIds :
           /\ fetches'[g].view = fetches[g].view
           /\ fetches'[g].handled = fetches[g].handled
           /\ fetches[g].handled \in Int
           /\ fetches[g].state = "settled" => fetches'[g].state = "settled"
    <3>1. fetches[f].handled \in Int
      BY <1>0 DEF FetchType
    <3>2. \A g \in FetchIds : fetches[g].handled \in Int
      BY <1>0 DEF FetchType
    <3> QED BY <1>1, <1>5, <1>6, <3>2 DEF old, new
  <2> QED BY <2>1 DEF Evolves
<1>13. Live'
  <2>1. \A g \in FetchIds :
           /\ fetches'[g].view = fetches[g].view
           /\ fetches[g].state \notin {"none", "settled"}
                 => fetches'[g].state \notin {"none", "settled"}
    BY <1>3, <1>5, <1>6 DEF old, new
  <2>2. mine \subseteq FetchIds
    BY <1>0 DEF Typed
  <2> QED BY <1>0, <1>1, <2>1, <2>2 DEF Live, Listens, tabVars, refVars
<1>14. Controls' /\ Typed' /\ Timed' /\ Books'
  BY <1>0, <1>1, <1>9
     DEF Controls, Typed, Timed, Books, tabVars, refVars, dataVars
<1>15. Loses(store, store', {})
  BY <1>1 DEF Loses, dataVars
<1>16. /\ Listens' = Listens
       /\ Listens => fetches'[active'].handled = fetches[active].handled
  <2>1. \A g \in FetchIds : fetches'[g].handled = fetches[g].handled
    BY <1>5, <1>6 DEF old, new
  <2> QED BY <1>0, <1>1, <2>1 DEF Listens, Live, Typed, tabVars, refVars
<1> QED BY <1>0, <1>1, <1>11, <1>12, <1>13, <1>14, <1>15, <1>16, LosingInv
        DEF Buffered, tabVars, refVars, dataVars

\* The messages of a fetch, as rows.
LEMMA RowsFacts ==
    ASSUME Typed, NEW f \in FetchIds, Fetched(fetches[f]),
           fetches[f].state # "none",
           NEW n \in Nat, NEW last \in 0 .. MaxMessages, n <= last
    PROVE  /\ Rows(f, n + 1, last) \in Seq(RowType)
           /\ Len(Rows(f, n + 1, last)) = last - n
           /\ \A i \in DOMAIN Rows(f, n + 1, last) :
                 /\ Rows(f, n + 1, last)[i].fetch = f
                 /\ Rows(f, n + 1, last)[i].offset = n + i
PROOF
<1> DEFINE preview == fetches[f].preview
           m == last - n
           rows == [i \in 1 .. m |->
                      [fetch |-> f, offset |-> (n + 1) + i - 1, size |-> preview]]
<1>1. preview \in Previews
  BY DEF Fetched
<1>2. m \in Nat /\ last - (n + 1) + 1 = m
      /\ \A i \in 1 .. m : (n + 1) + i - 1 = n + i /\ n + i \in 1 .. MaxMessages
  BY DataTabAssumption
<1>3. Rows(f, n + 1, last) = rows
  BY <1>2 DEF Rows
<1> HIDE DEF m, preview
<1>4. \A i \in 1 .. m : rows[i] \in RowType
  BY <1>1, <1>2 DEF RowType
<1>5. rows \in Seq(RowType) /\ Len(rows) = m /\ DOMAIN rows = 1 .. m
  BY <1>2, <1>4
<1>6. \A i \in 1 .. m : rows[i].fetch = f /\ rows[i].offset = n + i
  BY <1>2
<1> HIDE DEF rows
<1> QED BY <1>3, <1>5, <1>6 DEF m

\* More messages of the fetch that a view shows.
LEMMA MoreRows ==
    ASSUME NEW F \in [FetchIds -> FetchType],
           NEW G \in [FetchIds -> FetchType],
           NEW v \in Views, NEW f \in FetchIds, NEW n \in Nat,
           NEW rows \in Seq(RowType), NEW more \in Seq(RowType),
           Rowed(F, rows, v),
           F[f].view = v, \A g \in FetchIds : F[g].view = v => g <= f,
           F[f].state # "settled", F[f].handled <= n,
           \A g \in FetchIds : G[g].view = F[g].view,
           \A i \in DOMAIN more : more[i].fetch = f /\ more[i].offset = n + i,
           G[f].state # "settled" => n + Len(more) <= G[f].handled
    PROVE  Rowed(G, rows \o more, v)
PROOF
<1> DEFINE all == rows \o more
           k == Len(rows)
           m == Len(more)
<1>1. /\ k \in Nat /\ m \in Nat /\ DOMAIN rows = 1 .. k
      /\ DOMAIN more = 1 .. m /\ DOMAIN all = 1 .. k + m
      /\ \A i \in 1 .. k : rows[i] \in RowType
      /\ \A i \in 1 .. k + m :
            all[i] = IF i <= k THEN rows[i] ELSE more[i - k]
  OBVIOUS
<1> HIDE DEF all, k, m
<1>2. ASSUME NEW i \in 1 .. k
      PROVE  /\ rows[i].fetch = f /\ rows[i].offset \in Int
             /\ rows[i].offset <= n
             /\ \A j \in 1 .. k : i < j => rows[i].offset < rows[j].offset
  <2>1. rows[i].fetch \in FetchIds /\ rows[i].offset \in Int
    <3>1. rows[i] \in RowType
      BY <1>1
    <3> QED BY <3>1 DEF RowType
  <2>2. /\ F[rows[i].fetch].view = v
        /\ \A g \in FetchIds : F[g].view = v => g <= rows[i].fetch
        /\ \A j \in 1 .. k : i < j => rows[i].offset < rows[j].offset
        /\ F[rows[i].fetch].state # "settled"
              => rows[i].offset <= F[rows[i].fetch].handled
    BY <1>1 DEF Rowed
  <2>3. rows[i].fetch <= f /\ f <= rows[i].fetch
    BY <2>1, <2>2
  <2>4. rows[i].fetch = f
    BY <2>1, <2>3, DataTabAssumption DEF FetchIds
  <2>5. F[f].handled \in Int
    BY DEF FetchType
  <2> QED BY <2>1, <2>2, <2>4, <2>5
<1>3. ASSUME NEW i \in 1 .. k + m
      PROVE  /\ all[i].fetch = f /\ all[i].offset \in Int
             /\ all[i].offset <= n + m
             /\ i > k => all[i].offset = n + (i - k)
             /\ i <= k => all[i] = rows[i]
  <2>1. CASE i <= k
    BY <1>1, <1>2, <2>1
  <2>2. CASE i > k
    <3>1. i - k \in 1 .. m /\ all[i] = more[i - k]
      BY <1>1, <2>2
    <3> QED BY <1>1, <2>2, <3>1
  <2> QED BY <1>1, <2>1, <2>2
<1>4. ASSUME NEW i \in 1 .. k + m, NEW j \in 1 .. k + m, i < j
      PROVE  all[i].offset < all[j].offset
  <2>1. CASE j <= k
    <3>1. i \in 1 .. k /\ j \in 1 .. k
      BY <1>1, <1>4, <2>1
    <3> QED BY <1>1, <1>2, <1>3, <1>4, <3>1
  <2>2. CASE i <= k /\ j > k
    <3>1. i \in 1 .. k /\ all[i] = rows[i] /\ all[j].offset = n + (j - k)
      BY <1>1, <1>3, <2>2
    <3> QED BY <1>1, <1>2, <2>2, <3>1
  <2>3. CASE i > k
    <3>1. all[i].offset = n + (i - k) /\ all[j].offset = n + (j - k)
      BY <1>1, <1>3, <1>4, <2>3
    <3> QED BY <1>1, <1>4, <3>1
  <2> QED BY <1>1, <2>1, <2>2, <2>3
<1> SUFFICES ASSUME NEW i \in DOMAIN all
             PROVE  /\ G[all[i].fetch].view = v
                    /\ \A g \in FetchIds : G[g].view = v => g <= all[i].fetch
                    /\ \A j \in DOMAIN all :
                          i < j => all[i].offset < all[j].offset
                    /\ G[all[i].fetch].state # "settled"
                          => all[i].offset <= G[all[i].fetch].handled
  BY DEF Rowed, all
<1>5. i \in 1 .. k + m /\ all[i].fetch = f
  BY <1>1, <1>3
<1>6. G[f].handled \in Int
  BY DEF FetchType
<1>7. G[f].state # "settled" => all[i].offset <= G[f].handled
  BY <1>1, <1>3, <1>5, <1>6 DEF m
<1> QED BY <1>1, <1>4, <1>5, <1>7

\* Nothing is missing if the next messages follow.
LEMMA MoreOfTheFirst ==
    ASSUME NEW rows \in Seq(RowType), NEW more \in Seq(RowType), NEW n \in Nat,
           FirstMessages(rows, n),
           \A i \in DOMAIN more : more[i].offset = n + i
    PROVE  FirstMessages(rows \o more, n + Len(more))
PROOF
<1> DEFINE all == rows \o more
           m == Len(more)
<1>1. /\ Len(rows) = n /\ m \in Nat /\ DOMAIN rows = 1 .. n
      /\ DOMAIN more = 1 .. m /\ DOMAIN all = 1 .. n + m /\ Len(all) = n + m
      /\ \A i \in 1 .. n + m :
            all[i] = IF i <= n THEN rows[i] ELSE more[i - n]
  <2>1. Len(rows) = n
    BY DEF FirstMessages
  <2>2. /\ m \in Nat /\ DOMAIN rows = 1 .. Len(rows) /\ DOMAIN more = 1 .. m
        /\ Len(all) = Len(rows) + m /\ DOMAIN all = 1 .. Len(rows) + m
    OBVIOUS
  <2>3. \A i \in 1 .. Len(rows) + m :
           all[i] = IF i <= Len(rows) THEN rows[i] ELSE more[i - Len(rows)]
    OBVIOUS
  <2> HIDE DEF all, m
  <2> QED BY <2>1, <2>2, <2>3
<1> HIDE DEF all, m
<1>2. ASSUME NEW i \in 1 .. n + m PROVE all[i].offset = i
  <2>1. CASE i <= n
    <3>1. i \in DOMAIN rows /\ all[i] = rows[i]
      BY <1>1, <2>1
    <3> QED BY <3>1 DEF FirstMessages
  <2>2. CASE i > n
    <3>1. i - n \in 1 .. m /\ all[i] = more[i - n] /\ n + (i - n) = i
      BY <1>1, <2>2
    <3> QED BY <1>1, <3>1
  <2> QED BY <1>1, <2>1, <2>2
<1> QED BY <1>1, <1>2 DEF FirstMessages, all, m

\* An event is taken as the next row, or by nobody.
LEMMA HandleEventRInv ==
    ASSUME RInv, NEW f \in FetchIds, HandleEvent(f)
    PROVE  RInv'
PROOF
<1>0. /\ Controls /\ Typed /\ Timed /\ Live /\ Buffered /\ Books /\ AllRowed
      /\ SoFarWhole
      /\ fetches \in [FetchIds -> FetchType] /\ mine \subseteq FetchIds
      /\ \A g \in FetchIds : Fetched(fetches[g])
      /\ buffer \in Seq(RowType)
  BY DEF RInv, Typed
<1> DEFINE old == fetches[f]
           new == fetches'[f]
           n == old.handled
<1>1. /\ UNCHANGED <<tabKey, isPlaying, stopped, active, mine, store, phantom,
                     asked, cleared>>
      /\ fetches' = [fetches EXCEPT ![f].handled = @ + 1]
      /\ \/ old.state = "running" /\ n < MaxMessages
         \/ n < old.emitted
  BY DEF HandleEvent, dataVars
<1>2. old \in FetchType /\ Fetched(old)
  BY <1>0
<1>3. /\ new = [old EXCEPT !.handled = n + 1]
      /\ fetches' = [fetches EXCEPT ![f] = new]
      /\ \A g \in FetchIds \ {f} : fetches'[g] = fetches[g]
  BY <1>0, <1>1
<1> HIDE DEF old, new
<1>4. /\ n \in Nat /\ n + 1 \in 1 .. MaxMessages /\ old.state # "none"
      /\ old.state # "running" => n + 1 <= old.emitted
  <2>1. n \in 0 .. MaxMessages /\ old.emitted \in 0 .. MaxMessages
        /\ MaxMessages \in Nat
    BY <1>2, DataTabAssumption DEF FetchType
  <2>2. old.state = "none" => n = 0 /\ old.emitted = 0
    BY <1>2 DEF Fetched
  <2> HIDE DEF n
  <2>3. n < MaxMessages
    BY <1>1, <2>1
  <2> QED BY <1>1, <2>1, <2>2, <2>3
<1>5. /\ new.view = old.view /\ new.handled = n + 1 /\ new.state = old.state
      /\ new.preview = old.preview /\ new.emitted = old.emitted
      /\ new.total = old.total
  BY <1>2, <1>3 DEF FetchType
<1>6. new \in FetchType
  BY <1>2, <1>3, <1>4 DEF FetchType
<1>7. fetches' \in [FetchIds -> FetchType]
  BY <1>0, <1>3, <1>6
<1>8. \A g \in FetchIds : Fetched(fetches'[g])
  <2>1. Fetched(new)
    BY <1>2, <1>4, <1>5 DEF Fetched
  <2> QED BY <1>0, <1>3, <2>1 DEF new
<1>9. \A g \in FetchIds : /\ fetches'[g].view = fetches[g].view
                          /\ fetches'[g].state = fetches[g].state
                          /\ fetches'[g].handled >= fetches[g].handled
  <2> SUFFICES ASSUME NEW g \in FetchIds
               PROVE  /\ fetches'[g].view = fetches[g].view
                      /\ fetches'[g].state = fetches[g].state
                      /\ fetches'[g].handled >= fetches[g].handled
    OBVIOUS
  <2>1. CASE g = f
    BY <1>4, <1>5, <2>1 DEF old, new
  <2>2. CASE g # f
    <3>1. fetches'[g] = fetches[g] /\ fetches[g] \in FetchType
      BY <1>0, <1>3, <2>2
    <3>2. fetches[g].handled \in Int
      BY <3>1 DEF FetchType
    <3> QED BY <3>1, <3>2
  <2> QED BY <2>1, <2>2
<1>10. \A v \in Views : Evolves(fetches, fetches', v)
  BY <1>9 DEF Evolves
<1>11. Live' /\ Listens' = Listens
  BY <1>0, <1>1, <1>9 DEF Live, Listens
<1>12. Books' /\ Loses(store, store', {})
  BY <1>0, <1>1 DEF Books, Loses
<1>13. CASE ~IsListenedTo(f)
  <2>1. UNCHANGED <<buffer, handle, timers>>
    BY <1>13 DEF HandleEvent
  <2>2. Controls' /\ Typed' /\ Timed'
    BY <1>0, <1>1, <1>7, <2>1 DEF Controls, Typed, Timed
  <2>3. Listens' => fetches'[active'].handled = fetches[active].handled
    <3> SUFFICES ASSUME Listens
                 PROVE  fetches'[active].handled = fetches[active].handled
      BY <1>1, <1>11
    <3>1. tabKey \in Views /\ ~stopped /\ active \in FetchIds
      BY <1>0 DEF Live, Listens
    <3>2. active # f
      BY <1>13, <3>1, DataTabAssumption DEF IsListenedTo
    <3> QED BY <1>3, <3>1, <3>2
  <2> QED BY <1>0, <1>1, <1>8, <1>10, <1>11, <1>12, <2>1, <2>2, <2>3,
             LosingInv DEF Buffered
<1>14. CASE IsListenedTo(f)
  <2> DEFINE more == Rows(f, n + 1, n + 1)
  <2>1. /\ buffer' = buffer \o more /\ handle' = TRUE
        /\ timers' = IF handle THEN timers ELSE timers + 1
    BY <1>14 DEF HandleEvent, old
  <2>2. /\ more \in Seq(RowType) /\ Len(more) = (n + 1) - n
        /\ \A i \in DOMAIN more : more[i].fetch = f /\ more[i].offset = n + i
    <3>1. n + 1 \in 0 .. MaxMessages /\ n <= n + 1 /\ n \in Nat
      BY <1>4
    <3>2. Fetched(fetches[f]) /\ fetches[f].state # "none"
      BY <1>2, <1>4 DEF old
    <3> HIDE DEF n
    <3> QED BY <1>0, <3>1, <3>2, RowsFacts
  <2> HIDE DEF more, n
  <2>3. Len(more) = 1
    BY <1>4, <2>2
  <2>4. buffer' \in Seq(RowType)
    BY <1>0, <2>1, <2>2, ConcatProperties
  <2>5. Typed' /\ Controls'
    BY <1>0, <1>1, <1>7, <2>1, <2>4 DEF Typed, Controls
  <2>6. Timed'
    <3>1. timers' \in Nat /\ timers' > 0
      BY <1>0, <2>1 DEF Timed, Controls
    <3>2. tabKey # Null
      BY <1>14 DEF IsListenedTo
    <3> QED BY <1>1, <3>1, <3>2 DEF Timed
  <2>7. /\ Listens /\ active = f /\ tabKey \in Views
        /\ old.view = tabKey /\ old.state # "settled"
        /\ \A g \in FetchIds : fetches[g].view = tabKey => g <= f
    <3>1. Listens /\ active = f
      BY <1>14, DataTabAssumption DEF IsListenedTo, Listens, FetchIds
    <3> QED BY <1>0, <3>1 DEF Live, old
  <2>8. ComingParts /\ ComingParts'
    BY <1>0, <2>5, ComingFacts, PTL
  <2>9. Coming(tabKey)' = Coming(tabKey) \o more
    <3> DEFINE rows == store.rows[tabKey]
    <3>1. /\ rows \in Seq(RowType) /\ Coming(tabKey) = rows \o buffer
          /\ Coming(tabKey)' = rows \o (buffer \o more)
      <4>1. tabKey' = tabKey /\ store' = store
        BY <1>1
      <4> QED BY <2>1, <2>7, <2>8, <4>1 DEF ComingParts
    <3> HIDE DEF rows
    <3>2. rows \o (buffer \o more) = (rows \o buffer) \o more
      <4>1. buffer \in Seq(RowType)
        BY <1>0
      <4>2. more \in Seq(RowType)
        BY <2>2
      <4> QED BY <3>1, <4>1, <4>2, ConcatAssociative
    <3> QED BY <3>1, <3>2
  <2>10. AllRowed'
    <3> SUFFICES ASSUME NEW v \in Views PROVE Rowed(fetches', Coming(v)', v)
      BY DEF AllRowed
    <3> DEFINE rows == Coming(v)
    <3>1. rows \in Seq(RowType) /\ Rowed(fetches, rows, v)
      BY <1>0, <2>8 DEF ComingParts, AllRowed
    <3>2. CASE v = tabKey
      <4>1. /\ fetches[f].view = v /\ fetches[f].state # "settled"
            /\ fetches[f].handled <= n
            /\ \A g \in FetchIds : fetches[g].view = v => g <= f
            /\ fetches'[f].state # "settled"
                  => n + Len(more) <= fetches'[f].handled
        BY <1>4, <1>5, <2>3, <2>7, <3>2 DEF old, new, n
      <4>2. \A g \in FetchIds : fetches'[g].view = fetches[g].view
        BY <1>9
      <4>3. n \in Nat
        BY <1>4
      <4> HIDE DEF rows
      <4>4. Rowed(fetches', rows \o more, v)
        BY <1>0, <1>7, <2>2, <3>1, <4>1, <4>2, <4>3, MoreRows
      <4> QED BY <1>1, <2>9, <3>2, <4>4 DEF rows
    <3>3. CASE v # tabKey
      <4>1. Coming(v)' = Coming(v)
        BY <1>1, <2>8, <3>3 DEF ComingParts
      <4> HIDE DEF rows
      <4>2. Rowed(fetches', rows, v)
        BY <1>0, <1>7, <1>10, <3>1, PartSame, PartIsRowed
      <4> QED BY <4>1, <4>2 DEF rows
    <3> QED BY <3>2, <3>3
  <2>11. SoFarWhole'
    <3> SUFFICES ASSUME ~cleared, tabKey \notin store.evicted
                 PROVE  FirstMessages(Coming(tabKey)', fetches'[active'].handled)
      BY <1>1 DEF SoFarWhole
    <3> DEFINE rows == Coming(tabKey)
    <3>1. rows \in Seq(RowType) /\ FirstMessages(rows, n)
      BY <1>0, <2>7, <2>8 DEF ComingParts, SoFarWhole, n, old
    <3> HIDE DEF rows
    <3>2. FirstMessages(rows \o more, n + Len(more))
      BY <1>4, <2>2, <3>1, MoreOfTheFirst
    <3>3. fetches'[active'].handled = n + Len(more)
      BY <1>1, <1>5, <2>3, <2>7 DEF new
    <3> QED BY <2>9, <3>2, <3>3 DEF rows
  <2>12. Buffered'
    BY <1>11, <2>7 DEF Buffered
  <2> QED BY <1>8, <1>11, <1>12, <2>5, <2>6, <2>10, <2>11, <2>12 DEF RInv
<1> QED BY <1>13, <1>14

\* The timer: what is buffered becomes rows, and shows no more than before.
LEMMA FlushRInv == RInv /\ flush => RInv'
PROOF
<1> SUFFICES ASSUME RInv, flush PROVE RInv'
  OBVIOUS
<1>0. /\ Controls /\ Typed /\ Timed /\ Live /\ Buffered /\ Books /\ AllRowed
      /\ SoFarWhole /\ store \in StoreType /\ buffer \in Seq(RowType)
      /\ phantom \subseteq Views
      /\ \A f \in FetchIds : Fetched(fetches[f])
  BY DEF RInv, Typed
<1>1. /\ timers > 0 /\ timers' = timers - 1 /\ handle' = FALSE /\ buffer' = <<>>
      /\ UNCHANGED <<tabKey, isPlaying, stopped, active, mine, fetches, asked,
                     cleared>>
  BY DEF flush
<1>2. Controls' /\ Timed'
  <2>1. Controls'
    BY <1>0, <1>1 DEF Controls
  <2>2. timers \in Nat /\ (tabKey = Null => timers = 0)
    BY <1>0 DEF Timed
  <2>3. timers' \in Nat /\ tabKey # Null
    BY <1>1, <2>2
  <2> QED BY <1>1, <2>1, <2>3 DEF Timed
<1>3. /\ Live' /\ Listens' = Listens
      /\ \A f \in FetchIds : Fetched(fetches'[f])
      /\ \A v \in Views : Evolves(fetches, fetches', v)
  BY <1>0, <1>1, EvolvesSame DEF Live, Listens
<1>4. CASE buffer = <<>>
  <2>1. UNCHANGED <<store, phantom>>
    BY <1>4 DEF flush, dataVars
  <2>2. Typed' /\ Books' /\ Loses(store, store', {})
    BY <1>0, <1>1, <1>4, <2>1 DEF Typed, Books, Loses
  <2> QED BY <1>1, <1>2, <1>3, <1>4, <2>1, <2>2, LosingInv
<1>5. CASE buffer # <<>>
  <2> DEFINE s == evictToFit(Retain(store, tabKey, buffer), tabKey)
  <2>1. Listens /\ tabKey \in Views
    BY <1>0, <1>5 DEF Buffered, Live
  <2>2. PutCharging(s, {})
    BY <1>5 DEF flush, Put
  <2>3. /\ s \in StoreType /\ Fits(s)
        /\ \A lost : Balanced(store, lost) => Balanced(s, lost)
        /\ \E gone \in SUBSET (Views \ {tabKey}) :
              /\ s.evicted = store.evicted \union gone
              /\ \A w \in Views : s.rows[w] =
                    IF w \in gone THEN <<>>
                    ELSE IF w = tabKey THEN store.rows[tabKey] \o buffer
                    ELSE store.rows[w]
    <3>1. Holds(store, tabKey, buffer, s)
      BY <1>0, <2>1, RetainAndFit
    <3> HIDE DEF s
    <3> QED BY <3>1 DEF Holds
  <2> HIDE DEF s
  <2>4. /\ store' \in StoreType
        /\ store'.rows = s.rows /\ store'.evicted = s.evicted
        /\ phantom' = (phantom \union {}) \intersect Holding(s)
        /\ Fits(s) => Fits(store')
        /\ Balanced(s, phantom \union {}) => Balanced(store', phantom')
    BY <2>2, <2>3, PutFacts
  <2>5. PICK gone \in SUBSET (Views \ {tabKey}) :
          /\ s.evicted = store.evicted \union gone
          /\ \A w \in Views : s.rows[w] =
                IF w \in gone THEN <<>>
                ELSE IF w = tabKey THEN store.rows[tabKey] \o buffer
                ELSE store.rows[w]
    BY <2>3
  <2>6. Books' /\ phantom' \subseteq Views
    <3>1. phantom \union {} = phantom
      OBVIOUS
    <3> QED BY <1>0, <2>3, <2>4, <3>1 DEF Books
  <2>7. Typed'
    <3>1. <<>> \in Seq(RowType)
      OBVIOUS
    <3> QED BY <1>0, <1>1, <2>4, <2>6, <3>1 DEF Typed
  <2>8. ComingParts /\ ComingParts'
    BY <1>0, <2>7, ComingFacts, PTL
  <2>9. ASSUME NEW w \in Views
        PROVE  /\ Coming(w)' \in {Coming(w), <<>>}
               /\ w = tabKey => Coming(w)' = Coming(w)
    <3>1. Coming(w)' = store'.rows[w]
      BY <1>1, <2>8 DEF ComingParts
    <3>2. Coming(w) = IF w = tabKey THEN store.rows[w] \o buffer
                      ELSE store.rows[w]
      BY <2>8 DEF ComingParts
    <3> QED BY <2>4, <2>5, <3>1, <3>2
  <2>10. \A w \in Views : Part(Coming(w), Coming(w)')
    <3> SUFFICES ASSUME NEW w \in Views PROVE Part(Coming(w), Coming(w)')
      OBVIOUS
    <3>1. Coming(w) \in Seq(RowType)
      BY <2>8 DEF ComingParts
    <3>2. Part(Coming(w), Coming(w)) /\ Part(Coming(w), <<>>)
      BY <3>1, PartSame, PartNone
    <3> QED BY <2>9, <3>2
  <2>11. AllRowed'
    BY <1>0, <1>3, <2>7, <2>10, RowedKept
  <2>12. SoFarWhole'
    <3> SUFFICES ASSUME ~cleared, tabKey \notin store'.evicted
                 PROVE  FirstMessages(Coming(tabKey)', fetches'[active'].handled)
      BY <1>1 DEF SoFarWhole
    <3>1. Coming(tabKey)' = Coming(tabKey) /\ tabKey \notin store.evicted
      BY <1>1, <2>1, <2>4, <2>5, <2>9
    <3>2. FirstMessages(Coming(tabKey), fetches[active].handled)
      BY <1>0, <2>1, <3>1 DEF SoFarWhole
    <3> QED BY <1>1, <3>1, <3>2
  <2> QED BY <1>1, <1>2, <1>3, <2>6, <2>7, <2>11, <2>12 DEF RInv, Buffered
<1> QED BY <1>4, <1>5

\* The response is applied: its messages follow those that were streamed, and
\* other views make room.
LEMMA AppliedFacts ==
    ASSUME RInv, NEW f \in FetchIds, Settle(f), IsCurrent(f), ~stopped,
           fetches[f].state = "answered"
    PROVE  LET rest == Rows(f, fetches[f].emitted + 1, fetches[f].total)
           IN  /\ Listens /\ active = f /\ tabKey \in Views
               /\ fetches[f].view = tabKey
               /\ rest \in Seq(RowType)
               /\ Len(rest) = fetches[f].total - fetches[f].emitted
               /\ \A i \in DOMAIN rest :
                     rest[i].fetch = f /\ rest[i].offset = fetches[f].emitted + i
               /\ store' \in StoreType /\ phantom' \subseteq Views /\ Books'
               /\ store.evicted \subseteq store'.evicted
               /\ \A w \in Views :
                     IF w = tabKey THEN store'.rows[w] = Coming(w) \o rest
                     ELSE store'.rows[w] \in {<<>>, store.rows[w]}
PROOF
<1> DEFINE e == fetches[f].emitted
           t == fetches[f].total
           rest == Rows(f, e + 1, t)
<1>0. /\ Typed /\ Live /\ Books /\ Fetched(fetches[f]) /\ store \in StoreType
      /\ buffer \in Seq(RowType) /\ phantom \subseteq Views
      /\ fetches[f] \in FetchType
  BY DEF RInv, Typed
<1>1. active = f /\ Listens
  BY DataTabAssumption DEF IsCurrent, Listens, FetchIds
<1>2. tabKey \in Views /\ fetches[f].view = tabKey
  BY <1>0, <1>1 DEF Live
<1>3. e \in Nat /\ t \in 0 .. MaxMessages /\ e <= t
  BY <1>0 DEF FetchType, Fetched
<1>4. /\ rest \in Seq(RowType) /\ Len(rest) = t - e
      /\ \A i \in DOMAIN rest : rest[i].fetch = f /\ rest[i].offset = e + i
  <2> HIDE DEF e, t
  <2> QED BY <1>0, <1>3, RowsFacts
<1> HIDE DEF rest, e, t
<1> DEFINE s1 == evictToFit(Retain(store, tabKey, buffer), tabKey)
<1>6. /\ s1 \in StoreType /\ Fits(s1)
      /\ \A lost : Balanced(store, lost) => Balanced(s1, lost)
      /\ \E gone \in SUBSET (Views \ {tabKey}) :
            /\ s1.evicted = store.evicted \union gone
            /\ \A w \in Views : s1.rows[w] =
                  IF w \in gone THEN <<>>
                  ELSE IF w = tabKey THEN store.rows[tabKey] \o buffer
                  ELSE store.rows[w]
  <2>1. Holds(store, tabKey, buffer, s1)
    BY <1>0, <1>2, RetainAndFit
  <2> HIDE DEF s1
  <2> QED BY <2>1 DEF Holds
<1> HIDE DEF s1
<1> DEFINE s2 == evictToFit(Retain(s1, tabKey, rest), tabKey)
<1>5. PutCharging(s2, {})
  BY <1>2 DEF Settle, Put, Applied, s1, rest, e, t
<1>7. /\ s2 \in StoreType /\ Fits(s2)
      /\ \A lost : Balanced(s1, lost) => Balanced(s2, lost)
      /\ \E gone \in SUBSET (Views \ {tabKey}) :
            /\ s2.evicted = s1.evicted \union gone
            /\ \A w \in Views : s2.rows[w] =
                  IF w \in gone THEN <<>>
                  ELSE IF w = tabKey THEN s1.rows[tabKey] \o rest
                  ELSE s1.rows[w]
  <2>1. Holds(s1, tabKey, rest, s2)
    BY <1>2, <1>4, <1>6, RetainAndFit
  <2> HIDE DEF s2
  <2> QED BY <2>1 DEF Holds
<1> HIDE DEF s2
<1>8. /\ store' \in StoreType
      /\ store'.rows = s2.rows /\ store'.evicted = s2.evicted
      /\ phantom' = (phantom \union {}) \intersect Holding(s2)
      /\ Fits(s2) => Fits(store')
      /\ Balanced(s2, phantom \union {}) => Balanced(store', phantom')
  BY <1>5, <1>7, PutFacts
<1>9. Books' /\ phantom' \subseteq Views
  <2>1. phantom \union {} = phantom
    OBVIOUS
  <2> QED BY <1>0, <1>6, <1>7, <1>8, <2>1 DEF Books
<1>10. store.evicted \subseteq store'.evicted
  BY <1>6, <1>7, <1>8
<1>11. ASSUME NEW w \in Views
       PROVE  IF w = tabKey THEN store'.rows[w] = Coming(w) \o rest
              ELSE store'.rows[w] \in {<<>>, store.rows[w]}
  <2>1. w = tabKey => Coming(w) = store.rows[w] \o buffer
    BY <1>0, ComingFacts DEF ComingParts
  <2>2. IF w = tabKey THEN s1.rows[w] = store.rows[w] \o buffer
        ELSE s1.rows[w] \in {<<>>, store.rows[w]}
    BY <1>6
  <2>3. IF w = tabKey THEN s2.rows[w] = s1.rows[w] \o rest
        ELSE s2.rows[w] \in {<<>>, s1.rows[w]}
    BY <1>7
  <2> QED BY <1>8, <2>1, <2>2, <2>3
<1> QED BY <1>1, <1>2, <1>4, <1>8, <1>9, <1>10, <1>11 DEF rest, e, t

\* The end of a fetch.
LEMMA SettleRInv ==
    ASSUME RInv, NEW f \in FetchIds, Settle(f)
    PROVE  RInv'
PROOF
<1>0. /\ Controls /\ Typed /\ Timed /\ Live /\ Buffered /\ Books /\ AllRowed
      /\ fetches \in [FetchIds -> FetchType] /\ mine \subseteq FetchIds
      /\ \A g \in FetchIds : Fetched(fetches[g])
  BY DEF RInv, Typed
<1> DEFINE applies == IsCurrent(f) /\ ~stopped /\ fetches[f].state = "answered"
<1>1. /\ UNCHANGED <<tabKey, stopped, mine, asked, cleared>>
      /\ fetches[f].state \in {"answered", "failed"}
      /\ fetches' = [fetches EXCEPT ![f].state = "settled"]
      /\ ~applies => UNCHANGED <<store, phantom>>
  BY DEF Settle, dataVars
<1>2. IF ~IsCurrent(f) THEN UNCHANGED <<active, isPlaying, buffer, handle, timers>>
      ELSE /\ active' = Null /\ isPlaying' = FALSE
           /\ buffer' = <<>> /\ handle' = FALSE
           /\ \/ timers' = timers
              \/ handle /\ timers' = timers - 1
  <2>1. CASE ~IsCurrent(f)
    BY <2>1 DEF Settle, EndsTheFetch
  <2>2. CASE IsCurrent(f)
    <3>1. /\ active' = Null /\ isPlaying' = FALSE
          /\ buffer' = <<>> /\ handle' = FALSE
          /\ timers' = IF handle /\ ~applies THEN timers - 1 ELSE timers
      BY <2>2 DEF Settle, EndsTheFetch
    <3> QED BY <2>2, <3>1
  <2> QED BY <2>1, <2>2
<1> HIDE DEF applies
<1>3. /\ fetches' \in [FetchIds -> FetchType]
      /\ \A g \in FetchIds :
            /\ fetches'[g].view = fetches[g].view
            /\ fetches'[g].handled = fetches[g].handled
            /\ fetches'[g].preview = fetches[g].preview
            /\ fetches'[g].emitted = fetches[g].emitted
            /\ fetches'[g].total = fetches[g].total
            /\ fetches'[g].state = IF g = f THEN "settled" ELSE fetches[g].state
  <2> DEFINE new == [fetches[f] EXCEPT !.state = "settled"]
  <2>1. fetches[f] \in FetchType
    BY <1>0
  <2>2. new \in FetchType
    BY <2>1 DEF FetchType
  <2>3. /\ new.view = fetches[f].view /\ new.handled = fetches[f].handled
        /\ new.preview = fetches[f].preview /\ new.state = "settled"
        /\ new.emitted = fetches[f].emitted /\ new.total = fetches[f].total
    BY <2>1 DEF FetchType
  <2>4. fetches' = [fetches EXCEPT ![f] = new]
    BY <1>0, <1>1
  <2> HIDE DEF new
  <2> QED BY <1>0, <2>2, <2>3, <2>4
<1>4. \A g \in FetchIds : Fetched(fetches'[g])
  BY <1>0, <1>1, <1>3 DEF Fetched
<1>5. \A v \in Views : Evolves(fetches, fetches', v)
  <2>1. \A g \in FetchIds : fetches[g].handled \in Int
    BY <1>0 DEF FetchType
  <2> QED BY <1>3, <2>1 DEF Evolves
<1>6. Controls'
  BY <1>0, <1>1, <1>2 DEF Controls
<1>7. Timed'
  BY <1>0, <1>1, <1>2 DEF Timed, Controls
<1>8. Live' /\ (Listens' => Listens /\ ~IsCurrent(f) /\ active # f)
  <2>1. Listens' => Listens /\ ~IsCurrent(f)
    BY <1>1, <1>2 DEF Listens
  <2>2. Listens /\ ~IsCurrent(f) => active # f
    BY <1>0 DEF Live, IsCurrent
  <2>3. Live'
    BY <1>0, <1>1, <1>2, <1>3, <2>1, <2>2 DEF Live
  <2> QED BY <2>1, <2>2, <2>3
<1>9. active' \in FetchIds \union {Null} /\ buffer' \in Seq(RowType)
      /\ (buffer' = <<>> \/ UNCHANGED buffer)
  <2>1. <<>> \in Seq(RowType)
    OBVIOUS
  <2> QED BY <1>0, <1>2, <2>1 DEF Typed
<1>10. CASE ~applies
  <2>1. Books' /\ Loses(store, store', {})
    BY <1>0, <1>1, <1>10 DEF Books, Loses
  <2>2. Typed'
    BY <1>0, <1>1, <1>3, <1>9, <1>10 DEF Typed
  <2>3. buffer' # <<>> => Listens'
    BY <1>0, <1>1, <1>2 DEF Buffered, Listens
  <2>4. Listens' => /\ Listens /\ UNCHANGED <<tabKey, buffer>>
                    /\ fetches'[active'].handled = fetches[active].handled
    BY <1>0, <1>1, <1>2, <1>3, <1>8 DEF Live
  <2> QED BY <1>1, <1>4, <1>5, <1>6, <1>7, <1>8, <1>9, <1>10, <2>1, <2>2, <2>3,
             <2>4, LosingInv
<1>11. CASE applies
  <2> DEFINE e == fetches[f].emitted
             rest == Rows(f, e + 1, fetches[f].total)
  <2>1. /\ IsCurrent(f) /\ ~stopped /\ fetches[f].state = "answered"
    BY <1>11 DEF applies
  <2>2. /\ Listens /\ active = f /\ tabKey \in Views
        /\ fetches[f].view = tabKey
        /\ rest \in Seq(RowType)
        /\ \A i \in DOMAIN rest : rest[i].fetch = f /\ rest[i].offset = e + i
        /\ store' \in StoreType /\ phantom' \subseteq Views /\ Books'
        /\ \A w \in Views :
              IF w = tabKey THEN store'.rows[w] = Coming(w) \o rest
              ELSE store'.rows[w] \in {<<>>, store.rows[w]}
    BY <2>1, AppliedFacts
  <2> HIDE DEF rest
  <2>3. e \in Nat /\ fetches[f].handled <= e
    <3>1. fetches[f] \in FetchType /\ Fetched(fetches[f])
      BY <1>0
    <3> QED BY <2>1, <3>1 DEF Fetched, FetchType
  <2> HIDE DEF e
  <2>4. Typed'
    BY <1>0, <1>1, <1>3, <1>9, <2>2 DEF Typed
  <2>5. ComingParts /\ ComingParts'
    BY <1>0, <2>4, ComingFacts, PTL
  <2>6. AllRowed'
    <3> SUFFICES ASSUME NEW v \in Views PROVE Rowed(fetches', Coming(v)', v)
      BY DEF AllRowed
    <3> DEFINE rows == Coming(v)
    <3>1. rows \in Seq(RowType) /\ Rowed(fetches, rows, v)
          /\ store.rows[v] \in Seq(RowType)
      BY <1>0, <2>5 DEF ComingParts, AllRowed
    <3>2. Coming(v)' = store'.rows[v]
      BY <1>2, <2>1, <2>5 DEF ComingParts
    <3>3. CASE v = tabKey
      <4>1. /\ fetches[f].view = v /\ fetches[f].state # "settled"
            /\ \A g \in FetchIds : fetches[g].view = v => g <= f
            /\ fetches'[f].state = "settled"
            /\ \A g \in FetchIds : fetches'[g].view = fetches[g].view
        BY <1>0, <1>3, <2>1, <2>2, <3>3 DEF Live
      <4> HIDE DEF rows
      <4>2. Rowed(fetches', rows \o rest, v)
        BY <1>0, <1>3, <2>2, <2>3, <3>1, <4>1, MoreRows
      <4> QED BY <2>2, <3>2, <3>3, <4>2 DEF rows
    <3>4. CASE v # tabKey
      <4>1. rows = store.rows[v] /\ store'.rows[v] \in {<<>>, store.rows[v]}
        BY <2>2, <2>5, <3>4 DEF ComingParts
      <4> HIDE DEF rows
      <4>2. Part(rows, store'.rows[v]) /\ store'.rows[v] \in Seq(RowType)
        BY <2>2, <3>1, <4>1, PartSame, PartNone DEF StoreType
      <4>3. Rowed(fetches', store'.rows[v], v)
        BY <1>0, <1>3, <1>5, <3>1, <4>2, PartIsRowed
      <4> QED BY <3>2, <4>3
    <3> QED BY <3>3, <3>4
  <2>7. ~Listens' /\ buffer' = <<>>
    BY <1>2, <2>1 DEF Listens
  <2> QED BY <1>4, <1>6, <1>7, <1>8, <2>2, <2>4, <2>6, <2>7
          DEF RInv, Buffered, SoFarWhole
<1> QED BY <1>10, <1>11

\* A new fetch starts with an empty view.
LEMMA PlayRInv == RInv /\ handlePlay => RInv'
PROOF
<1> SUFFICES ASSUME RInv, handlePlay PROVE RInv'
  OBVIOUS
<1>0. /\ Controls /\ Typed /\ Timed /\ Live /\ Buffered /\ Books /\ AllRowed
      /\ fetches \in [FetchIds -> FetchType] /\ mine \subseteq FetchIds
      /\ store \in StoreType /\ buffer \in Seq(RowType)
      /\ \A g \in FetchIds : Fetched(fetches[g])
  BY DEF RInv, Typed
<1>1. /\ tabKey \in Views /\ isPlaying' = TRUE /\ stopped' = FALSE
      /\ buffer' = <<>> /\ handle' = FALSE
      /\ timers' = IF handle THEN timers - 1 ELSE timers
      /\ Put(clearTabMessages(store, {tabKey}))
      /\ cleared' = FALSE /\ UNCHANGED <<tabKey, asked>>
  BY <1>0 DEF handlePlay, discardBufferedStream, Typed
<1>2. PICK f \in FetchIds, preview \in Previews :
        /\ \A g \in FetchIds : fetches[g].state = "none" <=> g >= f
        /\ fetches' = [fetches EXCEPT ![f] =
               [@ EXCEPT !.view = tabKey, !.preview = preview, !.state = "running"]]
        /\ active' = f /\ mine' = mine \union {f}
  BY DEF handlePlay
<1> DEFINE new == [fetches[f] EXCEPT !.view = tabKey, !.preview = preview,
                                     !.state = "running"]
<1>3. fetches[f] \in FetchType /\ fetches[f].state = "none"
      /\ Fetched(fetches[f]) /\ f \in Nat
  BY <1>0, <1>2, DataTabAssumption DEF FetchIds
<1>4. /\ new \in FetchType /\ new.view = tabKey /\ new.state = "running"
      /\ new.preview = preview /\ new.handled = 0
  BY <1>1, <1>3, DataTabAssumption DEF FetchType, Fetched
<1>5. /\ fetches' = [fetches EXCEPT ![f] = new]
  BY <1>0, <1>2
<1> HIDE DEF new
<1>6. /\ fetches' \in [FetchIds -> FetchType] /\ fetches'[f] = new
      /\ \A g \in FetchIds \ {f} : fetches'[g] = fetches[g]
  BY <1>0, <1>4, <1>5
<1>7. \A g \in FetchIds : Fetched(fetches'[g])
  <2>1. Fetched(new)
    BY <1>1, <1>2, <1>4 DEF Fetched
  <2> QED BY <1>0, <1>6, <2>1
<1>8. /\ store' \in StoreType /\ phantom' \subseteq Views /\ Books'
      /\ Loses(store, store', {tabKey})
  <2>1. /\ clearTabMessages(store, {tabKey}) \in StoreType
        /\ Loses(store, clearTabMessages(store, {tabKey}), {tabKey})
    <3>1. {tabKey} \in SUBSET Views
      BY <1>1
    <3> QED BY <1>0, <3>1, ClearFacts
  <2> QED BY <1>0, <1>1, <2>1, PutLess
<1>9. Controls'
  BY <1>1 DEF Controls
<1>10. Timed'
  <2>1. timers' \in Nat
    BY <1>0, <1>1 DEF Timed
  <2>2. tabKey' # Null
    BY <1>1, DataTabAssumption
  <2> QED BY <1>1, <2>1, <2>2 DEF Timed
<1>11. Typed'
  <2>1. <<>> \in Seq(RowType)
    OBVIOUS
  <2> QED BY <1>0, <1>1, <1>2, <1>6, <1>8, <2>1 DEF Typed
<1>12. Listens'
  BY <1>1, <1>2, <1>3, DataTabAssumption DEF Listens
<1>13. \A g \in FetchIds : fetches[g].view = tabKey => g < f
  <2> SUFFICES ASSUME NEW g \in FetchIds, fetches[g].view = tabKey
               PROVE  g < f
    OBVIOUS
  <2>1. fetches[g].state # "none"
    BY <1>0, <1>1, DataTabAssumption DEF Fetched
  <2>2. ~(g >= f)
    BY <1>2, <2>1
  <2> QED BY <2>2, DataTabAssumption DEF FetchIds
<1>14. Live'
  BY <1>1, <1>2, <1>3, <1>4, <1>6, <1>13 DEF Live
<1>15. ComingParts /\ ComingParts'
  BY <1>0, <1>11, ComingFacts, PTL
<1>16. \A v \in Views : Coming(v)' = IF v = tabKey THEN <<>> ELSE store.rows[v]
  BY <1>1, <1>8, <1>15 DEF ComingParts, Loses
<1>17. AllRowed'
  <2> SUFFICES ASSUME NEW v \in Views PROVE Rowed(fetches', Coming(v)', v)
    BY DEF AllRowed
  <2>1. CASE v = tabKey
    <3>1. DOMAIN <<>> = {}
      OBVIOUS
    <3> QED BY <1>16, <2>1, <3>1 DEF Rowed
  <2>2. CASE v # tabKey
    <3> DEFINE rows == Coming(v)
    <3>1. /\ rows \in Seq(RowType) /\ Rowed(fetches, rows, v)
          /\ Coming(v)' = rows
      BY <1>0, <1>15, <1>16, <2>2 DEF ComingParts, AllRowed
    <3>2. Evolves(fetches, fetches', v)
      <4> SUFFICES ASSUME NEW g \in FetchIds
                   PROVE  /\ fetches'[g].view = v <=> fetches[g].view = v
                          /\ fetches[g].view = v =>
                               /\ fetches'[g].handled >= fetches[g].handled
                               /\ fetches[g].state = "settled"
                                    => fetches'[g].state = "settled"
        BY DEF Evolves
      <4>1. CASE g = f
        <5>1. fetches'[g].view = tabKey /\ fetches[g].view = Null
          BY <1>3, <1>4, <1>6, <4>1 DEF Fetched
        <5> QED BY <2>2, <5>1, DataTabAssumption
      <4>2. CASE g # f
        <5>1. fetches'[g] = fetches[g] /\ fetches[g] \in FetchType
          BY <1>0, <1>6, <4>2
        <5>2. fetches[g].handled \in Int
          BY <5>1 DEF FetchType
        <5> QED BY <5>1, <5>2
      <4> QED BY <4>1, <4>2
    <3> HIDE DEF rows
    <3>3. Rowed(fetches', rows, v)
      BY <1>0, <1>6, <3>1, <3>2, PartSame, PartIsRowed
    <3> QED BY <3>1, <3>3
  <2> QED BY <2>1, <2>2
<1>18. SoFarWhole'
  <2>1. Coming(tabKey)' = <<>>
    BY <1>1, <1>16
  <2>2. FirstMessages(<<>>, 0)
    <3>1. Len(<<>>) = 0 /\ DOMAIN <<>> = {}
      OBVIOUS
    <3> QED BY <3>1 DEF FirstMessages
  <2>3. fetches'[active'].handled = 0
    BY <1>2, <1>4, <1>6
  <2> QED BY <2>1, <2>2, <2>3 DEF SoFarWhole
<1>19. Buffered'
  BY <1>1 DEF Buffered
<1> QED BY <1>7, <1>8, <1>9, <1>10, <1>11, <1>14, <1>17, <1>18, <1>19 DEF RInv

\* The store once a payload has come, before room is made for it.
Patched ==
    setTabMessages([store EXCEPT !.bytes[asked.view] = @ + Charge(store)],
                   asked.view, PatchedRows(store))

\* Rows as they were, but for their payloads.
Alike(a, b) ==
    /\ Len(a) = Len(b)
    /\ \A i \in DOMAIN b : a[i].fetch = b[i].fetch /\ a[i].offset = b[i].offset

\* The payload of one row replaces what the row held, if it is still there.
LEMMA PatchFacts ==
    ASSUME RInv, asked # Null
    PROVE  LET v == asked.view
               lost == IF IsHeld(store) THEN {} ELSE {v}
           IN  /\ v \in Views /\ Patched \in StoreType
               /\ Patched.evicted = store.evicted
               /\ \A w \in Views : Alike(Patched.rows[w], store.rows[w])
               /\ Balanced(Patched, phantom \union lost)
PROOF
<1> DEFINE v == asked.view
           o == asked.offset
           rows == store.rows[v]
           new == PatchedRows(store)
           size == [i \in DOMAIN rows |-> rows[i].size]
           newSize == [i \in DOMAIN new |-> new[i].size]
           replaced == {i \in DOMAIN rows : rows[i].offset = o}
           charge == Charge(store)
           lost == IF IsHeld(store) THEN {} ELSE {v}
           kept == retainedPayloadBytes(rows)
<1>0. /\ Typed /\ AllRowed /\ Books /\ store \in StoreType
  BY DEF RInv, Typed
<1>1. v \in Views /\ o \in 1 .. MaxMessages
  BY <1>0 DEF Typed
<1>2. /\ rows \in Seq(RowType) /\ DOMAIN rows = 1 .. Len(rows)
      /\ Len(rows) \in Nat /\ \A i \in DOMAIN rows : rows[i] \in RowType
  <2>1. rows \in Seq(RowType)
    BY <1>0, <1>1 DEF StoreType
  <2> HIDE DEF rows
  <2> QED BY <2>1
<1>3. /\ new = [i \in DOMAIN rows |->
                  IF rows[i].offset = o THEN [rows[i] EXCEPT !.size = Whole]
                  ELSE rows[i]]
      /\ charge = Whole - SumFunctionOnSet(size, replaced)
      /\ IsHeld(store) <=> replaced # {}
  BY DEF PatchedRows, Charge, IsHeld
<1>4. /\ kept = SumFunctionOnSet(size, DOMAIN rows)
      /\ retainedPayloadBytes(new) = SumFunctionOnSet(newSize, DOMAIN new)
  BY DEF retainedPayloadBytes, SumFunction
<1> HIDE DEF rows, new, o, charge
<1>5. /\ \A i \in DOMAIN rows : rows[i].size \in Nat /\ rows[i].size <= Whole
      /\ IsFiniteSet(DOMAIN rows) /\ Whole \in Nat
  BY <1>2, RowSizes, DataTabAssumption
<1>6. ASSUME NEW i \in DOMAIN rows
      PROVE  /\ new[i] \in RowType
             /\ new[i].fetch = rows[i].fetch /\ new[i].offset = rows[i].offset
             /\ new[i].size = IF i \in replaced THEN Whole ELSE rows[i].size
  <2>1. rows[i] \in RowType
    BY <1>2
  <2> QED BY <1>3, <2>1 DEF RowType
<1>7. DOMAIN new = DOMAIN rows
  BY <1>3
<1>8. new \in Seq(RowType) /\ Len(new) = Len(rows) /\ Alike(new, rows)
  <2>1. new = [i \in 1 .. Len(rows) |-> new[i]]
    BY <1>2, <1>3
  <2>2. new \in Seq(RowType)
    BY <1>2, <1>6, <2>1
  <2>3. Len(new) = Len(rows)
    BY <1>2, <1>7, <2>2
  <2> QED BY <1>6, <2>2, <2>3 DEF Alike
<1>9. \A i \in DOMAIN rows : /\ size[i] = rows[i].size /\ size[i] \in Nat
                             /\ newSize[i] = new[i].size
                             /\ newSize[i] \in Int
  BY <1>5, <1>6, <1>7
<1> HIDE DEF size, newSize
<1>10. \A i \in replaced, j \in replaced : i = j
  <2>1. Rowed(fetches, rows, v)
    <3>1. Rowed(fetches, Coming(v), v) /\ Coming(v) \in Seq(RowType)
          /\ Coming(v) \in {rows, rows \o buffer}
      BY <1>0, <1>1, ComingFacts DEF AllRowed, ComingParts, rows
    <3>2. buffer \in Seq(RowType) /\ fetches \in [FetchIds -> FetchType]
      BY <1>0 DEF Typed
    <3>3. Part(Coming(v), rows)
      BY <1>2, <3>1, <3>2, PartSame, PartOfBoth
    <3>4. Evolves(fetches, fetches, v)
      BY <3>2 DEF Evolves, FetchType
    <3> HIDE DEF v
    <3> QED BY <1>1, <1>2, <3>1, <3>2, <3>3, <3>4, PartIsRowed
  <2> SUFFICES ASSUME NEW i \in replaced, NEW j \in replaced, i < j PROVE FALSE
    BY <1>2
  <2>2. rows[i].offset < rows[j].offset /\ rows[i].offset = rows[j].offset
    BY <2>1 DEF Rowed
  <2>3. rows[i] \in RowType
    BY <1>2
  <2>4. rows[i].offset \in Int
    BY <2>3 DEF RowType
  <2> QED BY <2>2, <2>4
<1>11. /\ charge \in Int /\ kept \in Nat
       /\ IF IsHeld(store)
          THEN /\ retainedPayloadBytes(new) = kept + charge
               /\ charge >= 0
          ELSE charge = Whole /\ retainedPayloadBytes(new) = kept
  <2>0. kept \in Nat
    BY <1>2, BytesOfRows
  <2>1. CASE replaced = {}
    <3>1. charge = Whole
      BY <1>3, <1>5, <2>1, SumOfNone
    <3> DEFINE S == DOMAIN rows
    <3>2. /\ IsFiniteSet(S)
          /\ \A i \in S : size[i] \in Int /\ size[i] = newSize[i]
      BY <1>5, <1>6, <1>9, <2>1
    <3> HIDE DEF S
    <3>3. SumFunctionOnSet(size, S) = SumFunctionOnSet(newSize, S)
      BY <3>2, SumOfSameTerms
    <3> USE DEF S
    <3> QED BY <1>3, <1>4, <1>5, <1>7, <2>0, <2>1, <3>1, <3>3
  <2>2. CASE replaced # {}
    <3>1. PICK i \in DOMAIN rows : replaced = {i}
      BY <1>10, <2>2
    <3>2. SumFunctionOnSet(size, {i}) = size[i]
      <4> DEFINE one == {i}
      <4>1. IsFiniteSet(one)
        BY FS_Singleton
      <4>2. size[i] \in Int
        BY <1>9
      <4>3. \A y \in one : size[y] \in Int
        BY <4>2
      <4>4. i \in one /\ one \ {i} = {}
        OBVIOUS
      <4> HIDE DEF one
      <4>5. SumFunctionOnSet(size, one) = size[i] + SumFunctionOnSet(size, {})
        BY <4>1, <4>3, <4>4, SumOfOneMore
      <4>6. SumFunctionOnSet(size, one) = size[i]
        BY <4>2, <4>5, SumOfNone
      <4> QED BY <4>6 DEF one
    <3> HIDE DEF replaced
    <3>3. charge = Whole - size[i]
      BY <1>3, <3>1, <3>2
    <3>4. /\ \A j \in DOMAIN rows : size[j] \in Int /\ newSize[j] \in Int
          /\ \A j \in DOMAIN rows \ {i} : newSize[j] = size[j]
          /\ newSize[i] = Whole
      BY <1>6, <1>9, <3>1
    <3> DEFINE S == DOMAIN rows
    <3>a. /\ IsFiniteSet(S) /\ i \in S
          /\ \A j \in S : size[j] \in Int /\ newSize[j] \in Int
          /\ \A j \in S \ {i} : newSize[j] = size[j]
      BY <1>5, <3>4
    <3> HIDE DEF S
    <3>5. SumFunctionOnSet(newSize, S)
            = SumFunctionOnSet(size, S) - size[i] + newSize[i]
      BY <3>a, SumOfOneChanged
    <3> USE DEF S
    <3>6. size[i] \in Nat /\ size[i] <= Whole
      BY <1>5, <1>9
    <3> QED BY <1>3, <1>4, <1>5, <1>7, <2>0, <2>2, <3>3, <3>4, <3>5, <3>6
  <2> QED BY <2>1, <2>2
<1> HIDE DEF replaced, kept
<1>12. charge >= 0
  BY <1>5, <1>11
<1>13. store.bytes[v] \in Nat /\ store.bytes[v] >= kept
       /\ (v \notin phantom => store.bytes[v] = kept)
  BY <1>0, <1>1 DEF StoreType, Books, Balanced, kept, rows
<1>14. store.bytes[v] + charge \in Nat
  BY <1>11, <1>12, <1>13
<1>15. Cardinality(Views) + 1 \in Nat
  BY FS_CardinalityType, DataTabAssumption
<1>16. /\ Patched \in StoreType
       /\ Patched.rows = [store.rows EXCEPT ![v] = new]
       /\ Patched.bytes = [store.bytes EXCEPT ![v] = @ + charge]
       /\ Patched.evicted = store.evicted
  <2>1. Patched = [store EXCEPT !.bytes[v] = @ + charge,
                                !.rows[v] = new,
                                !.lastUsed[v] = Cardinality(Views) + 1]
    BY <1>0 DEF Patched, setTabMessages, touchTab, new, charge, StoreType
  <2> DEFINE r == [store.rows EXCEPT ![v] = new]
             b == [store.bytes EXCEPT ![v] = @ + charge]
             u == [store.lastUsed EXCEPT ![v] = Cardinality(Views) + 1]
  <2>2. /\ r \in [Views -> Seq(RowType)] /\ b \in [Views -> Nat]
        /\ u \in [Views -> Nat]
    BY <1>0, <1>1, <1>8, <1>14, <1>15 DEF StoreType
  <2>3. Patched = [store EXCEPT !.bytes = b, !.rows = r, !.lastUsed = u]
    BY <1>0, <2>1 DEF StoreType
  <2> HIDE DEF r, b, u
  <2>4. /\ Patched \in StoreType /\ Patched.rows = r /\ Patched.bytes = b
        /\ Patched.evicted = store.evicted
    BY <1>0, <2>2, <2>3 DEF StoreType
  <2> QED BY <2>4 DEF r, b
<1>17. ASSUME NEW w \in Views
       PROVE  /\ Alike(Patched.rows[w], store.rows[w])
              /\ Patched.bytes[w] >= retainedPayloadBytes(Patched.rows[w])
              /\ w \notin phantom \union lost =>
                   Patched.bytes[w] = retainedPayloadBytes(Patched.rows[w])
  <2>0. store.rows \in [Views -> Seq(RowType)] /\ store.bytes \in [Views -> Nat]
    BY <1>0 DEF StoreType
  <2>1. CASE w = v
    <3>1. Patched.rows[w] = new /\ Patched.bytes[w] = store.bytes[v] + charge
      BY <1>16, <2>0, <2>1
    <3>2. Alike(Patched.rows[w], store.rows[w])
      BY <1>8, <2>1, <3>1 DEF rows
    <3>3. CASE IsHeld(store)
      BY <1>11, <1>13, <2>1, <3>1, <3>2, <3>3
    <3>4. CASE ~IsHeld(store)
      <4>1. w \in lost
        BY <2>1, <3>4
      <4>2. retainedPayloadBytes(new) = kept
        BY <1>11, <3>4
      <4> QED BY <1>11, <1>12, <1>13, <3>1, <3>2, <4>1, <4>2
    <3> QED BY <3>3, <3>4
  <2>2. CASE w # v
    <3>1. Patched.rows[w] = store.rows[w] /\ Patched.bytes[w] = store.bytes[w]
      BY <1>16, <2>0, <2>2
    <3>2. Alike(Patched.rows[w], store.rows[w])
      BY <3>1 DEF Alike
    <3> QED BY <1>0, <3>1, <3>2 DEF Books, Balanced
  <2> QED BY <2>1, <2>2
<1>18. Balanced(Patched, phantom \union lost)
  BY <1>17 DEF Balanced
<1> QED BY <1>1, <1>16, <1>17, <1>18

\* More rows behind them, and fewer of them.
LEMMA AlikeFacts ==
    ASSUME NEW a \in Seq(RowType), NEW b \in Seq(RowType),
           NEW c \in Seq(RowType), Alike(b, a)
    PROVE  Part(a, b) /\ Alike(b \o c, a \o c)
PROOF
<1>1. /\ Len(a) \in Nat /\ Len(b) = Len(a) /\ Len(c) \in Nat
      /\ DOMAIN a = 1 .. Len(a) /\ DOMAIN b = 1 .. Len(a)
      /\ DOMAIN c = 1 .. Len(c)
      /\ \A i \in DOMAIN a : b[i].fetch = a[i].fetch /\ b[i].offset = a[i].offset
  BY DEF Alike
<1>2. Part(a, b)
  <2>1. 0 \in 0 .. Len(a) /\ 0 + Len(b) <= Len(a)
    BY <1>1
  <2>2. \A i \in DOMAIN b : /\ b[i].fetch = a[0 + i].fetch
                            /\ b[i].offset = a[0 + i].offset
    BY <1>1
  <2> QED BY <2>1, <2>2 DEF Part
<1>3. Alike(b \o c, a \o c)
  <2>1. /\ Len(a \o c) = Len(a) + Len(c) /\ Len(b \o c) = Len(a) + Len(c)
        /\ DOMAIN (a \o c) = 1 .. Len(a) + Len(c)
        /\ \A i \in 1 .. Len(a) + Len(c) :
              /\ (a \o c)[i] = IF i <= Len(a) THEN a[i] ELSE c[i - Len(a)]
              /\ (b \o c)[i] = IF i <= Len(a) THEN b[i] ELSE c[i - Len(a)]
    <3>1. /\ a \o c \in Seq(RowType)
          /\ Len(a \o c) = Len(a) + Len(c) /\ Len(b \o c) = Len(b) + Len(c)
          /\ \A i \in 1 .. Len(a) + Len(c) :
                (a \o c)[i] = IF i <= Len(a) THEN a[i] ELSE c[i - Len(a)]
          /\ \A i \in 1 .. Len(b) + Len(c) :
                (b \o c)[i] = IF i <= Len(b) THEN b[i] ELSE c[i - Len(b)]
      BY ConcatProperties, Zenon
    <3>2. Len(b) = Len(a)
      BY <1>1
    <3>3. DOMAIN (a \o c) = 1 .. Len(a \o c)
      BY <3>1
    <3> QED BY <3>1, <3>2, <3>3, Zenon
  <2> SUFFICES ASSUME NEW i \in DOMAIN (a \o c)
               PROVE  /\ (b \o c)[i].fetch = (a \o c)[i].fetch
                      /\ (b \o c)[i].offset = (a \o c)[i].offset
    BY <2>1 DEF Alike
  <2>2. CASE i <= Len(a)
    <3>1. i \in DOMAIN a
      BY <1>1, <2>1, <2>2
    <3> QED BY <1>1, <2>1, <2>2, <3>1
  <2>3. CASE ~(i <= Len(a))
    BY <2>1, <2>3
  <2> QED BY <2>2, <2>3
<1> QED BY <1>2, <1>3

\* The first messages are that whatever their payloads.
LEMMA AlikeFirst ==
    ASSUME NEW a \in Seq(RowType), NEW b \in Seq(RowType), NEW n,
           Alike(b, a), FirstMessages(a, n)
    PROVE  FirstMessages(b, n)
BY DEF Alike, FirstMessages

\* A payload comes for a row of whatever has become of its view.
LEMMA PayloadRInv == RInv /\ PayloadAnswers => RInv'
PROOF
<1> SUFFICES ASSUME RInv, PayloadAnswers PROVE RInv'
  OBVIOUS
<1> DEFINE v == asked.view
           lost == IF IsHeld(store) THEN {} ELSE {v}
           t == evictToFit(Patched, v)
<1>0. /\ Controls /\ Typed /\ Timed /\ Live /\ Buffered /\ AllRowed
      /\ SoFarWhole /\ phantom \subseteq Views /\ buffer \in Seq(RowType)
      /\ store \in StoreType /\ \A f \in FetchIds : Fetched(fetches[f])
  BY DEF RInv, Typed
<1>1. /\ asked # Null /\ asked' = Null
      /\ UNCHANGED <<tabVars, fetches, cleared>>
      /\ PutCharging(t, lost)
  BY DEF PayloadAnswers, Patched
<1>2. /\ v \in Views /\ Patched \in StoreType
      /\ Patched.evicted = store.evicted
      /\ \A w \in Views : Alike(Patched.rows[w], store.rows[w])
      /\ Balanced(Patched, phantom \union lost)
  BY <1>1, PatchFacts
<1> HIDE DEF v, lost
<1>3. /\ t \in StoreType /\ Fits(t)
      /\ \E gone \in SUBSET (Views \ {v}) :
            Loses(Patched, t, gone) /\ t.evicted = Patched.evicted \union gone
  BY <1>2, EvictFacts
<1> HIDE DEF t
<1>4. PICK gone \in SUBSET (Views \ {v}) :
        Loses(Patched, t, gone) /\ t.evicted = Patched.evicted \union gone
  BY <1>3
<1>5. Balanced(t, phantom \union lost)
  BY <1>2, <1>3, <1>4, LosingKeeps
<1>6. /\ store' \in StoreType /\ store'.rows = t.rows
      /\ store'.evicted = store.evicted \union gone
      /\ phantom' = (phantom \union lost) \intersect Holding(t)
      /\ Books'
  BY <1>1, <1>2, <1>3, <1>4, <1>5, PutFacts DEF Books
<1>7. phantom' \subseteq Views
  BY <1>6 DEF Holding
<1>8. \A w \in Views : store'.rows[w] = IF w \in gone THEN <<>>
                                        ELSE Patched.rows[w]
  BY <1>4, <1>6 DEF Loses
<1>9. /\ UNCHANGED <<tabKey, isPlaying, stopped, active, buffer, handle,
                     timers, mine, fetches, cleared>>
  BY <1>1 DEF tabVars, refVars
<1>10. Controls' /\ Timed' /\ Live' /\ Buffered' /\ (Listens' <=> Listens)
       /\ \A f \in FetchIds : Fetched(fetches'[f])
  BY <1>0, <1>9 DEF Controls, Timed, Live, Buffered, Listens
<1>11. Typed'
  BY <1>0, <1>1, <1>6, <1>7, <1>9 DEF Typed
<1>12. ComingParts /\ ComingParts'
  BY <1>0, <1>11, ComingFacts, PTL
<1>13. ASSUME NEW w \in Views
       PROVE  /\ Part(Coming(w), Coming(w)')
              /\ w \notin gone => Alike(Coming(w)', Coming(w))
  <2> DEFINE a == store.rows[w]
             b == store'.rows[w]
             c == IF w = tabKey THEN buffer ELSE <<>>
  <2>1. a \in Seq(RowType) /\ b \in Seq(RowType) /\ c \in Seq(RowType)
    BY <1>0, <1>6 DEF StoreType
  <2>2. Coming(w) = a \o c /\ Coming(w)' = b \o c
    BY <1>9 DEF Coming
  <2>3. b = <<>> \/ Alike(b, a)
    BY <1>2, <1>8
  <2>4. w \notin gone => Alike(b, a)
    BY <1>2, <1>8
  <2> HIDE DEF a, b, c
  <2>5. b = <<>> => Part(a \o c, b \o c)
    <3>1. <<>> \o c = c
      BY <2>1
    <3> QED BY <2>1, <3>1, PartOfBoth
  <2>6. Alike(b, a) => Part(a \o c, b \o c) /\ Alike(b \o c, a \o c)
    <3> SUFFICES ASSUME Alike(b, a)
                 PROVE  Part(a \o c, b \o c) /\ Alike(b \o c, a \o c)
      OBVIOUS
    <3>1. Alike(b \o c, a \o c)
      BY <2>1, AlikeFacts
    <3>2. a \o c \in Seq(RowType) /\ b \o c \in Seq(RowType)
      BY <2>1, ConcatProperties
    <3> DEFINE ac == a \o c
               bc == b \o c
    <3> HIDE DEF ac, bc
    <3>3. Part(ac, bc)
      BY <2>1, <3>1, <3>2, AlikeFacts DEF ac, bc
    <3> QED BY <3>1, <3>3 DEF ac, bc
  <2> QED BY <2>2, <2>3, <2>4, <2>5, <2>6
<1>14. AllRowed'
  <2>1. \A w \in Views : Evolves(fetches, fetches', w)
    BY <1>0, <1>9, EvolvesSame
  <2> QED BY <1>0, <1>11, <1>13, <2>1, RowedKept
<1>15. SoFarWhole'
  <2> SUFFICES ASSUME Listens', ~cleared', tabKey' \notin store'.evicted
               PROVE  FirstMessages(Coming(tabKey)', fetches'[active'].handled)
    BY <1>9 DEF SoFarWhole, Coming
  <2>1. /\ tabKey \in Views /\ tabKey \notin gone
        /\ FirstMessages(Coming(tabKey), fetches[active].handled)
    BY <1>0, <1>6, <1>9, <1>10 DEF Live, SoFarWhole
  <2>2. /\ Coming(tabKey) \in Seq(RowType) /\ Coming(tabKey)' \in Seq(RowType)
        /\ Alike(Coming(tabKey)', Coming(tabKey))
    BY <1>9, <1>12, <1>13, <2>1 DEF ComingParts, Coming
  <2> DEFINE a == Coming(tabKey)
             b == Coming(tabKey)'
  <2>3. a \in Seq(RowType) /\ b \in Seq(RowType) /\ Alike(b, a)
        /\ FirstMessages(a, fetches[active].handled)
    BY <2>1, <2>2
  <2> HIDE DEF a, b
  <2>4. FirstMessages(b, fetches[active].handled)
    BY <2>3, AlikeFirst
  <2> QED BY <1>9, <2>4 DEF b
<1> QED BY <1>6, <1>10, <1>11, <1>14, <1>15 DEF RInv

\* Every step keeps the second invariant.
LEMMA NextRInv == RInv /\ [TabNext]_tabDataVars => RInv'
PROOF
<1> SUFFICES ASSUME RInv, [TabNext]_tabDataVars PROVE RInv'
  OBVIOUS
<1>1. CASE \/ clearAllMessagesForTab \/ AskPayload \/ PayloadFails
           \/ \E v \in Views : Mount(v)
           \/ UNCHANGED tabDataVars
  BY <1>1, QuietRInv
<1>2. CASE \/ handleStop \/ Unmount \/ clearForConnection
           \/ \E v \in Views : SwitchTo(v)
  BY <1>2, StopRInv
<1>3. CASE handlePlay \/ flush \/ PayloadAnswers
  BY <1>3, PlayRInv, FlushRInv, PayloadRInv
<1>4. ASSUME NEW f \in FetchIds, Respond(f) \/ HandleEvent(f) \/ Settle(f)
      PROVE  RInv'
  BY <1>4, RespondRInv, HandleEventRInv, SettleRInv
<1> QED BY <1>1, <1>2, <1>3, <1>4 DEF TabNext

\* It holds throughout.
LEMMA RInvHolds == TabSpec => []RInv
BY InitRInv, NextRInv, PTL DEF TabSpec

\* The rows of a view are messages of the last fetch begun in it, each once
\* and in order, however late the events of other fetches come in (the
\* listener compares requestId with activeRequestIdRef, and the buffer is
\* dropped whenever another fetch or another view takes over).
THEOREM RowsAreThoseOfOneFetch == TabSpec => []RowsAreOfOneFetch
PROOF
<1>1. RInv => RowsAreOfOneFetch
  <2> SUFFICES ASSUME RInv, NEW v \in Views,
                      NEW i \in DOMAIN Coming(v), NEW j \in DOMAIN Coming(v)
               PROVE  LET row == Coming(v)[i]
                      IN /\ fetches[row.fetch].view = v
                         /\ \A f \in FetchIds :
                               fetches[f].view = v => f <= row.fetch
                         /\ i < j => row.offset < Coming(v)[j].offset
    BY DEF RowsAreOfOneFetch
  <2>1. Rowed(fetches, Coming(v), v)
    BY DEF RInv, AllRowed
  <2> QED BY <2>1 DEF Rowed
<1> QED BY <1>1, RInvHolds, PTL

\* The store charges each view for its rows, through flushes, patches and
\* evictions, and all of them together stay within maxTotalFetchBytes, unless
\* one view alone is over it.
THEOREM BooksAreRight == TabSpec => []RetentionInvariant
PROOF
<1>1. RInv => RetentionInvariant
  <2> SUFFICES ASSUME RInv PROVE RetentionInvariant
    OBVIOUS
  <2>1. /\ Controls /\ Typed /\ Timed /\ Books /\ store \in StoreType
    BY DEF RInv, Typed
  <2>2. TabTypeOK
    BY <2>1 DEF TabTypeOK, Controls, Typed, Timed, StoreType
  <2>3. BytesAreOfTheRows
    BY <2>1 DEF Books, Balanced, BytesAreOfTheRows
  <2>4. RetainedWithinLimit
    BY <2>1 DEF Books, Fits, Holding, RetainedWithinLimit
  <2> QED BY <2>2, <2>3, <2>4 DEF RetentionInvariant
<1> QED BY <1>1, RInvHolds, PTL

\* A fetch that completes has all its messages on screen: what was flushed,
\* what was still buffered and what only the response brought make up its
\* messages from the first to the last (the early flush in handlePlay, then
\* the rest of the response appended from emittedCount on).
THEOREM CompletedIsWhole == TabSpec => CompletedFetchIsWhole
PROOF
<1>1. RInv /\ [TabNext]_tabDataVars =>
        [\A f \in FetchIds :
          /\ fetches[f].state = "answered" /\ fetches'[f].state = "settled"
          /\ IsCurrent(f) /\ ~stopped
          /\ fetches[f].handled = fetches[f].emitted
          /\ ~cleared
          /\ fetches[f].view \notin store'.evicted
          => [i \in DOMAIN store'.rows[fetches[f].view] |->
                store'.rows[fetches[f].view][i].offset]
             = [i \in 1 .. fetches[f].total |-> i]]_tabDataVars
  <2> SUFFICES ASSUME RInv, TabNext, NEW f \in FetchIds,
                      fetches[f].state = "answered",
                      fetches'[f].state = "settled",
                      IsCurrent(f), ~stopped,
                      fetches[f].handled = fetches[f].emitted,
                      ~cleared, fetches[f].view \notin store'.evicted
               PROVE  [i \in DOMAIN store'.rows[fetches[f].view] |->
                         store'.rows[fetches[f].view][i].offset]
                      = [i \in 1 .. fetches[f].total |-> i]
    OBVIOUS
  <2>1. Settle(f)
    <3>1. fetches \in [FetchIds -> FetchType]
      BY DEF RInv, Typed
    <3>2. ~UNCHANGED fetches
      OBVIOUS
    <3>3. ~handlePlay
      <4> SUFFICES ASSUME handlePlay PROVE FALSE
        OBVIOUS
      <4>1. PICK g \in FetchIds, preview \in Previews :
              /\ \A h \in FetchIds : fetches[h].state = "none" <=> h >= g
              /\ fetches' = [fetches EXCEPT ![g] =
                   [@ EXCEPT !.view = tabKey, !.preview = preview,
                             !.state = "running"]]
        BY DEF handlePlay
      <4>2. g = f => fetches'[f].state = "running"
        BY <3>1, <4>1 DEF FetchType
      <4>3. g # f => fetches'[f] = fetches[f]
        BY <3>1, <4>1
      <4> QED BY <4>2, <4>3
    <3>4. ASSUME NEW g \in FetchIds, Respond(g) \/ HandleEvent(g) PROVE FALSE
      <4>1. CASE Respond(g)
        <5>1. \E emitted, total : \E state \in {"answered", "failed"} :
                fetches' = [fetches EXCEPT ![g] =
                  [@ EXCEPT !.state = state, !.emitted = emitted,
                            !.total = total]]
          BY <4>1 DEF Respond
        <5>2. g = f => fetches'[f].state \in {"answered", "failed"}
          BY <3>1, <5>1 DEF FetchType
        <5>3. g # f => fetches'[f] = fetches[f]
          BY <3>1, <5>1
        <5> QED BY <5>2, <5>3
      <4>2. CASE HandleEvent(g)
        <5>1. fetches' = [fetches EXCEPT ![g].handled = @ + 1]
          BY <4>2 DEF HandleEvent
        <5>2. fetches'[f].state = fetches[f].state
          BY <3>1, <5>1 DEF FetchType
        <5> QED BY <5>2
      <4> QED BY <3>4, <4>1, <4>2
    <3>5. ASSUME NEW g \in FetchIds, Settle(g) PROVE g = f
      <4>1. fetches' = [fetches EXCEPT ![g].state = "settled"]
        BY <3>5 DEF Settle
      <4> QED BY <3>1, <4>1
    <3>6. ~(\/ handleStop \/ flush \/ Unmount \/ clearAllMessagesForTab
            \/ clearForConnection \/ AskPayload \/ PayloadAnswers
            \/ PayloadFails \/ \E v \in Views : SwitchTo(v) \/ Mount(v))
      BY <3>2 DEF handleStop, flush, Unmount, clearAllMessagesForTab,
         clearForConnection, AskPayload, PayloadAnswers, PayloadFails,
         SwitchTo, Mount
    <3> QED BY <3>3, <3>4, <3>5, <3>6 DEF TabNext
  <2> DEFINE e == fetches[f].emitted
             rest == Rows(f, e + 1, fetches[f].total)
             was == Coming(tabKey)
             now == store'.rows[tabKey]
  <2>2. /\ Listens /\ active = f /\ tabKey \in Views
        /\ fetches[f].view = tabKey
        /\ rest \in Seq(RowType)
        /\ Len(rest) = fetches[f].total - e
        /\ \A i \in DOMAIN rest : rest[i].fetch = f /\ rest[i].offset = e + i
        /\ store.evicted \subseteq store'.evicted
        /\ now = was \o rest
    BY <2>1, AppliedFacts
  <2>3. /\ was \in Seq(RowType) /\ FirstMessages(was, e)
        /\ e \in Nat /\ fetches[f].total \in Nat
    <3>1. Typed /\ SoFarWhole
      BY DEF RInv
    <3>2. FirstMessages(was, fetches[active].handled)
      BY <2>2, <3>1 DEF SoFarWhole
    <3>3. was \in Seq(RowType)
      BY <2>2, <3>1, ComingFacts DEF ComingParts
    <3>4. fetches[f] \in FetchType
      BY <3>1 DEF Typed
    <3> QED BY <2>2, <3>2, <3>3, <3>4, DataTabAssumption DEF FetchType
  <2> DEFINE total == fetches[f].total
  <2> HIDE DEF e, rest, was
  <2>4. FirstMessages(was \o rest, e + Len(rest))
    BY <2>2, <2>3, MoreOfTheFirst
  <2>5. now \in Seq(RowType) /\ FirstMessages(now, total)
    <3>1. was \o rest \in Seq(RowType)
      BY <2>2, <2>3, ConcatProperties
    <3>2. e + Len(rest) = total
      BY <2>2, <2>3
    <3> HIDE DEF now, total
    <3> QED BY <2>2, <2>4, <3>1, <3>2
  <2> HIDE DEF now, total
  <2>6. DOMAIN now = 1 .. total /\ \A i \in DOMAIN now : now[i].offset = i
    BY <2>5 DEF FirstMessages
  <2>7. [i \in DOMAIN now |-> now[i].offset] = [i \in 1 .. total |-> i]
    BY <2>6
  <2> QED BY <2>2, <2>7 DEF now, total
<1> QED BY <1>1, RInvHolds, PTL DEF TabSpec, CompletedFetchIsWhole

-----------------------------------------------------------------------------
(* The schemas a message is shown with.                                    *)
Stages == {"client", "lookup", "waiting", "compile", "compiling", "done"}

\* Only what compiles is pasted for Protobuf.
PastedIsValid ==
    /\ pasted \in [Formats -> {None} \union Texts]
    /\ \A format \in Formats : pasted[format] # None =>
          pasted[format].origin = "pasted" /\ validate_schema(format, pasted[format])

\* A client belongs to one registry, and so does all it keeps.
Caches == UNION {[ids -> Texts] : ids \in SUBSET Byte}

ClientsKeepTheirOwn ==
    /\ clients \in Seq([endpoint : Endpoints, cache : Caches])
    /\ \A k \in 1 .. Len(clients) : \A id \in DOMAIN clients[k].cache :
          clients[k].cache[id] = Text(clients[k].endpoint, id)
    /\ pool \in (1 .. Len(clients)) \union {None}

\* What is kept compiled did compile, is kept once, and is not too much.
CompiledAre ==
    /\ compiled \in Seq(Texts)
    /\ Len(compiled) <= SCHEMA_CACHE_ENTRIES
    /\ CompiledOnce
    /\ \A k \in 1 .. Len(compiled) : Declares(compiled[k]) # NoResult

\* A command that has read what was pasted.
IsRow(c) ==
    c = [at |-> c.at, format |-> c.format, payload |-> c.payload,
         manual |-> c.manual, kept |-> c.kept]

RowView(c) ==
    /\ c.at = "row"
    /\ IsRow(c)
    /\ c.format \in Formats /\ c.payload \in Payloads /\ c.kept \in BOOLEAN
    /\ c.kept => c.manual # None
    /\ c.manual # None => c.manual \in Texts /\ c.manual.origin = "pasted"
                          /\ validate_schema(c.format, c.manual)

\* One that has decided how to decode ...
IsView(c) ==
    c = [at |-> c.at, format |-> c.format, payload |-> c.payload, kept |-> c.kept,
         strategy |-> c.strategy, client |-> c.client, message |-> c.message,
         endpoint |-> c.endpoint, text |-> c.text]

DecidedView(c) ==
    /\ c.at \in Stages
    /\ IsView(c)
    /\ c.format \in Formats /\ c.payload \in Payloads /\ c.kept \in BOOLEAN
    /\ \/ \E manual, registry \in BOOLEAN :
             c.strategy = decide_decode_strategy(c.format, c.payload.bytes, manual, registry)
       \/ c.strategy = Strategy("failed", 0, <<>>) /\ c.at = "done"
    /\ c.kept => c.strategy.kind \in {"manual", "container"}
    /\ c.strategy.kind = "registry" => c.endpoint \in Endpoints

\* ... has the text it decided for ...
HasItsText(c, served) ==
    /\ c.at \in {"client", "lookup", "waiting"} => c.strategy.kind = "registry"
    /\ c.at \in {"lookup", "waiting"} =>
          c.client \in 1 .. Len(served) /\ served[c.client].endpoint = c.endpoint
    /\ c.at \in {"compile", "compiling", "done"} /\ c.strategy.kind = "registry" =>
          c.text = Text(c.endpoint, SchemaId(c.payload.bytes))
    /\ c.strategy.kind = "manual" /\ c.format = "protobuf" =>
          c.text \in Texts /\ c.text.origin = "pasted" /\ Declares(c.text) # NoResult
    /\ c.at \in {"compile", "compiling"} =>
          c.format = "protobuf" /\ c.strategy.kind \in {"manual", "registry"}

\* ... and in the end the message that text has for it.
HasItsMessage(c) ==
    IF c.at = "done" /\ c.format = "protobuf" /\ c.strategy.kind \in {"manual", "registry"}
    THEN c.message = IF Declares(c.text) = NoResult THEN NoResult
                     ELSE resolve_message(c.text, c.strategy.path)
    ELSE c.message = NoResult

ViewIsRight(c, served) ==
    \/ c = Idle
    \/ RowView(c)
    \/ DecidedView(c) /\ HasItsText(c, served) /\ HasItsMessage(c)

\* The inductive invariant.
SchemaIInv ==
    /\ endpoint \in Endpoints \union {None}
    /\ PastedIsValid /\ ClientsKeepTheirOwn /\ CompiledAre
    /\ view = [v \in Viewers |-> view[v]]
    /\ \A v \in Viewers : ViewIsRight(view[v], clients)
-----------------------------------------------------------------------------

\* What the rules decide: a pasted schema is used if there is one, and a
\* registry is asked only of an id in the payload.
LEMMA Decisions ==
    ASSUME NEW format \in Formats, NEW bytes, NEW manual \in BOOLEAN, NEW registry \in BOOLEAN
    PROVE  LET s == decide_decode_strategy(format, bytes, manual, registry)
           IN  /\ s = Strategy(s.kind, s.offset, s.path)
               /\ manual => s.kind \in {"manual", "container"}
               /\ s.kind = "manual" => manual
               /\ s.kind = "registry" => registry /\ detect_wire_format(bytes) # NoResult
               /\ format = "avro" => s.kind \in {"container", "manual", "registry", "refused"}
               /\ format = "protobuf" => s.kind \in {"manual", "registry", "raw"}
PROOF
<1>1. CASE format = "avro"
  BY <1>1 DEF decide_decode_strategy, decide_avro_strategy, Strategy
<1>2. CASE format = "protobuf"
  <2>1. detect_confluent_header(bytes) # NoResult => detect_wire_format(bytes) # NoResult
    BY DEF detect_confluent_header
  <2>2. PICK offset, path, kind :
           /\ decide_decode_strategy(format, bytes, manual, registry) = Strategy(kind, offset, path)
           /\ kind = IF manual THEN "manual"
                     ELSE IF detect_confluent_header(bytes) # NoResult /\ registry THEN "registry" ELSE "raw"
    BY <1>2 DEF decide_decode_strategy, decide_protobuf_strategy
  <2> HIDE DEF Found
  <2> QED BY <1>2, <2>1, <2>2 DEF Strategy
<1> QED BY <1>1, <1>2 DEF Formats

\* The id of a schema is a byte of the payload.
LEMMA IdIsByte ==
    ASSUME NEW p \in Payloads, detect_wire_format(p.bytes) # NoResult
    PROVE  SchemaId(p.bytes) \in Byte
PROOF
<1>1. p.bytes \in Seq(Byte)
  BY SchemaDecodingAssumption DEF IsPayload
<1>2. Len(p.bytes) >= 5
  BY <1>1 DEF detect_wire_format
<1>3. 5 \in 1 .. Len(p.bytes)
  BY <1>1, <1>2
<1> QED BY <1>1, <1>3 DEF SchemaId

\* A compiled schema takes its place, or finds it taken.
LEMMA InsertKeeps ==
    ASSUME CompiledAre, NEW text \in Texts, Declares(text) # NoResult,
           compiled' = InsertCompiled(text)
    PROVE  CompiledAre'
PROOF
<1>1. CASE IsCompiled(text)
  BY <1>1 DEF CompiledAre, InsertCompiled, CompiledOnce
<1>2. CASE ~ IsCompiled(text)
  <2> DEFINE full == Len(compiled) >= SCHEMA_CACHE_ENTRIES
             left == IF full THEN Tail(compiled) ELSE compiled
             shift == IF full THEN 1 ELSE 0
  <2>1. SCHEMA_CACHE_ENTRIES \in Nat \ {0}
    BY SchemaDecodingAssumption
  <2>2. compiled \in Seq(Texts) /\ Len(compiled) \in Nat /\ Len(compiled) <= SCHEMA_CACHE_ENTRIES
    BY DEF CompiledAre
  <2>3. /\ left \in Seq(Texts) /\ Len(left) \in Nat
        /\ Len(left) + shift = Len(compiled) /\ Len(left) < SCHEMA_CACHE_ENTRIES
        /\ \A k \in 1 .. Len(left) : k + shift \in 1 .. Len(compiled) /\ left[k] = compiled[k + shift]
    <3>1. CASE full
      <4>1. compiled # <<>>
        BY <2>1, <2>2, <3>1
      <4>2. Tail(compiled) \in Seq(Texts) /\ Len(Tail(compiled)) = Len(compiled) - 1
            /\ \A k \in 1 .. Len(Tail(compiled)) : Tail(compiled)[k] = compiled[k + 1]
        BY <2>2, <4>1
      <4> QED BY <2>1, <2>2, <3>1, <4>2
    <3>2. CASE ~ full
      BY <2>1, <2>2, <3>2
    <3> QED BY <3>1, <3>2
  <2>4. compiled' = Append(left, text)
    BY <1>2 DEF InsertCompiled
  <2>5. \A k \in 1 .. Len(compiled) : compiled[k] # text
    BY <1>2, <2>2 DEF IsCompiled, Range
  <2>6. \A j, k \in 1 .. Len(compiled) : compiled[j] = compiled[k] => j = k
    BY <2>2 DEF CompiledAre, CompiledOnce, IsInjective
  <2> HIDE DEF left, full
  <2>7. shift \in Nat
    OBVIOUS
  <2> HIDE DEF shift
  <2>8. /\ compiled' \in Seq(Texts) /\ Len(compiled') = Len(left) + 1
        /\ DOMAIN (compiled') = 1 .. Len(left) + 1
        /\ compiled'[Len(left) + 1] = text
        /\ \A k \in 1 .. Len(left) : compiled'[k] = compiled[k + shift]
    BY <2>3, <2>4
  <2>9. \A j, k \in 1 .. Len(left) + 1 : compiled'[j] = compiled'[k] => j = k
    <3> SUFFICES ASSUME NEW j \in 1 .. Len(left) + 1, NEW k \in 1 .. Len(left) + 1,
                        compiled'[j] = compiled'[k]
                 PROVE  j = k
      OBVIOUS
    <3>1. CASE j \in 1 .. Len(left) /\ k \in 1 .. Len(left)
      <4>1. compiled[j + shift] = compiled[k + shift]
        BY <2>8, <3>1
      <4>2. j + shift = k + shift
        BY <2>3, <2>6, <3>1, <4>1
      <4> QED BY <2>7, <4>2
    <3>2. CASE j \in 1 .. Len(left) /\ k = Len(left) + 1
      BY <2>3, <2>5, <2>8, <3>2
    <3>3. CASE k \in 1 .. Len(left) /\ j = Len(left) + 1
      BY <2>3, <2>5, <2>8, <3>3
    <3> QED BY <2>3, <3>1, <3>2, <3>3
  <2>10. \A k \in 1 .. Len(left) + 1 : Declares(compiled'[k]) # NoResult
    <3> TAKE k \in 1 .. Len(left) + 1
    <3>1. CASE k \in 1 .. Len(left)
      BY <2>3, <2>8, <3>1 DEF CompiledAre
    <3>2. CASE k = Len(left) + 1
      BY <2>8, <3>2
    <3> QED BY <2>3, <3>1, <3>2
  <2>11. CompiledOnce'
    BY <2>8, <2>9 DEF CompiledOnce, IsInjective
  <2>12. Len(compiled') <= SCHEMA_CACHE_ENTRIES
    BY <2>1, <2>3, <2>8
  <2>13. \A k \in 1 .. Len(compiled') : Declares(compiled'[k]) # NoResult
    BY <2>8, <2>10
  <2> QED BY <2>8, <2>11, <2>12, <2>13 DEF CompiledAre
<1> QED BY <1>1, <1>2
-----------------------------------------------------------------------------
\* A sequence over a set.
LEMMA ASequenceIs ==
    ASSUME NEW S, NEW s \in Seq(S)
    PROVE  /\ Len(s) \in Nat /\ s = [k \in 1 .. Len(s) |-> s[k]]
           /\ \A k \in 1 .. Len(s) : s[k] \in S
OBVIOUS

\* What is pasted is a text.
LEMMA PastesAreTexts ==
    ASSUME NEW format \in Formats, NEW n \in Pastes[format]
    PROVE  Text("pasted", n) \in Texts
PROOF
<1>1. Pastes[format] \in Range(Pastes)
  BY SchemaDecodingAssumption DEF Range
<1> QED BY <1>1 DEF Texts

LEMMA SeqGrows ==
    ASSUME NEW S, NEW T, S \subseteq T, NEW s \in Seq(S)
    PROVE  s \in Seq(T)
OBVIOUS

LEMMA RegisteredAreTexts ==
    ASSUME NEW e \in Endpoints, NEW id \in Byte
    PROVE  Text(e, id) \in Texts
BY DEF Texts

\* A client goes to no other registry, so what a command relies on stays.
LEMMA ViewKeeps ==
    ASSUME NEW c, NEW served, NEW more, Len(served) \in Nat, Len(more) \in Nat,
           ViewIsRight(c, served), Len(served) <= Len(more),
           \A k \in 1 .. Len(served) : more[k].endpoint = served[k].endpoint
    PROVE  ViewIsRight(c, more)
BY DEF ViewIsRight, HasItsText

\* One command is changed, the others keep.
LEMMA OneViewChanges ==
    ASSUME SchemaIInv, NEW v \in Viewers, NEW c, ViewIsRight(c, clients'),
           view' = [view EXCEPT ![v] = c],
           Len(clients) \in Nat, Len(clients') \in Nat, Len(clients) <= Len(clients'),
           \A k \in 1 .. Len(clients) : clients'[k].endpoint = clients[k].endpoint
    PROVE  /\ view' = [w \in Viewers |-> view'[w]]
           /\ \A w \in Viewers : ViewIsRight(view'[w], clients')
PROOF
<1>1. view' = [w \in Viewers |-> IF w = v THEN c ELSE view[w]]
  BY DEF SchemaIInv
<1>2. ASSUME NEW w \in Viewers, w # v PROVE ViewIsRight(view[w], clients')
  BY ViewKeeps DEF SchemaIInv
<1> QED BY <1>1, <1>2

\* The same when no client is built.
LEMMA OneViewAlone ==
    ASSUME SchemaIInv, NEW v \in Viewers, NEW c, ViewIsRight(c, clients),
           view' = [view EXCEPT ![v] = c], UNCHANGED <<endpoint, pasted, pool, clients, compiled>>
    PROVE  SchemaIInv'
PROOF
<1>1. view' = [w \in Viewers |-> IF w = v THEN c ELSE view[w]]
  BY DEF SchemaIInv
<1>2. /\ view' = [w \in Viewers |-> view'[w]]
      /\ \A w \in Viewers : ViewIsRight(view'[w], clients)
  BY <1>1 DEF SchemaIInv
<1>3. PastedIsValid' /\ ClientsKeepTheirOwn' /\ CompiledAre'
  BY DEF SchemaIInv, PastedIsValid, ClientsKeepTheirOwn, CompiledAre, CompiledOnce
<1>4. endpoint' \in Endpoints \union {None}
  BY DEF SchemaIInv
<1> QED BY <1>2, <1>3, <1>4 DEF SchemaIInv

LEMMA SchemaInit == Init => SchemaIInv
PROOF
<1> SUFFICES ASSUME Init PROVE SchemaIInv
  OBVIOUS
<1>1. PastedIsValid
  <2>1. ASSUME NEW format \in Formats, pasted[format] # None
        PROVE  /\ pasted[format] \in Texts /\ pasted[format].origin = "pasted"
               /\ validate_schema(format, pasted[format])
    <3>1. PICK n \in UNION Range(Pastes) : pasted[format] = Text("pasted", n)
      BY <2>1 DEF Init
    <3>2. pasted[format].origin = "pasted" /\ validate_schema(format, pasted[format])
      BY <2>1, <3>1 DEF Init, Text
    <3>3. pasted[format] \in Texts
      BY <3>1 DEF Texts
    <3> QED BY <3>2, <3>3
  <2>2. pasted \in [Formats -> {None} \union Texts]
    BY <2>1 DEF Init
  <2> QED BY <2>1, <2>2 DEF PastedIsValid
<1>2. ClientsKeepTheirOwn
  BY DEF Init, ClientsKeepTheirOwn
<1>3. CompiledAre
  BY SchemaDecodingAssumption DEF Init, CompiledAre, CompiledOnce, IsInjective
<1> QED BY <1>1, <1>2, <1>3 DEF Init, SchemaIInv, ViewIsRight

LEMMA StartDecodeKeeps ==
    ASSUME SchemaIInv, NEW v \in Viewers, StartDecode(v) PROVE SchemaIInv'
PROOF
<1>1. PICK format \in Formats, payload \in Payloads :
         view' = [view EXCEPT ![v] =
                [at |-> "row", format |-> format, payload |-> payload,
                 manual |-> pasted[format], kept |-> pasted[format] # None]]
  BY SchemaDecodingAssumption DEF StartDecode
<1> DEFINE c == [at |-> "row", format |-> format, payload |-> payload,
                 manual |-> pasted[format], kept |-> pasted[format] # None]
<1>2. pasted[format] # None => pasted[format] \in Texts /\ pasted[format].origin = "pasted"
                               /\ validate_schema(format, pasted[format])
  BY DEF SchemaIInv, PastedIsValid
<1>3. RowView(c)
  BY <1>2 DEF RowView, IsRow
<1>4. ViewIsRight(c, clients)
  BY <1>3 DEF ViewIsRight
<1> HIDE DEF c
<1>5. UNCHANGED <<endpoint, pasted, pool, clients, compiled>>
  BY DEF StartDecode, viewFrame
<1>6. view' = [view EXCEPT ![v] = c]
  BY <1>1 DEF c
<1> QED BY <1>4, <1>5, <1>6, OneViewAlone

\* A command goes on.
Moved(d, c, at, strategy, client, message, text) ==
    d = [at |-> at, format |-> c.format, payload |-> c.payload, kept |-> c.kept,
         strategy |-> strategy, client |-> client, message |-> message,
         endpoint |-> c.endpoint, text |-> text]

LEMMA Moves ==
    ASSUME NEW c, IsView(c), NEW at, NEW x
    PROVE  /\ Moved([c EXCEPT !.at = at], c, at, c.strategy, c.client, c.message, c.text)
           /\ Moved([c EXCEPT !.at = at, !.strategy = x], c, at, x, c.client, c.message, c.text)
           /\ Moved([c EXCEPT !.at = at, !.client = x], c, at, c.strategy, x, c.message, c.text)
           /\ Moved([c EXCEPT !.at = at, !.message = x], c, at, c.strategy, c.client, x, c.text)
           /\ Moved([c EXCEPT !.text = x, !.at = at], c, at, c.strategy, c.client, c.message, x)
PROOF
<1>1. ASSUME NEW d, d = [c EXCEPT !.at = at] PROVE Moved(d, c, at, c.strategy, c.client, c.message, c.text)
  BY <1>1 DEF IsView, Moved
<1>2. ASSUME NEW d, d = [c EXCEPT !.at = at, !.strategy = x] PROVE Moved(d, c, at, x, c.client, c.message, c.text)
  BY <1>2 DEF IsView, Moved
<1>3. ASSUME NEW d, d = [c EXCEPT !.at = at, !.client = x] PROVE Moved(d, c, at, c.strategy, x, c.message, c.text)
  BY <1>3 DEF IsView, Moved
<1>4. ASSUME NEW d, d = [c EXCEPT !.at = at, !.message = x] PROVE Moved(d, c, at, c.strategy, c.client, x, c.text)
  BY <1>4 DEF IsView, Moved
<1>5. ASSUME NEW d, d = [c EXCEPT !.text = x, !.at = at] PROVE Moved(d, c, at, c.strategy, c.client, c.message, x)
  BY <1>5 DEF IsView, Moved
<1> QED BY <1>1, <1>2, <1>3, <1>4, <1>5

LEMMA MovedIs ==
    ASSUME NEW c, NEW d, NEW at, NEW strategy, NEW client, NEW message, NEW text,
           Moved(d, c, at, strategy, client, message, text)
    PROVE  /\ d.at = at /\ d.format = c.format /\ d.payload = c.payload /\ d.kept = c.kept
           /\ d.strategy = strategy /\ d.client = client /\ d.message = message
           /\ d.endpoint = c.endpoint /\ d.text = text
           /\ IsView(d)
BY DEF IsView, Moved

\* What it has decided stays decided.
LEMMA MovedIsDecided ==
    ASSUME NEW c, DecidedView(c), NEW d, NEW at \in Stages, NEW client, NEW message, NEW text,
           Moved(d, c, at, c.strategy, client, message, text),
           c.strategy.kind \in {"manual", "registry"}
    PROVE  DecidedView(d)
PROOF
<1>1. /\ d.at = at /\ d.format = c.format /\ d.payload = c.payload /\ d.kept = c.kept
      /\ d.strategy = c.strategy /\ d.endpoint = c.endpoint
      /\ IsView(d)
  BY MovedIs
<1>2. \E manual, registry \in BOOLEAN :
         c.strategy = decide_decode_strategy(c.format, c.payload.bytes, manual, registry)
  BY DEF DecidedView, Strategy
<1>3. \E manual, registry \in BOOLEAN :
         d.strategy = decide_decode_strategy(d.format, d.payload.bytes, manual, registry)
  BY <1>1, <1>2
<1>4. d.kept \in BOOLEAN /\ (d.kept => d.strategy.kind \in {"manual", "container"})
  <2>1. c.kept \in BOOLEAN /\ (c.kept => c.strategy.kind \in {"manual", "container"})
    BY DEF DecidedView
  <2> QED BY <1>1, <2>1, Zenon
<1> QED BY <1>1, <1>3, <1>4 DEF DecidedView

LEMMA ReadRowKeeps ==
    ASSUME SchemaIInv, NEW v \in Viewers, ReadRow(v) PROVE SchemaIInv'
PROOF
<1> DEFINE c == view[v]
           s == decide_decode_strategy(c.format, c.payload.bytes, c.manual # None, endpoint # None)
           d == [at |-> CASE s.kind = "registry" -> "client"
                          [] s.kind = "manual" /\ c.format = "protobuf" -> "compile"
                          [] OTHER -> "done",
                 format |-> c.format, payload |-> c.payload, kept |-> c.kept, strategy |-> s,
                 client |-> None, message |-> NoResult, endpoint |-> endpoint,
                 text |-> IF s.kind = "manual" THEN c.manual ELSE None]
<1>1. view' = [view EXCEPT ![v] = d] /\ c.at = "row"
  BY DEF ReadRow, Decided
<1>2. UNCHANGED <<endpoint, pasted, pool, clients, compiled>>
  BY DEF ReadRow, viewFrame
<1>3. RowView(c)
  BY <1>1 DEF SchemaIInv, ViewIsRight, Idle, DecidedView, Stages
<1> HIDE DEF c
<1>4. /\ s = Strategy(s.kind, s.offset, s.path)
      /\ c.manual # None => s.kind \in {"manual", "container"}
      /\ s.kind = "manual" => c.manual # None
      /\ s.kind = "registry" => endpoint # None
      /\ c.format = "avro" => s.kind \in {"container", "manual", "registry", "refused"}
      /\ c.format = "protobuf" => s.kind \in {"manual", "registry", "raw"}
  BY <1>3, Decisions DEF RowView
<1>5. \E manual, registry \in BOOLEAN :
         s = decide_decode_strategy(c.format, c.payload.bytes, manual, registry)
  OBVIOUS
<1> HIDE DEF s
<1>6. d.at = IF s.kind = "registry" THEN "client"
             ELSE IF s.kind = "manual" /\ c.format = "protobuf" THEN "compile" ELSE "done"
  OBVIOUS
<1>7. /\ d = [at |-> d.at, format |-> c.format, payload |-> c.payload, kept |-> c.kept,
              strategy |-> s, client |-> None, message |-> NoResult, endpoint |-> endpoint,
              text |-> IF s.kind = "manual" THEN c.manual ELSE None]
  OBVIOUS
<1> HIDE DEF d
<1>8. d.at \in Stages
  BY <1>6 DEF Stages
<1>9. endpoint # None => endpoint \in Endpoints
  BY DEF SchemaIInv
<1>10. DecidedView(d)
  <2>1. /\ d.format = c.format /\ d.payload = c.payload /\ d.kept = c.kept /\ d.strategy = s
        /\ d.client = None /\ d.message = NoResult /\ d.endpoint = endpoint
    BY <1>7
  <2>2. IsView(d)
    BY <1>7 DEF IsView
  <2> QED BY <1>3, <1>4, <1>5, <1>8, <1>9, <2>1, <2>2, Zenon DEF RowView, DecidedView
<1>11. HasItsText(d, clients)
  <2>1. /\ d.format = c.format /\ d.strategy = s
        /\ s.kind = "manual" => d.text = c.manual
    BY <1>7
  <2>2. c.manual # None /\ c.format = "protobuf" => Declares(c.manual) # NoResult
    BY <1>3 DEF RowView, validate_schema
  <2> QED BY <1>3, <1>4, <1>6, <2>1, <2>2 DEF RowView, HasItsText
<1>12. HasItsMessage(d)
  BY <1>6, <1>7 DEF HasItsMessage
<1>13. ViewIsRight(d, clients)
  BY <1>10, <1>11, <1>12 DEF ViewIsRight
<1> QED BY <1>1, <1>2, <1>13, OneViewAlone

\* What the invariant says of a command that has decided.
LEMMA ADecidedView ==
    ASSUME SchemaIInv, NEW v \in Viewers, view[v].at \in Stages, view[v].at # "row"
    PROVE  /\ DecidedView(view[v]) /\ HasItsText(view[v], clients) /\ HasItsMessage(view[v])
           /\ view[v].strategy.kind = "registry" =>
                 /\ SchemaId(view[v].payload.bytes) \in Byte
                 /\ Text(view[v].endpoint, SchemaId(view[v].payload.bytes)) \in Texts
PROOF
<1>1. /\ DecidedView(view[v]) /\ HasItsText(view[v], clients) /\ HasItsMessage(view[v])
  BY DEF SchemaIInv, ViewIsRight, Idle, RowView, Stages
<1>2. ASSUME view[v].strategy.kind = "registry"
      PROVE  SchemaId(view[v].payload.bytes) \in Byte
  <2>1. PICK manual, registry \in BOOLEAN :
           view[v].strategy = decide_decode_strategy(view[v].format, view[v].payload.bytes, manual, registry)
    BY <1>1, <1>2 DEF DecidedView, Strategy
  <2>2. detect_wire_format(view[v].payload.bytes) # NoResult
    BY <1>1, <1>2, <2>1, Decisions DEF DecidedView
  <2> QED BY <1>1, <2>2, IdIsByte DEF DecidedView
<1> QED BY <1>1, <1>2, RegisteredAreTexts DEF DecidedView

LEMMA GetOrCreateKeeps ==
    ASSUME SchemaIInv, NEW v \in Viewers, GetOrCreate(v) PROVE SchemaIInv'
PROOF
<1> DEFINE c == view[v]
           wanted == c.endpoint
           fits == IF pool = None THEN FALSE ELSE SameFingerprint(clients[pool], wanted)
           index == IF fits THEN pool ELSE Len(clients) + 1
           d == [c EXCEPT !.at = "lookup", !.client = index]
<1>1. /\ clients' = IF fits THEN clients
                    ELSE Append(clients, [endpoint |-> wanted, cache |-> <<>>])
      /\ pool' = index
      /\ view' = [view EXCEPT ![v] = d]
      /\ c.at = "client"
      /\ UNCHANGED <<endpoint, pasted, compiled>>
  BY DEF GetOrCreate, viewFrame
<1>2. DecidedView(c) /\ HasItsText(c, clients) /\ HasItsMessage(c)
  BY <1>1, ADecidedView DEF Stages
<1>3. c.strategy.kind = "registry" /\ wanted \in Endpoints
  BY <1>1, <1>2 DEF HasItsText, DecidedView
<1>4. /\ clients \in Seq([endpoint : Endpoints, cache : Caches])
      /\ pool \in (1 .. Len(clients)) \union {None}
      /\ \A k \in 1 .. Len(clients) : \A id \in DOMAIN clients[k].cache :
            clients[k].cache[id] = Text(clients[k].endpoint, id)
  BY DEF SchemaIInv, ClientsKeepTheirOwn
<1>5. /\ clients' \in Seq([endpoint : Endpoints, cache : Caches])
      /\ Len(clients) \in Nat /\ Len(clients') \in Nat /\ Len(clients) <= Len(clients')
      /\ \A k \in 1 .. Len(clients) : clients'[k] = clients[k]
      /\ index \in 1 .. Len(clients') /\ clients'[index].endpoint = wanted
      /\ \A k \in 1 .. Len(clients') : k \in 1 .. Len(clients) \/ clients'[k].cache = <<>>
  <2>1. CASE fits
    BY <1>1, <1>4, <2>1 DEF SameFingerprint
  <2>2. CASE ~ fits
    <3>1. clients' = Append(clients, [endpoint |-> wanted, cache |-> <<>>]) /\ index = Len(clients) + 1
      BY <1>1, <2>2
    <3>2. [endpoint |-> wanted, cache |-> <<>>] \in [endpoint : Endpoints, cache : Caches]
      <4>1. <<>> \in [{} -> Texts]
        OBVIOUS
      <4>2. <<>> \in Caches
        BY <4>1 DEF Caches
      <4> QED BY <1>3, <4>2
    <3> HIDE DEF c, index, wanted
    <3> QED BY <1>4, <3>1, <3>2
  <2> QED BY <2>1, <2>2
<1> HIDE DEF index, fits
<1>6. ClientsKeepTheirOwn'
  <2>1. ASSUME NEW k \in 1 .. Len(clients'), NEW id \in DOMAIN clients'[k].cache
        PROVE  clients'[k].cache[id] = Text(clients'[k].endpoint, id)
    <3>1. k \in 1 .. Len(clients)
      BY <1>5, <2>1
    <3> QED BY <1>4, <1>5, <3>1
  <2> QED BY <1>1, <1>5, <2>1 DEF ClientsKeepTheirOwn
<1>7. ViewIsRight(d, clients')
  <2>1. /\ d.at = "lookup" /\ d.client = index /\ d.format = c.format /\ d.payload = c.payload
        /\ d.kept = c.kept /\ d.strategy = c.strategy /\ d.endpoint = c.endpoint
        /\ d.message = c.message /\ d.text = c.text
        /\ IsView(d)
    <3>1. Moved(d, c, "lookup", c.strategy, index, c.message, c.text)
      BY <1>2, Moves DEF DecidedView
    <3> HIDE DEF c, d
    <3> QED BY <3>1, MovedIs
  <2> HIDE DEF c, d
  <2>2. DecidedView(d)
    BY <1>1, <1>2, <2>1 DEF DecidedView, Stages
  <2>3. HasItsText(d, clients')
    BY <1>2, <1>3, <1>5, <2>1 DEF HasItsText, wanted
  <2>4. HasItsMessage(d)
    BY <1>1, <1>2, <2>1 DEF HasItsMessage
  <2> QED BY <2>2, <2>3, <2>4 DEF ViewIsRight
<1> HIDE DEF d
<1>8. /\ view' = [w \in Viewers |-> view'[w]]
      /\ \A w \in Viewers : ViewIsRight(view'[w], clients')
  BY <1>1, <1>5, <1>7, OneViewChanges
<1>9. PastedIsValid' /\ CompiledAre' /\ endpoint' \in Endpoints \union {None}
  BY <1>1 DEF SchemaIInv, PastedIsValid, CompiledAre, CompiledOnce
<1> QED BY <1>6, <1>8, <1>9 DEF SchemaIInv

\* A command that gets the text of its registry's schema.
LEMMA TextArrives ==
    ASSUME NEW c, NEW d, NEW served, NEW text, DecidedView(c), HasItsText(c, served), HasItsMessage(c),
           c.at \in {"lookup", "waiting"}, text = Text(c.endpoint, SchemaId(c.payload.bytes)),
           d = WithText(c, text)
    PROVE  ViewIsRight(d, served)
PROOF
<1> DEFINE at == IF c.format = "protobuf" THEN "compile" ELSE "done"
<1>1. Moved(d, c, at, c.strategy, c.client, c.message, text)
  BY Moves DEF DecidedView, WithText
<1>2. /\ d.at = at /\ d.format = c.format /\ d.payload = c.payload /\ d.kept = c.kept
      /\ d.strategy = c.strategy /\ d.client = c.client /\ d.message = c.message
      /\ d.endpoint = c.endpoint /\ d.text = text
      /\ IsView(d)
  BY <1>1, MovedIs
<1>3. c.strategy.kind = "registry" /\ c.message = NoResult
  BY DEF HasItsText, HasItsMessage
<1>4. DecidedView(d)
  BY <1>2, <1>3 DEF DecidedView, Stages
<1>5. HasItsText(d, served)
  BY <1>2, <1>3 DEF HasItsText
<1>6. HasItsMessage(d)
  BY <1>2, <1>3 DEF HasItsMessage
<1> QED BY <1>4, <1>5, <1>6 DEF ViewIsRight

LEMMA LookUpKeeps ==
    ASSUME SchemaIInv, NEW v \in Viewers, LookUp(v) PROVE SchemaIInv'
PROOF
<1> DEFINE c == view[v]
           cache == clients[c.client].cache
           id == SchemaId(c.payload.bytes)
           d == IF id \in DOMAIN cache THEN WithText(c, cache[id]) ELSE [c EXCEPT !.at = "waiting"]
<1>1. /\ view' = [view EXCEPT ![v] = d] /\ c.at = "lookup"
      /\ UNCHANGED <<endpoint, pasted, pool, clients, compiled>>
  BY DEF LookUp, viewFrame, WantedId
<1>2. DecidedView(c) /\ HasItsText(c, clients) /\ HasItsMessage(c)
  BY <1>1, ADecidedView DEF Stages
<1>3. c.client \in 1 .. Len(clients) /\ clients[c.client].endpoint = c.endpoint
  BY <1>1, <1>2 DEF HasItsText
<1>4. CASE id \in DOMAIN cache
  <2>1. cache[id] = Text(c.endpoint, id)
    BY <1>3, <1>4 DEF SchemaIInv, ClientsKeepTheirOwn
  <2>2. d = WithText(c, cache[id])
    BY <1>4
  <2> HIDE DEF c, cache, d
  <2>3. ViewIsRight(d, clients)
    BY <1>1, <1>2, <2>1, <2>2, TextArrives DEF id
  <2> QED BY <1>1, <2>3, OneViewAlone
<1>5. CASE id \notin DOMAIN cache
  <2>1. d = [c EXCEPT !.at = "waiting"]
    BY <1>5
  <2> HIDE DEF c, cache, d
  <2>2. Moved(d, c, "waiting", c.strategy, c.client, c.message, c.text)
    BY <1>2, <2>1, Moves DEF DecidedView
  <2>3. /\ d.at = "waiting" /\ d.format = c.format /\ d.payload = c.payload /\ d.kept = c.kept
        /\ d.strategy = c.strategy /\ d.client = c.client /\ d.message = c.message
        /\ d.endpoint = c.endpoint /\ d.text = c.text
        /\ IsView(d)
    BY <2>2, MovedIs
  <2>4. DecidedView(d)
    BY <1>1, <1>2, <2>2, MovedIsDecided DEF HasItsText, Stages
  <2>5. HasItsText(d, clients)
    BY <1>1, <1>2, <2>3 DEF HasItsText
  <2>6. HasItsMessage(d)
    BY <1>1, <1>2, <2>3 DEF HasItsMessage
  <2>7. ViewIsRight(d, clients)
    BY <2>4, <2>5, <2>6 DEF ViewIsRight
  <2> QED BY <1>1, <2>7, OneViewAlone
<1> QED BY <1>4, <1>5

LEMMA RegistryAnswersKeeps ==
    ASSUME SchemaIInv, NEW v \in Viewers, RegistryAnswers(v) PROVE SchemaIInv'
PROOF
<1> DEFINE c == view[v]
           client == c.client
           id == SchemaId(c.payload.bytes)
           text == Text(clients[client].endpoint, id)
           kept == clients[client].cache
           fuller == [i \in DOMAIN kept \union {id} |-> IF i = id THEN text ELSE kept[i]]
           d == WithText(c, text)
<1>1. /\ view' = [view EXCEPT ![v] = d] /\ c.at = "waiting"
      /\ clients' = [clients EXCEPT ![client].cache = fuller]
      /\ UNCHANGED <<endpoint, pasted, pool, compiled>>
  BY DEF RegistryAnswers, viewFrame, WantedId
<1>2. DecidedView(c) /\ HasItsText(c, clients) /\ HasItsMessage(c)
  BY <1>1, ADecidedView DEF Stages
<1>3. client \in 1 .. Len(clients) /\ clients[client].endpoint = c.endpoint
      /\ c.strategy.kind = "registry"
  BY <1>1, <1>2 DEF HasItsText
<1>4. id \in Byte /\ text \in Texts /\ text = Text(c.endpoint, id)
  BY <1>1, <1>3, ADecidedView DEF Stages
<1>5. /\ clients \in Seq([endpoint : Endpoints, cache : Caches]) /\ Len(clients) \in Nat
      /\ pool \in (1 .. Len(clients)) \union {None}
      /\ \A k \in 1 .. Len(clients) : \A i \in DOMAIN clients[k].cache :
            clients[k].cache[i] = Text(clients[k].endpoint, i)
  BY DEF SchemaIInv, ClientsKeepTheirOwn
<1>c. /\ \A k \in 1 .. Len(clients) : clients[k] \in [endpoint : Endpoints, cache : Caches]
      /\ clients = [k \in 1 .. Len(clients) |-> clients[k]]
  BY <1>5, ASequenceIs, Zenon
<1>6. kept \in Caches /\ \A i \in DOMAIN kept : kept[i] = Text(c.endpoint, i)
  <2> HIDE DEF client, c, id, text
  <2>1. clients[client] \in [endpoint : Endpoints, cache : Caches]
    BY <1>3, <1>c
  <2>2. clients[client].cache \in Caches
    BY <2>1
  <2> QED BY <1>3, <1>5, <2>2
<1>7. fuller \in Caches
  <2>1. PICK ids \in SUBSET Byte : kept \in [ids -> Texts]
    BY <1>6 DEF Caches
  <2>2. DOMAIN kept = ids
    BY <2>1
  <2> HIDE DEF c, kept, id, text
  <2>3. fuller \in [ids \union {id} -> Texts]
    BY <1>4, <2>1, <2>2
  <2> HIDE DEF fuller
  <2> QED BY <1>4, <2>3 DEF Caches
<1>8. \A i \in DOMAIN fuller : fuller[i] = Text(c.endpoint, i)
  <2> HIDE DEF c, kept, id, text
  <2> QED BY <1>4, <1>6
<1>9. ViewIsRight(d, clients)
  <2> HIDE DEF c, d, kept, text, client
  <2> QED BY <1>1, <1>2, <1>4, TextArrives DEF id, d
<1> HIDE DEF d, fuller, kept, text, c, client
<1>10. clients' = [k \in 1 .. Len(clients) |->
                     IF k = client THEN [endpoint |-> clients[k].endpoint, cache |-> fuller]
                     ELSE clients[k]]
  <2>1. clients[client] \in [endpoint : Endpoints, cache : Caches]
    BY <1>3, <1>c
  <2>2. [clients[client] EXCEPT !.cache = fuller]
          = [endpoint |-> clients[client].endpoint, cache |-> fuller]
    BY <2>1
  <2>3. clients = [k \in 1 .. Len(clients) |-> clients[k]]
    BY <1>c
  <2>4. clients' = [k \in 1 .. Len(clients) |->
                     IF k = client THEN [clients[client] EXCEPT !.cache = fuller] ELSE clients[k]]
    BY <1>1, <2>3, Zenon
  <2> QED BY <2>2, <2>4
<1>11. /\ clients' \in Seq([endpoint : Endpoints, cache : Caches])
       /\ Len(clients') = Len(clients)
       /\ \A k \in 1 .. Len(clients) : /\ clients'[k].endpoint = clients[k].endpoint
                                       /\ k = client => clients'[k].cache = fuller
                                       /\ k # client => clients'[k] = clients[k]
  <2>1. ASSUME NEW k \in 1 .. Len(clients)
        PROVE  /\ clients'[k] \in [endpoint : Endpoints, cache : Caches]
               /\ clients'[k].endpoint = clients[k].endpoint
               /\ k = client => clients'[k].cache = fuller
               /\ k # client => clients'[k] = clients[k]
    <3>1. clients[k] \in [endpoint : Endpoints, cache : Caches]
      BY <1>c
    <3>2. clients'[k] = IF k = client THEN [endpoint |-> clients[k].endpoint, cache |-> fuller]
                        ELSE clients[k]
      BY <1>10
    <3> QED BY <1>7, <3>1, <3>2
  <2>2. clients' = [k \in 1 .. Len(clients) |-> clients'[k]]
    BY <1>10
  <2> QED BY <1>5, <2>1, <2>2
<1>12. ClientsKeepTheirOwn'
  <2>1. ASSUME NEW k \in 1 .. Len(clients'), NEW i \in DOMAIN clients'[k].cache
        PROVE  clients'[k].cache[i] = Text(clients'[k].endpoint, i)
    <3>1. CASE k = client
      BY <1>3, <1>8, <1>11, <3>1
    <3>2. CASE k # client
      BY <1>5, <1>11, <3>2
    <3> QED BY <3>1, <3>2
  <2> QED BY <1>1, <1>5, <1>11, <2>1 DEF ClientsKeepTheirOwn
<1>13. ViewIsRight(d, clients')
  BY <1>5, <1>9, <1>11, ViewKeeps
<1>14. /\ view' = [w \in Viewers |-> view'[w]]
       /\ \A w \in Viewers : ViewIsRight(view'[w], clients')
  <2>1. view' = [view EXCEPT ![v] = d]
    BY <1>1
  <2>2. Len(clients') \in Nat /\ Len(clients) <= Len(clients')
        /\ \A k \in 1 .. Len(clients) : clients'[k].endpoint = clients[k].endpoint
    BY <1>5, <1>11
  <2> QED BY <1>5, <1>13, <2>1, <2>2, OneViewChanges
<1>15. PastedIsValid' /\ CompiledAre' /\ endpoint' \in Endpoints \union {None}
  BY <1>1 DEF SchemaIInv, PastedIsValid, CompiledAre, CompiledOnce
<1> QED BY <1>12, <1>14, <1>15 DEF SchemaIInv

LEMMA RegistryFailsKeeps ==
    ASSUME SchemaIInv, NEW v \in Viewers, RegistryFails(v) PROVE SchemaIInv'
PROOF
<1> DEFINE c == view[v]
           failed == Strategy("failed", 0, <<>>)
           d == [c EXCEPT !.at = "done", !.strategy = failed]
<1>1. /\ view' = [view EXCEPT ![v].at = "done", ![v].strategy = failed] /\ c.at = "waiting"
      /\ UNCHANGED <<endpoint, pasted, pool, clients, compiled>>
  BY DEF RegistryFails, viewFrame
<1>2. view' = [view EXCEPT ![v] = d]
  BY <1>1 DEF SchemaIInv
<1>3. DecidedView(c) /\ HasItsText(c, clients) /\ HasItsMessage(c)
  BY <1>1, ADecidedView DEF Stages
<1> HIDE DEF c
<1>4. Moved(d, c, "done", failed, c.client, c.message, c.text)
  BY <1>3, Moves DEF DecidedView
<1> HIDE DEF d
<1>5. /\ d.at = "done" /\ d.format = c.format /\ d.payload = c.payload /\ d.kept = c.kept
      /\ d.strategy = failed /\ d.client = c.client /\ d.message = c.message
      /\ d.endpoint = c.endpoint /\ d.text = c.text
      /\ IsView(d)
  BY <1>4, MovedIs
<1>6. failed.kind = "failed"
  BY DEF Strategy
<1> HIDE DEF failed
<1>7. c.strategy.kind = "registry" /\ c.message = NoResult
  BY <1>1, <1>3 DEF HasItsText, HasItsMessage
<1>8. DecidedView(d)
  BY <1>3, <1>5, <1>6, <1>7 DEF DecidedView, Stages, failed
<1>9. HasItsText(d, clients)
  BY <1>5, <1>6 DEF HasItsText
<1>10. HasItsMessage(d)
  BY <1>5, <1>6, <1>7 DEF HasItsMessage
<1>11. ViewIsRight(d, clients)
  BY <1>8, <1>9, <1>10 DEF ViewIsRight
<1> QED BY <1>1, <1>2, <1>11, OneViewAlone

\* A command that has its text compiled.
LEMMA DecodedIsRight ==
    ASSUME NEW c, NEW served, DecidedView(c), HasItsText(c, served),
           c.at \in {"compile", "compiling"}, Declares(c.text) # NoResult
    PROVE  ViewIsRight(DecodedWith(c), served)
PROOF
<1> DEFINE d == DecodedWith(c)
           message == resolve_message(c.text, c.strategy.path)
<1>1. Moved(d, c, "done", c.strategy, c.client, message, c.text)
  BY Moves DEF DecidedView, DecodedWith
<1>2. c.format = "protobuf" /\ c.strategy.kind \in {"manual", "registry"}
  BY DEF HasItsText
<1> HIDE DEF d, message
<1>3. /\ d.at = "done" /\ d.format = c.format /\ d.payload = c.payload
      /\ d.strategy = c.strategy /\ d.message = message
      /\ d.endpoint = c.endpoint /\ d.text = c.text
  BY <1>1, MovedIs
<1>4. DecidedView(d)
  BY <1>1, <1>2, MovedIsDecided DEF Stages
<1>5. HasItsText(d, served)
  BY <1>2, <1>3 DEF HasItsText
<1>6. HasItsMessage(d)
  BY <1>2, <1>3 DEF HasItsMessage, message
<1>7. ViewIsRight(d, served)
  BY <1>4, <1>5, <1>6 DEF ViewIsRight
<1> QED BY <1>7 DEF d

\* A command that compiles has a text.
LEMMA CompilesAText ==
    ASSUME SchemaIInv, NEW v \in Viewers, view[v].at \in {"compile", "compiling"}
    PROVE  view[v].text \in Texts
PROOF
<1>1. DecidedView(view[v]) /\ HasItsText(view[v], clients)
      /\ (view[v].strategy.kind = "registry" =>
            Text(view[v].endpoint, SchemaId(view[v].payload.bytes)) \in Texts)
  BY ADecidedView DEF Stages
<1> QED BY <1>1 DEF HasItsText

LEMMA LookUpCompiledKeeps ==
    ASSUME SchemaIInv, NEW v \in Viewers, LookUpCompiled(v) PROVE SchemaIInv'
PROOF
<1> DEFINE c == view[v]
           d == IF IsCompiled(c.text) THEN DecodedWith(c) ELSE [c EXCEPT !.at = "compiling"]
<1>1. /\ view' = [view EXCEPT ![v] = d] /\ c.at = "compile"
      /\ UNCHANGED <<endpoint, pasted, pool, clients, compiled>>
  BY DEF LookUpCompiled, viewFrame
<1>2. DecidedView(c) /\ HasItsText(c, clients) /\ HasItsMessage(c)
  BY <1>1, ADecidedView DEF Stages
<1>3. CASE IsCompiled(c.text)
  <2>1. d = DecodedWith(c)
    BY <1>3
  <2> HIDE DEF c, d
  <2>2. Declares(c.text) # NoResult
    BY <1>3 DEF SchemaIInv, CompiledAre, IsCompiled, Range
  <2>3. ViewIsRight(d, clients)
    BY <1>1, <1>2, <2>1, <2>2, DecodedIsRight
  <2> QED BY <1>1, <2>3, OneViewAlone
<1>4. CASE ~ IsCompiled(c.text)
  <2>1. d = [c EXCEPT !.at = "compiling"]
    BY <1>4
  <2> HIDE DEF c, d
  <2>2. Moved(d, c, "compiling", c.strategy, c.client, c.message, c.text)
    BY <1>2, <2>1, Moves DEF DecidedView
  <2>3. /\ d.at = "compiling" /\ d.format = c.format /\ d.payload = c.payload
        /\ d.strategy = c.strategy /\ d.message = c.message
        /\ d.endpoint = c.endpoint /\ d.text = c.text
    BY <2>2, MovedIs
  <2>4. DecidedView(d)
    BY <1>1, <1>2, <2>2, MovedIsDecided DEF HasItsText, Stages
  <2>5. HasItsText(d, clients)
    BY <1>1, <1>2, <2>3 DEF HasItsText
  <2>6. HasItsMessage(d)
    BY <1>1, <1>2, <2>3 DEF HasItsMessage
  <2>7. ViewIsRight(d, clients)
    BY <2>4, <2>5, <2>6 DEF ViewIsRight
  <2> QED BY <1>1, <2>7, OneViewAlone
<1> QED BY <1>3, <1>4

LEMMA KeepCompiledKeeps ==
    ASSUME SchemaIInv, NEW v \in Viewers, KeepCompiled(v) PROVE SchemaIInv'
PROOF
<1> DEFINE c == view[v]
           d == DecodedWith(c)
<1>1. /\ view' = [view EXCEPT ![v] = d] /\ c.at = "compiling"
      /\ compiled' = InsertCompiled(c.text) /\ Declares(c.text) # NoResult
      /\ UNCHANGED <<endpoint, pasted, pool, clients>>
  BY DEF KeepCompiled, viewFrame
<1>2. DecidedView(c) /\ HasItsText(c, clients) /\ HasItsMessage(c) /\ c.text \in Texts
  BY <1>1, ADecidedView, CompilesAText DEF Stages
<1> HIDE DEF c
<1>3. CompiledAre'
  BY <1>1, <1>2, InsertKeeps DEF SchemaIInv
<1>4. ViewIsRight(d, clients')
  BY <1>1, <1>2, DecodedIsRight
<1> HIDE DEF d
<1>5. Len(clients) \in Nat
  BY DEF SchemaIInv, ClientsKeepTheirOwn
<1>6. /\ view' = [w \in Viewers |-> view'[w]]
      /\ \A w \in Viewers : ViewIsRight(view'[w], clients')
  <2>1. view' = [view EXCEPT ![v] = d]
    BY <1>1
  <2>2. Len(clients') \in Nat /\ Len(clients) <= Len(clients')
        /\ \A k \in 1 .. Len(clients) : clients'[k].endpoint = clients[k].endpoint
    BY <1>1, <1>5
  <2> QED BY <1>4, <1>5, <2>1, <2>2, OneViewChanges
<1>7. PastedIsValid' /\ ClientsKeepTheirOwn' /\ endpoint' \in Endpoints \union {None}
  BY <1>1 DEF SchemaIInv, PastedIsValid, ClientsKeepTheirOwn
<1> QED BY <1>3, <1>6, <1>7 DEF SchemaIInv

LEMMA CompileFailsKeeps ==
    ASSUME SchemaIInv, NEW v \in Viewers, CompileFails(v) PROVE SchemaIInv'
PROOF
<1> DEFINE c == view[v]
           d == [c EXCEPT !.at = "done"]
<1>1. /\ view' = [view EXCEPT ![v].at = "done"] /\ c.at = "compiling"
      /\ Declares(c.text) = NoResult
      /\ UNCHANGED <<endpoint, pasted, pool, clients, compiled>>
  BY DEF CompileFails, viewFrame
<1>2. view' = [view EXCEPT ![v] = d]
  BY <1>1
<1>3. DecidedView(c) /\ HasItsText(c, clients) /\ HasItsMessage(c)
  BY <1>1, ADecidedView DEF Stages
<1> HIDE DEF c
<1>4. Moved(d, c, "done", c.strategy, c.client, c.message, c.text)
  BY <1>3, Moves DEF DecidedView
<1> HIDE DEF d
<1>5. /\ d.at = "done" /\ d.format = c.format /\ d.payload = c.payload
      /\ d.strategy = c.strategy /\ d.message = c.message
      /\ d.endpoint = c.endpoint /\ d.text = c.text
  BY <1>4, MovedIs
<1>6. c.strategy.kind \in {"manual", "registry"} /\ c.message = NoResult
  BY <1>1, <1>3 DEF HasItsText, HasItsMessage
<1>7. DecidedView(d)
  BY <1>3, <1>4, <1>6, MovedIsDecided DEF Stages
<1>8. HasItsText(d, clients)
  BY <1>1, <1>3, <1>5, <1>6 DEF HasItsText
<1>9. HasItsMessage(d)
  BY <1>1, <1>5, <1>6 DEF HasItsMessage
<1>10. ViewIsRight(d, clients)
  BY <1>7, <1>8, <1>9 DEF ViewIsRight
<1> QED BY <1>1, <1>2, <1>10, OneViewAlone

LEMMA PasteKeeps == ASSUME SchemaIInv, Paste PROVE SchemaIInv'
PROOF
<1>a. PICK format \in Formats : \E n \in Pastes[format] :
         LET t == Text("pasted", n)
         IN  /\ compiled' = IF format = "protobuf" /\ Declares(t) # NoResult
                            THEN InsertCompiled(t) ELSE compiled
             /\ pasted' = IF validate_schema(format, t)
                          THEN [pasted EXCEPT ![format] = t] ELSE pasted
  BY DEF Paste
<1>1. PICK n \in Pastes[format] :
         LET t == Text("pasted", n)
         IN  /\ compiled' = IF format = "protobuf" /\ Declares(t) # NoResult
                            THEN InsertCompiled(t) ELSE compiled
             /\ pasted' = IF validate_schema(format, t)
                          THEN [pasted EXCEPT ![format] = t] ELSE pasted
  BY <1>a
<1> DEFINE text == Text("pasted", n)
<1>2. text \in Texts /\ text.origin = "pasted"
  <2>1. text \in Texts
    BY PastesAreTexts
  <2> QED BY <2>1 DEF Text
<1>3. UNCHANGED <<endpoint, pool, clients, view>>
  BY DEF Paste, userFrame
<1> HIDE DEF text
<1>4. CompiledAre'
  <2>1. CASE compiled' = compiled
    BY <2>1 DEF SchemaIInv, CompiledAre, CompiledOnce
  <2>2. CASE Declares(text) # NoResult /\ compiled' = InsertCompiled(text)
    BY <1>2, <2>2, InsertKeeps DEF SchemaIInv
  <2> QED BY <1>1, <2>1, <2>2 DEF text
<1>5. PastedIsValid'
  <2>1. CASE pasted' = pasted
    BY <2>1 DEF SchemaIInv, PastedIsValid
  <2>2. CASE validate_schema(format, text) /\ pasted' = [pasted EXCEPT ![format] = text]
    BY <1>2, <2>2 DEF SchemaIInv, PastedIsValid
  <2> QED BY <1>1, <2>1, <2>2 DEF text
<1> QED BY <1>3, <1>4, <1>5 DEF SchemaIInv, ClientsKeepTheirOwn

\* A schema that is cleared is no longer counted on by the commands under way.
LEMMA ForgottenIsRight ==
    ASSUME NEW c, NEW served, ViewIsRight(c, served), c.at # "idle", NEW d,
           d = [c EXCEPT !.kept = FALSE]
    PROVE  ViewIsRight(d, served)
PROOF
<1>1. CASE RowView(c)
  <2>1. IsRow(c)
    BY <1>1 DEF RowView
  <2>2. d = [at |-> c.at, format |-> c.format, payload |-> c.payload,
             manual |-> c.manual, kept |-> FALSE]
    BY <2>1 DEF IsRow
  <2>3. /\ d.at = c.at /\ d.format = c.format /\ d.payload = c.payload
        /\ d.manual = c.manual /\ d.kept = FALSE
        /\ IsRow(d)
    BY <2>2 DEF IsRow
  <2>4. RowView(d)
    BY <1>1, <2>3 DEF RowView
  <2> QED BY <2>4 DEF ViewIsRight
<1>2. CASE DecidedView(c) /\ HasItsText(c, served) /\ HasItsMessage(c)
  <2>1. IsView(c)
    BY <1>2 DEF DecidedView
  <2>2. d = [at |-> c.at, format |-> c.format, payload |-> c.payload, kept |-> FALSE,
             strategy |-> c.strategy, client |-> c.client, message |-> c.message,
             endpoint |-> c.endpoint, text |-> c.text]
    BY <2>1 DEF IsView
  <2>3. /\ d.at = c.at /\ d.format = c.format /\ d.payload = c.payload /\ d.kept = FALSE
        /\ d.strategy = c.strategy /\ d.client = c.client /\ d.message = c.message
        /\ d.endpoint = c.endpoint /\ d.text = c.text
        /\ IsView(d)
    BY <2>2 DEF IsView
  <2>4. DecidedView(d)
    BY <1>2, <2>3 DEF DecidedView
  <2>5. HasItsText(d, served)
    BY <1>2, <2>3 DEF HasItsText
  <2>6. HasItsMessage(d)
    BY <1>2, <2>3 DEF HasItsMessage
  <2> QED BY <2>4, <2>5, <2>6 DEF ViewIsRight
<1> QED BY <1>1, <1>2 DEF ViewIsRight, Idle

LEMMA ClearKeeps == ASSUME SchemaIInv, Clear PROVE SchemaIInv'
PROOF
<1>1. PICK format \in Formats :
         pasted' = [pasted EXCEPT ![format] = None] /\ view' = Forget(format)
  BY DEF Clear
<1>2. UNCHANGED <<endpoint, pool, clients, compiled>>
  BY DEF Clear, userFrame
<1>3. PastedIsValid'
  BY <1>1 DEF SchemaIInv, PastedIsValid
<1>4. view' = [w \in Viewers |-> view'[w]]
  BY <1>1 DEF Forget
<1>5. ASSUME NEW w \in Viewers PROVE ViewIsRight(view'[w], clients)
  <2>1. ViewIsRight(view[w], clients)
    BY DEF SchemaIInv
  <2>2. CASE view[w].at # "idle" /\ view[w].format = format
    <3>1. view'[w] = [view[w] EXCEPT !.kept = FALSE]
      BY <1>1, <2>2 DEF Forget
    <3> QED BY <2>1, <2>2, <3>1, ForgottenIsRight
  <2>3. CASE ~(view[w].at # "idle" /\ view[w].format = format)
    <3>1. view'[w] = view[w]
      BY <1>1, <2>3 DEF Forget
    <3> QED BY <2>1, <3>1
  <2> QED BY <2>2, <2>3
<1>6. ClientsKeepTheirOwn' /\ CompiledAre' /\ endpoint' \in Endpoints \union {None}
  BY <1>2 DEF SchemaIInv, ClientsKeepTheirOwn, CompiledAre, CompiledOnce
<1> QED BY <1>2, <1>3, <1>4, <1>5, <1>6 DEF SchemaIInv

LEMMA SettingsKeep ==
    ASSUME SchemaIInv, EditConnection \/ Release \/ UNCHANGED vars PROVE SchemaIInv'
PROOF
<1>1. /\ UNCHANGED <<pasted, view, clients, compiled>>
      /\ endpoint' \in Endpoints \union {None}
      /\ pool' \in {pool, None}
  BY DEF SchemaIInv, EditConnection, Release, userFrame, vars
<1>2. PastedIsValid' /\ CompiledAre'
  BY <1>1 DEF SchemaIInv, PastedIsValid, CompiledAre, CompiledOnce
<1>3. ClientsKeepTheirOwn'
  BY <1>1 DEF SchemaIInv, ClientsKeepTheirOwn
<1> QED BY <1>1, <1>2, <1>3 DEF SchemaIInv

LEMMA SchemaNext == SchemaIInv /\ [Next]_vars => SchemaIInv'
BY StartDecodeKeeps, ReadRowKeeps, GetOrCreateKeeps, LookUpKeeps, RegistryAnswersKeeps,
   RegistryFailsKeeps, LookUpCompiledKeeps, KeepCompiledKeeps, CompileFailsKeeps, PasteKeeps,
   ClearKeeps, SettingsKeep DEF Next

LEMMA SchemaAlways == Spec => []SchemaIInv
BY SchemaInit, SchemaNext, PTL DEF Spec

LEMMA SchemaImplies == SchemaIInv => SchemaInvariant
PROOF
<1> SUFFICES ASSUME SchemaIInv PROVE SchemaInvariant
  OBVIOUS
<1>1. ASSUME NEW v \in Viewers
      PROVE  view[v].at \in {"idle", "row", "client", "lookup", "waiting", "compile", "compiling", "done"}
  BY DEF SchemaIInv, ViewIsRight, Idle, RowView, DecidedView, Stages
<1>2. \A k \in 1 .. Len(clients) : clients[k].endpoint \in Endpoints
  <2>1. \A k \in 1 .. Len(clients) : clients[k] \in [endpoint : Endpoints, cache : Caches]
    BY ASequenceIs, Zenon DEF SchemaIInv, ClientsKeepTheirOwn
  <2> QED BY <2>1
<1>3. TypeOK
  BY <1>1, <1>2 DEF SchemaIInv, TypeOK, ClientsKeepTheirOwn, CompiledAre
<1>4. ASSUME NEW v \in Viewers, Shown(v)
      PROVE  DecidedView(view[v]) /\ HasItsText(view[v], clients)
  BY <1>4, ADecidedView DEF Shown, Stages
<1>5. SchemaIsItsRegistrys
  BY <1>4 DEF SchemaIsItsRegistrys, Shown, HasItsText, WantedId
<1>6. PastedSchemaWins
  BY <1>4 DEF PastedSchemaWins, DecidedView
<1> QED BY <1>3, <1>5, <1>6 DEF SchemaIInv, CompiledAre, SchemaInvariant

\* The schemas are the right ones: registered ones their own registry's and
\* id's, pasted ones first, compiled ones kept once and not too many
\* (get_or_create, fetch_schema_by_id, decide_decode_strategy, compile).
THEOREM SchemasAreTheRightOnes == Spec => []SchemaInvariant
BY SchemaAlways, SchemaImplies, PTL

-----------------------------------------------------------------------------
(* Numbers of the wire.                                                    *)

\* A group of seven bits is a natural number.
LEMMA GroupIsNat ==
    ASSUME NEW byte \in Byte, NEW k \in 1 .. VARINT_BYTES
    PROVE  Group(byte, 7 * (k - 1)) \in Nat
PROOF
<1> DEFINE bits == Min({7, WORD_BITS - 7 * (k - 1)})
           shift == 7 * (k - 1)
<1>1. VARINT_BYTES \in Nat /\ WORD_BITS \in Nat /\ WORD_BITS >= 7 * (VARINT_BYTES - 1) + 1
  BY WireFormatAssumption
<1>2. shift \in Nat /\ WORD_BITS - shift \in Nat
  BY <1>1
<1>3. bits \in Nat
  <2> HIDE DEF shift
  <2>1. Min({7, WORD_BITS - shift}) = IF 7 <= WORD_BITS - shift THEN 7 ELSE WORD_BITS - shift
    BY <1>2, MinOfTwo
  <2> QED BY <1>2, <2>1 DEF shift
<1> HIDE DEF bits, shift
<1>4. 2 ^ bits \in Nat /\ 2 ^ bits > 0 /\ 2 ^ shift \in Nat
  BY <1>2, <1>3, PowerOfTwo
<1> DEFINE x == 2 ^ bits
           y == 2 ^ shift
<1>5. x \in Nat /\ x > 0 /\ y \in Nat
  BY <1>4
<1>6. Group(byte, shift) = (byte % x) * y
  BY DEF Group, bits, shift
<1> HIDE DEF x, y
<1>7. byte % x \in Nat
  BY <1>5 DEF Byte
<1>8. (byte % x) * y \in Nat
  BY <1>5, <1>7
<1> QED BY <1>6, <1>8 DEF shift

\* So is what the bytes of a varint add up to.
LEMMA VarintIsNat ==
    ASSUME NEW s \in Seq(Byte), Len(s) <= VARINT_BYTES
    PROVE  VarintValue(s) \in Nat
PROOF
<1> DEFINE f == [k \in 1 .. Len(s) |-> Group(s[k], 7 * (k - 1))]
<1>1. Len(s) \in Nat /\ VARINT_BYTES \in Nat
  BY WireFormatAssumption
<1>2. \A k \in 1 .. Len(s) : f[k] \in Nat
  BY <1>1, GroupIsNat
<1>3. DOMAIN f = 1 .. Len(s) /\ IsFiniteSet(1 .. Len(s))
  BY <1>1, FS_Interval
<1>4. VarintValue(s) = SumFunctionOnSet(f, 1 .. Len(s))
  BY <1>3 DEF VarintValue, SumFunction
<1> HIDE DEF f
<1>5. SumFunctionOnSet(f, 1 .. Len(s)) \in Nat
  BY <1>2, <1>3, SumIsNat
<1> QED BY <1>4, <1>5

\* The slice of a sequence.
LEMMA SliceIs ==
    ASSUME NEW S, NEW s \in Seq(S), NEW a \in Nat, NEW b \in Nat, b <= Len(s)
    PROVE  /\ Slice(s, a, b) \in Seq(S)
           /\ Len(Slice(s, a, b)) = IF a <= b THEN b - a ELSE 0
           /\ \A k \in 1 .. b - a : Slice(s, a, b)[k] = s[a + k]
BY DEF Slice

LEMMA BytesAre ==
    ASSUME NEW bytes \in Seq(Byte)
    PROVE  /\ VARINT_BYTES \in Nat /\ Len(bytes) \in Nat
           /\ \A k \in 1 .. Len(bytes) : bytes[k] \in Int
PROOF
<1>1. VARINT_BYTES \in Nat
  BY WireFormatAssumption
<1>2. Len(bytes) \in Nat /\ \A k \in 1 .. Len(bytes) : bytes[k] \in Byte
  BY ASequenceIs
<1>3. \A b \in Byte : b \in Int
  BY DEF Byte
<1> QED BY <1>1, <1>2, <1>3

\* The number that is written at a place is the one that is read there ...
LEMMA NumberIsRead ==
    ASSUME NEW bytes \in Seq(Byte), NEW a \in Nat, NEW b \in Nat, b <= Len(bytes),
           IsVarint(Slice(bytes, a, b))
    PROVE  /\ a < b /\ b - a <= VARINT_BYTES
           /\ read_varint(bytes, a)
                = Found([value |-> VarintValue(Slice(bytes, a, b)), used |-> b - a])
PROOF
<1> DEFINE s == Slice(bytes, a, b)
           ends == {n \in 1 .. VARINT_BYTES : a + n <= Len(bytes) /\ At(bytes, a + n - 1) < 128}
<1>1. /\ Len(s) = IF a <= b THEN b - a ELSE 0
      /\ \A k \in 1 .. b - a : s[k] = bytes[a + k]
  BY SliceIs
<1>2. VARINT_BYTES \in Nat /\ Len(bytes) \in Nat /\ \A k \in 1 .. Len(bytes) : bytes[k] \in Int
  BY BytesAre
<1>3. Len(s) \in 1 .. VARINT_BYTES /\ s[Len(s)] < 128 /\ \A k \in 1 .. Len(s) - 1 : s[k] >= 128
  BY DEF IsVarint
<1> HIDE DEF s
<1>4. a < b /\ Len(s) = b - a /\ b - a \in 1 .. VARINT_BYTES
  BY <1>1, <1>2, <1>3
<1>5. At(bytes, a + (b - a) - 1) < 128
  BY <1>1, <1>3, <1>4 DEF At
<1>6. b - a \in ends
  BY <1>2, <1>4, <1>5
<1>7. ASSUME NEW n \in ends PROVE b - a <= n
  <2> SUFFICES ASSUME n < b - a PROVE FALSE
    BY <1>2, <1>4
  <2>1. n \in 1 .. b - a - 1 /\ At(bytes, a + n - 1) < 128
    BY <1>2, <1>4
  <2>2. At(bytes, a + n - 1) = bytes[a + n]
    BY <2>1 DEF At
  <2>3. s[n] >= 128 /\ s[n] = bytes[a + n]
    BY <1>1, <1>3, <1>4, <2>1
  <2>4. bytes[a + n] \in Int
    BY <1>2, <1>4, <2>1
  <2> QED BY <2>1, <2>2, <2>3, <2>4
<1>8. ends \in SUBSET Nat /\ ends # {}
  <2>1. ends \subseteq 1 .. VARINT_BYTES
    OBVIOUS
  <2>2. 1 .. VARINT_BYTES \subseteq Nat
    BY <1>2
  <2> HIDE DEF ends
  <2> QED BY <1>6, <2>1, <2>2
<1> HIDE DEF ends
<1>9. Min(ends) \in ends /\ \A y \in ends : Min(ends) <= y
  BY <1>8, MinOfNaturals
<1>10. Min(ends) = b - a
  <2> DEFINE m == Min(ends)
  <2>1. m \in Nat /\ m <= b - a /\ b - a <= m
    BY <1>6, <1>7, <1>8, <1>9
  <2> HIDE DEF m
  <2>2. m = b - a
    BY <1>4, <2>1
  <2> QED BY <2>2 DEF m
<1>11. a + (b - a) = b
  BY <1>4
<1>12. read_varint(bytes, a)
         = Found([value |-> VarintValue(Slice(bytes, a, a + Min(ends))), used |-> Min(ends)])
  BY <1>8 DEF read_varint, ReadVarint, ends
<1> QED BY <1>4, <1>10, <1>11, <1>12

\* ... and what is read at a place is written there.
LEMMA ReadIsNumber ==
    ASSUME NEW bytes \in Seq(Byte), NEW a \in Nat, read_varint(bytes, a) # NoResult
    PROVE  LET r == The(read_varint(bytes, a))
           IN  /\ read_varint(bytes, a) = Found(r)
               /\ r.used \in 1 .. VARINT_BYTES /\ a + r.used <= Len(bytes)
               /\ IsVarint(Slice(bytes, a, a + r.used))
               /\ r.value = VarintValue(Slice(bytes, a, a + r.used))
               /\ r.value \in Nat
PROOF
<1> DEFINE ends == {n \in 1 .. VARINT_BYTES : a + n <= Len(bytes) /\ At(bytes, a + n - 1) < 128}
           used == Min(ends)
           r == [value |-> VarintValue(Slice(bytes, a, a + used)), used |-> used]
           s == Slice(bytes, a, a + used)
<1>1. ends # {} /\ read_varint(bytes, a) = Found(r)
  BY DEF read_varint, ReadVarint
<1>2. VARINT_BYTES \in Nat /\ Len(bytes) \in Nat /\ \A k \in 1 .. Len(bytes) : bytes[k] \in Int
  BY BytesAre
<1>3. used \in ends /\ \A y \in ends : used <= y
  <2>1. ends \subseteq 1 .. VARINT_BYTES
    OBVIOUS
  <2>2. 1 .. VARINT_BYTES \subseteq Nat
    BY <1>2
  <2> HIDE DEF ends
  <2>3. ends \in SUBSET Nat
    BY <2>1, <2>2
  <2> QED BY <1>1, <2>3, MinOfNaturals
<1> HIDE DEF used
<1>4. used \in 1 .. VARINT_BYTES /\ used \in Nat /\ a + used <= Len(bytes) /\ a + used \in Nat
      /\ At(bytes, a + used - 1) < 128
  BY <1>2, <1>3
<1>5. /\ s \in Seq(Byte) /\ Len(s) = used
      /\ \A k \in 1 .. used : s[k] = bytes[a + k]
  <2> DEFINE b == a + used
  <2>a. b \in Nat /\ b <= Len(bytes) /\ s = Slice(bytes, a, b)
    BY <1>4
  <2> HIDE DEF b, s
  <2>1. /\ s \in Seq(Byte)
        /\ Len(s) = IF a <= b THEN b - a ELSE 0
        /\ \A k \in 1 .. b - a : s[k] = bytes[a + k]
    BY <2>a, SliceIs
  <2> USE DEF b
  <2> QED BY <1>4, <2>1
<1>6. s[used] < 128
  BY <1>4, <1>5 DEF At
<1>7. ASSUME NEW k \in 1 .. used - 1 PROVE s[k] >= 128
  <2>1. k \notin ends
    BY <1>3, <1>4
  <2>2. k \in 1 .. VARINT_BYTES /\ a + k <= Len(bytes) /\ bytes[a + k] \in Int
    BY <1>2, <1>4
  <2>3. ~ (At(bytes, a + k - 1) < 128)
    BY <2>1, <2>2
  <2>4. At(bytes, a + k - 1) = bytes[a + k]
    BY <2>2 DEF At
  <2>5. s[k] = bytes[a + k]
    BY <1>4, <1>5
  <2> QED BY <2>2, <2>3, <2>4, <2>5
<1>8. IsVarint(s)
  <2> HIDE DEF s
  <2> QED BY <1>4, <1>5, <1>6, <1>7 DEF IsVarint
<1>9. VarintValue(s) \in Nat
  <2> HIDE DEF s
  <2> QED BY <1>2, <1>4, <1>5, VarintIsNat
<1>10. The(read_varint(bytes, a)) = r /\ r.used = used /\ r.value = VarintValue(s)
  BY <1>1 DEF The, Found
<1> HIDE DEF r, s, ends
<1> QED BY <1>1, <1>4, <1>8, <1>9, <1>10 DEF s

-----------------------------------------------------------------------------
(* The framings.                                                           *)

\* What is a run of AfterIndex is IndexEnds.
AreIndexEnds(g, bytes, offset, count) ==
    g = [k \in 0 .. count |-> IF k = 0 THEN Found(offset) ELSE AfterIndex(bytes, g[k - 1])]

LEMMA IndexEndsAre ==
    ASSUME NEW bytes, NEW offset, NEW count \in Nat, NEW g, AreIndexEnds(g, bytes, offset, count)
    PROVE  IndexEnds(bytes, offset, count) = g
PROOF
<1>g. g = [k \in 0 .. count |-> IF k = 0 THEN Found(offset) ELSE AfterIndex(bytes, g[k - 1])]
  BY Zenon DEF AreIndexEnds
<1> DEFINE h == IndexEnds(bytes, offset, count)
<1>1. h = [k \in 0 .. count |-> IF k = 0 THEN Found(offset) ELSE AfterIndex(bytes, h[k - 1])]
  <2>1. h = CHOOSE f : f = [k \in 0 .. count |->
                              IF k = 0 THEN Found(offset) ELSE AfterIndex(bytes, f[k - 1])]
    BY DEF IndexEnds
  <2> HIDE DEF h
  <2> QED BY <2>1
<1> HIDE DEF h
<1> DEFINE Good == {k \in Nat : k <= count => h[k] = g[k]}
<1>2. 0 \in Good
  BY <1>1, <1>g
<1>3. ASSUME NEW k \in Nat, k \in Good PROVE k + 1 \in Good
  <2> SUFFICES ASSUME k + 1 <= count PROVE h[k + 1] = g[k + 1]
    OBVIOUS
  <2>1. h[k] = g[k] /\ k + 1 \in 0 .. count /\ k + 1 # 0 /\ (k + 1) - 1 = k
    BY <1>3
  <2>2. h[k + 1] = AfterIndex(bytes, h[(k + 1) - 1])
    BY <1>1, <2>1
  <2>3. g[k + 1] = AfterIndex(bytes, g[(k + 1) - 1])
    BY <1>g, <2>1
  <2> QED BY <2>1, <2>2, <2>3
<1>4. \A k \in Nat : k \in Good
  <2> HIDE DEF Good
  <2> QED BY <1>2, <1>3, CountUp
<1>5. ASSUME NEW k \in 0 .. count PROVE h[k] = g[k]
  <2>1. k \in Nat /\ k <= count
    OBVIOUS
  <2>2. k \in Good
    <3> HIDE DEF Good
    <3> QED BY <1>4, <2>1
  <2> QED BY <2>1, <2>2
<1>6. h = g
  BY <1>1, <1>5, <1>g
<1> QED BY <1>6 DEF h

\* A number is read with its sign.
LEMMA ZigzagIs == ASSUME NEW n \in Nat PROVE zigzag_decode(2 * n) = n
BY DEF zigzag_decode

\* A path that a producer wrote is the one that is read.
LEMMA PathIsRead ==
    ASSUME NEW bytes \in Seq(Byte), NEW start \in Nat, NEW end \in Nat, end <= Len(bytes),
           NEW path \in Seq(0 .. INDEX_MAX), NEW ends \in [0 .. Len(path) -> start .. end],
           \A k \in 1 .. Len(path) : IsNumber(Slice(bytes, ends[k - 1], ends[k]), path[k])
    PROVE  ReadPath(bytes, ends[0], Len(path)) = Found(Header(bytes, path, ends[Len(path)]))
PROOF
<1> DEFINE count == Len(path)
           g == [k \in 0 .. count |-> Found(ends[k])]
<1>1. count \in Nat /\ path = [k \in 1 .. count |-> path[k]] /\ INDEX_MAX \in Nat
  BY ASequenceIs, WireFormatAssumption
<1>2. \A k \in 0 .. count : ends[k] \in Nat /\ ends[k] <= Len(bytes)
  BY <1>1, BytesAre
<1>3. ASSUME NEW k \in 1 .. count
      PROVE  /\ AfterIndex(bytes, Found(ends[k - 1])) = Found(ends[k])
             /\ IndexAt(bytes, ends[k - 1]) = path[k]
  <2> DEFINE a == ends[k - 1]
             b == ends[k]
  <2>1. a \in Nat /\ b \in Nat /\ b <= Len(bytes)
    BY <1>1, <1>2
  <2>2. IsVarint(Slice(bytes, a, b)) /\ VarintValue(Slice(bytes, a, b)) = 2 * path[k]
    BY DEF IsNumber
  <2>3. path[k] \in 0 .. INDEX_MAX
    BY <1>1
  <2> HIDE DEF a, b
  <2>4. /\ a < b
        /\ read_varint(bytes, a) = Found([value |-> VarintValue(Slice(bytes, a, b)), used |-> b - a])
    BY <2>1, <2>2, NumberIsRead
  <2>5. zigzag_decode(VarintValue(Slice(bytes, a, b))) = path[k]
    <3>1. path[k] \in Nat
      BY <2>3
    <3>2. zigzag_decode(2 * path[k]) = path[k]
      BY <3>1, ZigzagIs, Zenon
    <3> QED BY <2>2, <3>2
  <2>6. /\ read_varint(bytes, a) # NoResult
        /\ The(read_varint(bytes, a)).value = VarintValue(Slice(bytes, a, b))
        /\ The(read_varint(bytes, a)).used = b - a
    BY <2>4 DEF The, Found, NoResult
  <2>7. a + (b - a) = b /\ path[k] \in - INDEX_MAX - 1 .. INDEX_MAX
    BY <1>1, <2>1, <2>3
  <2>8. IndexAt(bytes, a) = path[k]
    BY <2>5, <2>6 DEF IndexAt
  <2>9. Found(a) # NoResult /\ The(Found(a)) = a
    BY DEF Found, NoResult, The
  <2>10. AfterIndex(bytes, Found(a)) = Found(b)
    BY <2>5, <2>6, <2>7, <2>9 DEF AfterIndex
  <2> QED BY <2>8, <2>10 DEF a, b
<1>4. AreIndexEnds(g, bytes, ends[0], count)
  <2>1. ASSUME NEW k \in 0 .. count
        PROVE  Found(ends[k]) = IF k = 0 THEN Found(ends[0]) ELSE AfterIndex(bytes, g[k - 1])
    <3>1. CASE k = 0
      BY <3>1
    <3>2. CASE k # 0
      <4>1. k \in 1 .. count /\ k - 1 \in 0 .. count
        BY <1>1, <3>2
      <4>2. g[k - 1] = Found(ends[k - 1])
        BY <4>1
      <4> QED BY <1>3, <3>2, <4>1, <4>2
    <3> QED BY <3>1, <3>2
  <2>2. g = [k \in 0 .. count |-> Found(ends[k])]
    OBVIOUS
  <2> HIDE DEF g
  <2>3. g = [k \in 0 .. count |-> IF k = 0 THEN Found(ends[0]) ELSE AfterIndex(bytes, g[k - 1])]
    BY <2>1, <2>2
  <2> QED BY <2>3, Zenon DEF AreIndexEnds
<1> HIDE DEF g
<1>5. IndexEnds(bytes, ends[0], count) = g
  BY <1>1, <1>4, IndexEndsAre
<1>6. \A k \in 0 .. count : g[k] # NoResult /\ The(g[k]) = ends[k]
  BY DEF g, Found, The, NoResult
<1>7. [k \in 1 .. count |-> IndexAt(bytes, The(g[k - 1]))] = path
  <2>1. \A k \in 1 .. count : IndexAt(bytes, The(g[k - 1])) = path[k]
    BY <1>1, <1>3, <1>6
  <2>2. [k \in 1 .. count |-> IndexAt(bytes, The(g[k - 1]))] = [k \in 1 .. count |-> path[k]]
    BY <2>1, Zenon
  <2> QED BY <1>1, <2>2, Zenon
<1>8. count \in 0 .. count
  BY <1>1
<1> HIDE DEF count
<1>9. ReadPath(bytes, ends[0], count) = Found(Header(bytes, path, ends[count]))
  BY <1>5, <1>6, <1>7, <1>8 DEF ReadPath
<1> QED BY <1>9 DEF count

\* The single byte 0 is read as a zero.
LEMMA ZeroIsRead ==
    ASSUME NEW bytes \in Seq(Byte), NEW a \in Nat, a + 1 <= Len(bytes), Slice(bytes, a, a + 1) = << 0 >>
    PROVE  read_varint(bytes, a) = Found([value |-> 0, used |-> 1])
PROOF
<1> DEFINE z == <<0>>
           f == [k \in 1 .. 1 |-> Group(z[k], 7 * (k - 1))]
<1>1. VARINT_BYTES \in Nat \ {0} /\ WORD_BITS \in Nat
  BY WireFormatAssumption
<1>2. IsVarint(z)
  BY <1>1 DEF IsVarint
<1>3. Group(0, 0) = 0
  <2>1. Min({7, WORD_BITS - 0}) = IF 7 <= WORD_BITS - 0 THEN 7 ELSE WORD_BITS - 0
    BY <1>1, MinOfTwo
  <2>2. Min({7, WORD_BITS - 0}) \in Nat
    BY <1>1, <2>1
  <2> DEFINE x == 2 ^ Min({7, WORD_BITS - 0})
             y == 2 ^ 0
  <2>3. x \in Nat /\ x > 0 /\ y \in Nat
    BY <2>2, PowerOfTwo
  <2>4. Group(0, 0) = (0 % x) * y
    BY DEF Group
  <2> HIDE DEF x, y
  <2>5. 0 % x = 0
    BY <2>3
  <2> QED BY <2>3, <2>4, <2>5
<1>4. VarintValue(z) = 0
  <2>1. DOMAIN f = {1} /\ f[1] = 0
    BY <1>3
  <2>2. VarintValue(z) = SumFunction(f)
    BY DEF VarintValue
  <2> HIDE DEF f
  <2>3. SumFunction(f) = f[1]
    BY <2>1, SumOfOne
  <2> QED BY <2>1, <2>2, <2>3
<1> HIDE DEF z
<1> DEFINE b == a + 1
<1>5. b \in Nat /\ b <= Len(bytes) /\ b - a = 1 /\ Slice(bytes, a, b) = z
  BY DEF z
<1> HIDE DEF b
<1> QED BY <1>2, <1>4, <1>5, NumberIsRead

\* What a producer of Protobuf put before a message is read as it was written.
LEMMA HeaderIsRead ==
    ASSUME NEW p \in Payloads, p.frame = "protobuf"
    PROVE  /\ detect_confluent_header(p.bytes) = Found(Header(p.bytes, p.path, Len(p.bytes) - Len(p.body)))
           /\ p.path = <<0>> \/ (p.path \in Seq(0 .. INDEX_MAX) /\ p.path # <<>>)
           /\ From(p.bytes, Len(p.bytes) - Len(p.body)) = p.body
PROOF
<1> DEFINE start == Len(p.bytes) - Len(p.body)
           bytes == p.bytes
           path == p.path
<1>1. /\ bytes \in Seq(Byte) /\ p.body \in Seq(Byte)
      /\ start >= 5 /\ bytes[1] = 0 /\ p.body = From(bytes, start)
      /\ IsPathFrom(path, bytes, 5, start)
  BY SchemaDecodingAssumption DEF IsPayload
<1>2. Len(bytes) \in Nat /\ Len(p.body) \in Nat
  BY <1>1, ASequenceIs
<1>3. start \in Nat /\ start <= Len(bytes) /\ Len(bytes) >= 5
  <2> DEFINE n == Len(p.bytes)
             m == Len(p.body)
  <2>1. n \in Nat /\ m \in Nat /\ n - m >= 5
    BY <1>1, <1>2
  <2> HIDE DEF n, m
  <2>2. n - m \in Nat /\ n - m <= n /\ n >= 5
    BY <2>1
  <2> QED BY <2>2 DEF n, m
<1> HIDE DEF start, bytes, path
<1>4. detect_wire_format(bytes) # NoResult
  BY <1>1, <1>2, <1>3 DEF detect_wire_format, Found, NoResult
<1>5. CASE path = <<0>> /\ Slice(bytes, 5, start) = <<0>>
  <2>1. Len(Slice(bytes, 5, start)) = 1
    BY <1>5
  <2>2. start = 6
    <3>1. Len(Slice(bytes, 5, start)) = IF 5 <= start THEN start - 5 ELSE 0
      BY <1>1, <1>3, SliceIs
    <3>2. 5 <= start /\ start \in Int
      BY <1>1, <1>3
    <3>3. start - 5 = 1
      BY <2>1, <3>1, <3>2
    <3> QED BY <3>2, <3>3
  <2>3. read_varint(bytes, 5) = Found([value |-> 0, used |-> 1])
    BY <1>1, <1>3, <1>5, <2>2, ZeroIsRead
  <2>4. /\ read_varint(bytes, 5) # NoResult
        /\ The(read_varint(bytes, 5)).value = 0 /\ The(read_varint(bytes, 5)).used = 1
    BY <2>3 DEF Found, The, NoResult
  <2>5. detect_confluent_header(bytes) = Found(Header(bytes, path, start))
    BY <1>4, <1>5, <2>2, <2>4 DEF detect_confluent_header
  <2> QED BY <1>1, <1>5, <2>5 DEF start, bytes, path
<1>6. CASE /\ path \in Seq(0 .. INDEX_MAX) /\ Len(path) \in 1 .. 32
           /\ \E ends \in [0 .. Len(path) -> 5 .. start] :
                 /\ IsNumber(Slice(bytes, 5, ends[0]), Len(path))
                 /\ \A k \in 1 .. Len(path) : IsNumber(Slice(bytes, ends[k - 1], ends[k]), path[k])
                 /\ ends[Len(path)] = start
  <2>1. PICK ends \in [0 .. Len(path) -> 5 .. start] :
                 /\ IsNumber(Slice(bytes, 5, ends[0]), Len(path))
                 /\ \A k \in 1 .. Len(path) : IsNumber(Slice(bytes, ends[k - 1], ends[k]), path[k])
                 /\ ends[Len(path)] = start
    BY <1>6
  <2>2. ReadPath(bytes, ends[0], Len(path)) = Found(Header(bytes, path, start))
    <3>1. /\ path \in Seq(0 .. INDEX_MAX) /\ ends \in [0 .. Len(path) -> 5 .. start]
          /\ \A k \in 1 .. Len(path) : IsNumber(Slice(bytes, ends[k - 1], ends[k]), path[k])
      BY <1>6, <2>1
    <3>2. ReadPath(bytes, ends[0], Len(path)) = Found(Header(bytes, path, ends[Len(path)]))
      <4> HIDE DEF start
      <4>1. 5 \in Nat
        OBVIOUS
      <4> QED BY <1>1, <1>3, <3>1, <4>1, PathIsRead, Zenon
    <3> QED BY <2>1, <3>2
  <2> DEFINE n == Len(path)
             b == ends[0]
  <2>3. b \in Nat /\ b <= Len(bytes) /\ n \in 1 .. 32
    BY <1>2, <1>3, <1>6
  <2>4. IsVarint(Slice(bytes, 5, b)) /\ VarintValue(Slice(bytes, 5, b)) = 2 * n
    BY <2>1 DEF IsNumber
  <2>5. ReadPath(bytes, b, n) = Found(Header(bytes, path, start))
    BY <2>2
  <2> HIDE DEF n, b
  <2>6. read_varint(bytes, 5) = Found([value |-> VarintValue(Slice(bytes, 5, b)), used |-> b - 5])
    BY <1>1, <2>3, <2>4, NumberIsRead
  <2>7. /\ read_varint(bytes, 5) # NoResult
        /\ The(read_varint(bytes, 5)).value = 2 * n /\ 5 + The(read_varint(bytes, 5)).used = b
    BY <2>3, <2>4, <2>6 DEF Found, The, NoResult
  <2>8. 2 * n # 0 /\ zigzag_decode(2 * n) = n /\ ~ (n < 0 \/ n > 32)
    <3>1. n \in Nat
      BY <2>3
    <3>2. zigzag_decode(2 * n) = n
      BY <3>1, ZigzagIs, Zenon
    <3> QED BY <2>3, <3>2
  <2>9. detect_confluent_header(bytes) = Found(Header(bytes, path, start))
    BY <1>4, <2>5, <2>7, <2>8 DEF detect_confluent_header
  <2>10. path # <<>>
    <3>1. Len(path) # 0
      <4>1. n # 0
        BY <2>3
      <4> QED BY <4>1 DEF n
    <3>2. Len(<<>>) = 0
      OBVIOUS
    <3> QED BY <3>1, <3>2, Zenon
  <2> QED BY <1>1, <1>6, <2>9, <2>10 DEF start, bytes, path
<1> QED BY <1>1, <1>5, <1>6 DEF IsPathFrom

\* What is decided of an Avro payload is to skip the header, or nothing at all.
LEMMA AvroFramingDecides ==
    ASSUME NEW bytes, NEW manual \in BOOLEAN, NEW registry \in BOOLEAN
    PROVE  LET s == decide_decode_strategy("avro", bytes, manual, registry)
           IN  s.kind = "registry" => s.offset = 5 /\ ~ detect_container_file(bytes)
BY DEF decide_decode_strategy, decide_avro_strategy, Strategy

\* What is decided of a Protobuf payload whose header is read is what that says.
LEMMA HeaderDecides ==
    ASSUME NEW bytes, NEW manual \in BOOLEAN, NEW registry \in BOOLEAN, NEW path, NEW start,
           detect_confluent_header(bytes) = Found(Header(bytes, path, start)),
           NEW s, s = decide_decode_strategy("protobuf", bytes, manual, registry)
    PROVE  s.offset = start /\ s.path = path
PROOF
<1>1. /\ detect_confluent_header(bytes) # NoResult
      /\ The(detect_confluent_header(bytes)).body_offset = start
      /\ The(detect_confluent_header(bytes)).message_index = path
  BY DEF Found, NoResult, The, Header
<1>2. PICK kind : s = Strategy(kind, start, path)
  BY <1>1 DEF decide_decode_strategy, decide_protobuf_strategy
<1> QED BY <1>2 DEF Strategy

\* A command that has shown its payload.
LEMMA AShownView ==
    ASSUME SchemaIInv, NEW v \in Viewers, Shown(v)
    PROVE  /\ DecidedView(view[v]) /\ HasItsText(view[v], clients) /\ HasItsMessage(view[v])
           /\ view[v].strategy.kind # "failed" =>
                 \E manual, registry \in BOOLEAN :
                     view[v].strategy = decide_decode_strategy(view[v].format, view[v].payload.bytes, manual, registry)
PROOF
<1>1. DecidedView(view[v]) /\ HasItsText(view[v], clients) /\ HasItsMessage(view[v])
  BY ADecidedView DEF Shown, Stages
<1> QED BY <1>1 DEF DecidedView, Strategy

\* A framing that is recognised is stripped, whoever supplies the schema.
LEMMA FramingHolds == SchemaIInv => FramingIsStripped
PROOF
<1> SUFFICES ASSUME SchemaIInv, NEW v \in Viewers, Shown(v), view[v].payload.frame = view[v].format
             PROVE  LET s == view[v].strategy
                    IN  /\ s.kind \in {"registry", "raw"} \/ (s.kind = "manual" /\ view[v].format = "protobuf")
                              => From(view[v].payload.bytes, s.offset) = view[v].payload.body
                        /\ s.kind \in {"registry", "manual"} /\ view[v].format = "protobuf"
                              => s.path = view[v].payload.path
  BY DEF FramingIsStripped
<1> DEFINE s == view[v].strategy
           p == view[v].payload
           format == view[v].format
<1>1. DecidedView(view[v]) /\ p \in Payloads /\ format \in Formats
  BY AShownView DEF DecidedView
<1>2. SUFFICES ASSUME s.kind \in {"registry", "raw", "manual"}
               PROVE  /\ s.kind = "registry" \/ format = "protobuf" => From(p.bytes, s.offset) = p.body
                      /\ format = "protobuf" => s.path = p.path
                      /\ format = "avro" => s.kind # "raw"
  BY <1>1 DEF Formats
<1>3. PICK manual, registry \in BOOLEAN :
         s = decide_decode_strategy(format, p.bytes, manual, registry)
  BY <1>2, AShownView
<1>4. p.frame = format
  OBVIOUS
<1> HIDE DEF s, p, format
<1>5. CASE format = "avro"
  <2>1. s.kind # "raw"
    BY <1>1, <1>3, <1>5, Decisions
  <2>2. s.kind = "registry" => s.offset = 5
    BY <1>3, <1>5, AvroFramingDecides
  <2>3. From(p.bytes, 5) = p.body
    BY <1>1, <1>4, <1>5, SchemaDecodingAssumption DEF IsPayload
  <2> QED BY <1>5, <2>1, <2>2, <2>3
<1>6. CASE format = "protobuf"
  <2> DEFINE start == Len(p.bytes) - Len(p.body)
  <2>1. /\ detect_confluent_header(p.bytes) = Found(Header(p.bytes, p.path, start))
        /\ From(p.bytes, start) = p.body
    BY <1>1, <1>4, <1>6, HeaderIsRead
  <2> HIDE DEF start
  <2>2. s.offset = start /\ s.path = p.path
    <3>1. s = decide_decode_strategy("protobuf", p.bytes, manual, registry)
      BY <1>3, <1>6
    <3> QED BY <2>1, <3>1, HeaderDecides
  <2> QED BY <1>6, <2>1, <2>2
<1> QED BY <1>1, <1>5, <1>6 DEF Formats
-----------------------------------------------------------------------------
(* The messages of a file.                                                 *)

\* The first indexes of a path.
LEMMA PathGrows ==
    ASSUME NEW path \in Seq(Nat), NEW k \in 1 .. Len(path)
    PROVE  /\ SubSeq(path, 1, k - 1) \in Seq(Nat) /\ Len(SubSeq(path, 1, k - 1)) = k - 1
           /\ SubSeq(path, 1, k) = Append(SubSeq(path, 1, k - 1), path[k])
           /\ IsPrefix(SubSeq(path, 1, k - 1), SubSeq(path, 1, k))
           /\ Last(SubSeq(path, 1, k)) = path[k] /\ Len(SubSeq(path, 1, k)) = k
PROOF
<1> DEFINE q == SubSeq(path, 1, k - 1)
           m == SubSeq(path, 1, k)
<1>1. q \in Seq(Nat) /\ Len(q) = k - 1 /\ m \in Seq(Nat) /\ Len(m) = k
      /\ path[k] \in Nat
  OBVIOUS
<1>2. m = Append(q, path[k])
  OBVIOUS
<1>3. m[k] = path[k]
  OBVIOUS
<1>4. SubSeq(m, 1, k - 1) = q
  OBVIOUS
<1>5. SubSeq(q, 1, k - 1) = q
  OBVIOUS
<1> HIDE DEF q, m
<1>6. IsPrefix(q, m)
  BY <1>1, <1>4, <1>5 DEF IsPrefix
<1> QED BY <1>1, <1>2, <1>3, <1>6 DEF Last, q, m

\* A message with a path of one index more.
LEMMA AChildIs ==
    ASSUME NEW q \in Seq(Nat), NEW m \in Seq(Nat), Len(m) = Len(q) + 1, IsPrefix(q, m)
    PROVE  m = Append(q, Last(m))
PROOF
<1>1. SubSeq(q, 1, Len(q)) = q
  OBVIOUS
<1>2. \A k \in 1 .. Len(q) : m[k] = q[k]
  BY <1>1 DEF IsPrefix
<1> QED BY <1>2 DEF Last

\* message_at finds the messages of a file, and nothing else.
LEMMA MessagesAreFound ==
    ASSUME NEW declared, IsFileOfMessages(declared), NEW path \in Seq(Nat), path # <<>>
    PROVE  message_at(declared, path) = IF path \in declared THEN Found(path) ELSE NoResult
PROOF
<1> DEFINE up(k) == SubSeq(path, 1, k)
           there(k) == path[k] \in 0 .. Cardinality(Children(declared, up(k - 1))) - 1
<1>1. Len(path) \in Nat \ {0} /\ up(0) = <<>> /\ up(Len(path)) = path
  OBVIOUS
<1>2. /\ declared \subseteq Seq(Nat)
      /\ \A m \in declared : \A n \in 1 .. Len(m) : SubSeq(m, 1, n) \in declared
      /\ \A q \in declared \union {<<>>} :
            {Last(m) : m \in Children(declared, q)} = 0 .. Cardinality(Children(declared, q)) - 1
  BY DEF IsFileOfMessages
<1>3. ASSUME path \in declared, NEW k \in 1 .. Len(path) PROVE there(k)
  <2>1. up(k - 1) \in declared \union {<<>>}
    <3>1. CASE k = 1
      BY <1>1, <3>1
    <3>2. CASE k # 1
      <4>1. k - 1 \in 1 .. Len(path)
        BY <1>1, <3>2
      <4> QED BY <1>2, <1>3, <4>1
    <3> QED BY <3>1, <3>2
  <2>2. up(k) \in declared
    BY <1>2, <1>3
  <2>3. up(k) \in Children(declared, up(k - 1)) /\ Last(up(k)) = path[k]
    BY <2>2, PathGrows DEF Children
  <2> HIDE DEF up
  <2> QED BY <1>2, <2>1, <2>3
<1>4. ASSUME \A k \in 1 .. Len(path) : there(k) PROVE path \in declared
  <2> DEFINE Good == {k \in Nat : k <= Len(path) => up(k) \in declared \union {<<>>}}
  <2>1. 0 \in Good
    BY <1>1
  <2>2. ASSUME NEW k \in Nat, k \in Good, k + 1 <= Len(path)
        PROVE  up(k + 1) \in declared
    <3> DEFINE j == k + 1
    <3>1. j \in 1 .. Len(path) /\ j - 1 = k
      BY <1>1, <2>2
    <3>2. up(j - 1) \in declared \union {<<>>}
      BY <1>1, <2>2, <3>1
    <3>3. there(j)
      BY <1>4, <3>1
    <3> HIDE DEF j
    <3>4. PICK m \in Children(declared, up(j - 1)) : Last(m) = path[j]
      <4> HIDE DEF up
      <4> QED BY <1>2, <3>2, <3>3
    <3>5. /\ up(j - 1) \in Seq(Nat) /\ up(j) = Append(up(j - 1), path[j])
      BY <3>1, PathGrows
    <3>6. m \in declared /\ m \in Seq(Nat) /\ Len(m) = Len(up(j - 1)) + 1 /\ IsPrefix(up(j - 1), m)
      BY <1>2, <3>4 DEF Children
    <3> HIDE DEF up
    <3>7. m = up(j)
      BY <3>4, <3>5, <3>6, AChildIs
    <3> QED BY <3>6, <3>7 DEF j
  <2>3. \A k \in Nat : k \in Good
    <3>1. ASSUME NEW k \in Nat, k \in Good PROVE k + 1 \in Good
      <4> HIDE DEF up
      <4> QED BY <2>2, <3>1
    <3> HIDE DEF Good
    <3> QED BY <2>1, <3>1, CountUp
  <2>4. Len(path) \in Good
    <3> HIDE DEF Good
    <3> QED BY <1>1, <2>3
  <2>5. up(Len(path)) \in declared \union {<<>>}
    BY <1>1, <2>4
  <2> QED BY <1>1, <2>5
<1>5. DOMAIN path = 1 .. Len(path)
  OBVIOUS
<1>6. path \in declared <=> \A k \in DOMAIN path : there(k)
  <2> HIDE DEF there
  <2> QED BY <1>3, <1>4, <1>5
<1> QED BY <1>6 DEF message_at

\* The one message of a file is its first.
LEMMA TheSoleMessage ==
    ASSUME NEW declared, IsFileOfMessages(declared)
    PROVE  LET sole == {m \in declared : Len(m) = 1}
           IN  sole_message(declared) = IF Cardinality(sole) = 1
                                        THEN Found(CHOOSE m \in sole : TRUE) ELSE NoResult
PROOF
<1> DEFINE sole == {m \in declared : Len(m) = 1}
<1>1. declared \subseteq Seq(Nat)
  BY DEF IsFileOfMessages
<1>2. Children(declared, <<>>) = sole
  <2>1. ASSUME NEW m \in declared PROVE (Len(m) = Len(<<>>) + 1 /\ IsPrefix(<<>>, m)) <=> Len(m) = 1
    <3>1. m \in Seq(Nat)
      BY <1>1
    <3>2. SubSeq(<<>>, 1, 0) = <<>> /\ SubSeq(m, 1, 0) = <<>> /\ Len(<<>>) = 0
      BY <3>1
    <3> QED BY <3>1, <3>2 DEF IsPrefix
  <2> QED BY <2>1 DEF Children
<1>3. {Last(m) : m \in Children(declared, <<>>)} = 0 .. Cardinality(Children(declared, <<>>)) - 1
  BY DEF IsFileOfMessages
<1>4. ASSUME Cardinality(sole) = 1 PROVE (CHOOSE m \in sole : TRUE) = <<0>>
  <2>1. {Last(m) : m \in sole} = 0 .. 0
    <3>1. {Last(m) : m \in sole} = 0 .. 1 - 1
      BY <1>2, <1>3, <1>4
    <3> QED BY <3>1
  <2>2. ASSUME NEW m \in sole PROVE m = <<0>>
    <3>1. Last(m) \in 0 .. 0
      BY <2>1
    <3>2. m \in Seq(Nat) /\ Len(m) = 1
      BY <1>1
    <3>3. m[1] = 0
      BY <3>1, <3>2 DEF Last
    <3> QED BY <3>2, <3>3
  <2>3. sole # {}
    BY <2>1
  <2> HIDE DEF sole
  <2> QED BY <2>2, <2>3
<1>5. CASE Cardinality(sole) = 1
  BY <1>2, <1>4, <1>5 DEF sole_message
<1>6. CASE Cardinality(sole) # 1
  BY <1>2, <1>6 DEF sole_message
<1> QED BY <1>5, <1>6

\* A message is decoded as the one its producer named.
LEMMA MessageHolds == SchemaIInv => ReadAsTheMessageNamed
PROOF
<1> SUFFICES ASSUME SchemaIInv, NEW v \in Viewers, Shown(v),
                    view[v].format = "protobuf", view[v].payload.frame = "protobuf",
                    view[v].strategy.kind \in {"registry", "manual"}
             PROVE  LET path == view[v].payload.path
                        declared == Declares(view[v].text)
                        messages == IF declared = NoResult THEN {} ELSE The(declared)
                        sole == {m \in messages : Len(m) = 1}
                    IN  view[v].message =
                        CASE path \in messages -> Found(path)
                          [] path \notin messages /\ view[v].strategy.kind = "manual"
                                /\ Cardinality(sole) = 1 -> Found(CHOOSE m \in sole : TRUE)
                          [] OTHER -> NoResult
  BY DEF ReadAsTheMessageNamed
<1> DEFINE c == view[v]
           path == c.payload.path
           messages == IF Declares(c.text) = NoResult THEN {} ELSE The(Declares(c.text))
           sole == {m \in messages : Len(m) = 1}
           manual == c.strategy.kind = "manual"
           expected == IF path \in messages THEN Found(path)
                       ELSE IF manual /\ Cardinality(sole) = 1 THEN Found(CHOOSE m \in sole : TRUE)
                       ELSE NoResult
<1>1. SUFFICES c.message = expected
  OBVIOUS
<1>2. DecidedView(c) /\ HasItsText(c, clients) /\ HasItsMessage(c) /\ c.at = "done"
  BY AShownView DEF Shown
<1>3. c.strategy.path = path
  BY FramingHolds DEF FramingIsStripped
<1>4. c.message = IF Declares(c.text) = NoResult THEN NoResult ELSE resolve_message(c.text, path)
  BY <1>2, <1>3 DEF HasItsMessage
<1>5. path \in Seq(Nat) /\ path # <<>>
  <2>1. c.payload \in Payloads
    BY <1>2 DEF DecidedView
  <2>2. path = <<0>> \/ (path \in Seq(0 .. INDEX_MAX) /\ path # <<>>)
    BY <2>1, HeaderIsRead
  <2>3. 0 .. INDEX_MAX \subseteq Nat
    BY WireFormatAssumption
  <2> HIDE DEF path
  <2>4. path \in Seq(0 .. INDEX_MAX) => path \in Seq(Nat)
    BY <2>3, SeqGrows
  <2>5. <<0>> \in Seq(Nat) /\ <<0>> # <<>>
    OBVIOUS
  <2> QED BY <2>2, <2>4, <2>5
<1>6. c.text \in Texts /\ (c.text.origin = "pasted" <=> manual)
  <2>1. CASE manual
    BY <1>2, <2>1 DEF HasItsText
  <2>2. CASE ~ manual
    <3>1. /\ c.strategy.kind = "registry" /\ c.endpoint \in Endpoints
          /\ c.text = Text(c.endpoint, SchemaId(c.payload.bytes))
      BY <1>2, <2>2 DEF HasItsText, DecidedView
    <3>2. c.text \in Texts
      BY <1>2, <3>1, ADecidedView DEF Stages
    <3>3. c.text.origin = c.endpoint
      BY <3>1 DEF Text
    <3> QED BY <2>2, <3>1, <3>2, <3>3, SchemaDecodingAssumption
  <2> QED BY <2>1, <2>2
<1> HIDE DEF c, path, manual
<1>7. CASE Declares(c.text) = NoResult
  <2>1. messages = {} /\ sole = {}
    BY <1>7
  <2>2. Cardinality(sole) # 1
    BY <2>1, FS_EmptySet
  <2> HIDE DEF sole, messages
  <2> QED BY <1>4, <1>7, <2>1, <2>2
<1>8. CASE Declares(c.text) # NoResult
  <2>1. messages = The(Declares(c.text)) /\ IsFileOfMessages(messages)
    BY <1>6, <1>8, SchemaDecodingAssumption
  <2> HIDE DEF messages
  <2>2. message_at(messages, path) = IF path \in messages THEN Found(path) ELSE NoResult
    BY <1>5, <2>1, MessagesAreFound
  <2>3. sole_message(messages) = IF Cardinality(sole) = 1 THEN Found(CHOOSE m \in sole : TRUE) ELSE NoResult
    BY <2>1, TheSoleMessage
  <2>4. Found(path) # NoResult
    BY DEF Found, NoResult
  <2>5. resolve_message(c.text, path)
          = IF message_at(messages, path) = NoResult /\ c.text.origin = "pasted"
            THEN sole_message(messages) ELSE message_at(messages, path)
    BY <2>1 DEF resolve_message
  <2> HIDE DEF sole
  <2> DEFINE one == Found(CHOOSE m \in sole : TRUE)
  <2>6. sole_message(messages) = IF Cardinality(sole) = 1 THEN one ELSE NoResult
    BY <2>3
  <2>7. expected = IF path \in messages THEN Found(path)
                   ELSE IF manual /\ Cardinality(sole) = 1 THEN one ELSE NoResult
    OBVIOUS
  <2> HIDE DEF one, expected
  <2>8. CASE path \in messages
    BY <1>4, <1>8, <2>2, <2>4, <2>5, <2>7, <2>8
  <2>9. CASE path \notin messages
    BY <1>4, <1>6, <1>8, <2>2, <2>5, <2>6, <2>7, <2>9
  <2> QED BY <2>8, <2>9
<1> QED BY <1>7, <1>8

-----------------------------------------------------------------------------
(* The fields of a message.                                                *)

\* Parts of a slice are slices.
LEMMA PartsOfSlice ==
    ASSUME NEW bytes \in Seq(Byte), NEW a \in Nat, NEW b \in Nat, a <= b, b <= Len(bytes),
           NEW k \in 0 .. b - a
    PROVE  /\ SubSeq(Slice(bytes, a, b), 1, k) = Slice(bytes, a, a + k)
           /\ SubSeq(Slice(bytes, a, b), k + 1, Len(Slice(bytes, a, b))) = Slice(bytes, a + k, b)
           /\ Len(Slice(bytes, a, b)) = b - a
PROOF
<1> DEFINE s == Slice(bytes, a, b)
           c == a + k
<1>1. /\ s \in Seq(Byte) /\ Len(s) = b - a
      /\ \A j \in 1 .. b - a : s[j] = bytes[a + j]
  BY SliceIs
<1>2. c \in Nat /\ c <= b /\ c <= Len(bytes) /\ c - a = k /\ Len(bytes) \in Nat
  BY BytesAre
<1> HIDE DEF c
<1>3. /\ Slice(bytes, a, c) \in Seq(Byte) /\ Len(Slice(bytes, a, c)) = k
      /\ \A j \in 1 .. k : Slice(bytes, a, c)[j] = bytes[a + j]
  <2>1. /\ Slice(bytes, a, c) \in Seq(Byte)
        /\ Len(Slice(bytes, a, c)) = IF a <= c THEN c - a ELSE 0
        /\ \A j \in 1 .. c - a : Slice(bytes, a, c)[j] = bytes[a + j]
    BY <1>2, SliceIs
  <2> QED BY <1>2, <2>1
<1>4. /\ Slice(bytes, c, b) \in Seq(Byte) /\ Len(Slice(bytes, c, b)) = b - c
      /\ \A j \in 1 .. b - c : Slice(bytes, c, b)[j] = bytes[c + j]
  <2>1. /\ Slice(bytes, c, b) \in Seq(Byte)
        /\ Len(Slice(bytes, c, b)) = IF c <= b THEN b - c ELSE 0
        /\ \A j \in 1 .. b - c : Slice(bytes, c, b)[j] = bytes[c + j]
    BY <1>2, SliceIs
  <2> QED BY <1>2, <2>1
<1> HIDE DEF s
<1>5. SubSeq(s, 1, k) = Slice(bytes, a, c)
  <2> DEFINE t == Slice(bytes, a, c)
  <2>1. SubSeq(s, 1, k) = [j \in 1 .. k |-> s[j]]
    BY <1>1
  <2>2. t = [j \in 1 .. k |-> t[j]]
    BY <1>3, ASequenceIs
  <2>3. ASSUME NEW j \in 1 .. k PROVE s[j] = t[j]
    <3>1. j \in 1 .. b - a
      BY <1>2
    <3> HIDE DEF t
    <3>2. t[j] = bytes[a + j]
      BY <1>3 DEF t
    <3> QED BY <1>1, <3>1, <3>2
  <2> HIDE DEF t
  <2>4. SubSeq(s, 1, k) = t
    BY <2>1, <2>2, <2>3
  <2> QED BY <2>4 DEF t
<1>6. SubSeq(s, k + 1, Len(s)) = Slice(bytes, c, b)
  <2> DEFINE t == Slice(bytes, c, b)
             u == SubSeq(s, k + 1, Len(s))
  <2>1. u \in Seq(Byte) /\ Len(u) = b - c /\ \A j \in 1 .. b - c : u[j] = s[k + j]
    BY <1>1, <1>2
  <2>2. t = [j \in 1 .. b - c |-> t[j]]
    BY <1>4, ASequenceIs
  <2>3. u = [j \in 1 .. b - c |-> u[j]]
    <3> HIDE DEF u
    <3> QED BY <2>1, ASequenceIs
  <2>4. ASSUME NEW j \in 1 .. b - c PROVE u[j] = t[j]
    <3>1. k + j \in 1 .. b - a /\ a + (k + j) = c + j
      BY <1>2
    <3>2. u[j] = s[k + j]
      BY <2>1
    <3>3. s[k + j] = bytes[a + (k + j)]
      BY <1>1, <3>1
    <3> HIDE DEF u, t
    <3>4. t[j] = bytes[c + j]
      BY <1>4 DEF t
    <3> QED BY <3>1, <3>2, <3>3, <3>4
  <2> HIDE DEF t, u
  <2>5. u = t
    BY <2>2, <2>3, <2>4
  <2> QED BY <2>5 DEF t, u
<1> QED BY <1>1, <1>5, <1>6 DEF s, c

\* A value that was written ends at a place.
EndsAt(bytes, index, type, end) ==
    \/ type = Varint /\ IsVarint(Slice(bytes, index, end))
    \/ type = Fixed64 /\ end = index + 8
    \/ type = Fixed32 /\ end = index + 4
    \/ /\ type = LengthDelimited
       /\ \E n \in 1 .. end - index :
             /\ IsVarint(Slice(bytes, index, index + n))
             /\ VarintValue(Slice(bytes, index, index + n)) = end - index - n

\* Where ValueEnd says that a value ends, it does; nowhere else.
LEMMA ValueEndIs ==
    ASSUME NEW bytes \in Seq(Byte), NEW index \in Nat, NEW type \in WireTypes
    PROVE  /\ \A end \in Nat : end <= Len(bytes) =>
                 (ValueEnd(bytes, index, type) = Found(end) <=> EndsAt(bytes, index, type, end))
           /\ ValueEnd(bytes, index, type) # NoResult =>
                 \E end \in Nat : /\ ValueEnd(bytes, index, type) = Found(end)
                                  /\ index < end /\ end <= Len(bytes)
PROOF
<1> DEFINE v == read_varint(bytes, index)
           fits(end) == IF end > Len(bytes) THEN NoResult ELSE Found(end)
<1>1. Len(bytes) \in Nat
  BY BytesAre
<1>2. \A x, y : (Found(x) = Found(y) <=> x = y) /\ Found(x) # NoResult
  BY DEF Found, NoResult
<1>3. CASE type = Fixed64
  <2>1. ValueEnd(bytes, index, type) = fits(index + 8)
    BY <1>3 DEF ValueEnd
  <2>2. \A end : EndsAt(bytes, index, type, end) <=> end = index + 8
    BY <1>3 DEF EndsAt, Varint, Fixed64, Fixed32, LengthDelimited
  <2> QED BY <1>1, <1>2, <2>1, <2>2
<1>4. CASE type = Fixed32
  <2>1. ValueEnd(bytes, index, type) = fits(index + 4)
    BY <1>4 DEF ValueEnd, Fixed64, Fixed32
  <2>2. \A end : EndsAt(bytes, index, type, end) <=> end = index + 4
    BY <1>4 DEF EndsAt, Varint, Fixed64, Fixed32, LengthDelimited
  <2> QED BY <1>1, <1>2, <2>1, <2>2
<1>5. ASSUME NEW end \in Nat, end <= Len(bytes), IsVarint(Slice(bytes, index, end))
      PROVE  v = Found([value |-> VarintValue(Slice(bytes, index, end)), used |-> end - index])
             /\ index < end
  BY <1>5, NumberIsRead
<1>6. ASSUME v # NoResult
      PROVE  /\ The(v).used \in Nat \ {0} /\ index + The(v).used <= Len(bytes)
             /\ IsVarint(Slice(bytes, index, index + The(v).used))
             /\ The(v).value = VarintValue(Slice(bytes, index, index + The(v).used))
             /\ The(v).value \in Nat
  <2>1. 1 .. VARINT_BYTES \subseteq Nat \ {0}
    BY BytesAre
  <2> QED BY <1>6, <2>1, ReadIsNumber
<1>7. CASE type = Varint
  <2>1. ValueEnd(bytes, index, type) = IF v = NoResult THEN NoResult ELSE Found(index + The(v).used)
    BY <1>7 DEF ValueEnd, Varint, Fixed64, Fixed32
  <2>2. \A end : EndsAt(bytes, index, type, end) <=> IsVarint(Slice(bytes, index, end))
    BY <1>7 DEF EndsAt, Varint, Fixed64, Fixed32, LengthDelimited
  <2>3. ASSUME NEW end \in Nat, end <= Len(bytes), IsVarint(Slice(bytes, index, end))
        PROVE  v # NoResult /\ index + The(v).used = end
    <3>1. v = Found([value |-> VarintValue(Slice(bytes, index, end)), used |-> end - index])
      BY <1>5, <2>3
    <3> HIDE DEF v
    <3>2. v # NoResult /\ The(v).used = end - index
      BY <3>1 DEF Found, The, NoResult
    <3> QED BY <3>2
  <2> HIDE DEF v
  <2>4. ASSUME v # NoResult
        PROVE  index + The(v).used \in Nat /\ index < index + The(v).used
    BY <1>6, <2>4
  <2> QED BY <1>1, <1>2, <1>6, <2>1, <2>2, <2>3, <2>4
<1>8. CASE type = LengthDelimited
  <2> DEFINE stop == index + The(v).used + The(v).value
  <2>1. ValueEnd(bytes, index, type)
          = IF v = NoResult \/ The(v).value > Len(bytes) \/ stop > Len(bytes) THEN NoResult ELSE Found(stop)
    BY <1>8 DEF ValueEnd, Varint, Fixed64, Fixed32, LengthDelimited
  <2>2. \A end : EndsAt(bytes, index, type, end) <=>
           \E n \in 1 .. end - index :
              /\ IsVarint(Slice(bytes, index, index + n))
              /\ VarintValue(Slice(bytes, index, index + n)) = end - index - n
    BY <1>8 DEF EndsAt, Varint, Fixed64, Fixed32, LengthDelimited
  <2>3. ASSUME NEW end \in Nat, end <= Len(bytes), NEW n \in 1 .. end - index,
               IsVarint(Slice(bytes, index, index + n)),
               VarintValue(Slice(bytes, index, index + n)) = end - index - n
        PROVE  v # NoResult /\ stop = end /\ ~ (The(v).value > Len(bytes))
    <3> DEFINE b == index + n
    <3>1. b \in Nat /\ b <= Len(bytes) /\ b - index = n
      BY <1>1, <2>3
    <3>2. IsVarint(Slice(bytes, index, b)) /\ VarintValue(Slice(bytes, index, b)) = end - index - n
      BY <2>3
    <3> HIDE DEF b
    <3>3. v = Found([value |-> VarintValue(Slice(bytes, index, b)), used |-> b - index])
      BY <1>5, <3>1, <3>2
    <3> HIDE DEF v
    <3>4. v # NoResult /\ The(v).used = n /\ The(v).value = end - index - n
      BY <3>1, <3>2, <3>3 DEF Found, The, NoResult
    <3> QED BY <1>1, <2>3, <3>4
  <2> HIDE DEF v
  <2>4. ASSUME v # NoResult, stop <= Len(bytes)
        PROVE  /\ stop \in Nat /\ index < stop
               /\ \E n \in 1 .. stop - index :
                     /\ IsVarint(Slice(bytes, index, index + n))
                     /\ VarintValue(Slice(bytes, index, index + n)) = stop - index - n
    <3> DEFINE n == The(v).used
               value == The(v).value
    <3>1. /\ n \in Nat \ {0} /\ value \in Nat
          /\ IsVarint(Slice(bytes, index, index + n))
          /\ VarintValue(Slice(bytes, index, index + n)) = value
      BY <1>6, <2>4
    <3> HIDE DEF n, value
    <3>2. stop = index + n + value
      BY DEF n, value
    <3>3. n \in 1 .. stop - index /\ value = stop - index - n /\ stop \in Nat /\ index < stop
      BY <3>1, <3>2
    <3> HIDE DEF stop
    <3> QED BY <3>1, <3>3
  <2>5. stop \in Nat \/ v = NoResult
    BY <1>6
  <2> HIDE DEF stop
  <2>6. ASSUME NEW end \in Nat, end <= Len(bytes)
        PROVE  ValueEnd(bytes, index, type) = Found(end) <=> EndsAt(bytes, index, type, end)
    <3>1. ASSUME ValueEnd(bytes, index, type) = Found(end) PROVE EndsAt(bytes, index, type, end)
      <4>1. v # NoResult /\ stop <= Len(bytes) /\ stop = end
        BY <1>1, <1>2, <2>1, <2>5, <3>1
      <4> QED BY <2>2, <2>4, <4>1
    <3>2. ASSUME EndsAt(bytes, index, type, end) PROVE ValueEnd(bytes, index, type) = Found(end)
      <4>1. v # NoResult /\ stop = end /\ ~ (The(v).value > Len(bytes))
        BY <2>2, <2>3, <2>6, <3>2
      <4> QED BY <1>1, <2>1, <2>6, <4>1
    <3> QED BY <3>1, <3>2
  <2>7. ASSUME ValueEnd(bytes, index, type) # NoResult
        PROVE  /\ ValueEnd(bytes, index, type) = Found(stop) /\ stop \in Nat
               /\ index < stop /\ stop <= Len(bytes)
    BY <1>1, <2>1, <2>4, <2>5, <2>7
  <2> QED BY <2>6, <2>7
<1> QED BY <1>3, <1>4, <1>7, <1>8 DEF WireTypes

\* A slice is a field when it is a key with a value behind it.
LEMMA ASliceIsAField ==
    ASSUME NEW bytes \in Seq(Byte), NEW a \in Nat, NEW b \in Nat, a < b, b <= Len(bytes)
    PROVE  IsField(Slice(bytes, a, b)) <=>
             \E k \in 1 .. b - a :
                LET key == Slice(bytes, a, a + k)
                IN  /\ IsVarint(key) /\ VarintValue(key) >= 8
                    /\ EndsAt(bytes, a + k, VarintValue(key) % 8, b)
PROOF
<1> DEFINE s == Slice(bytes, a, b)
<1>1. Len(s) = b - a
  <2>1. Len(s) = IF a <= b THEN b - a ELSE 0
    BY SliceIs
  <2> QED BY <2>1
<1>2. ASSUME NEW k \in 1 .. b - a
      PROVE  /\ SubSeq(s, 1, k) = Slice(bytes, a, a + k)
             /\ SubSeq(s, k + 1, Len(s)) = Slice(bytes, a + k, b)
             /\ Len(Slice(bytes, a + k, b)) = b - (a + k)
             /\ \A n \in 1 .. b - (a + k) :
                   SubSeq(Slice(bytes, a + k, b), 1, n) = Slice(bytes, a + k, (a + k) + n)
  <2> DEFINE c == a + k
  <2>1. c \in Nat /\ c <= b /\ k \in 0 .. b - a
    OBVIOUS
  <2>2. SubSeq(s, 1, k) = Slice(bytes, a, a + k) /\ SubSeq(s, k + 1, Len(s)) = Slice(bytes, a + k, b)
    <3>1. a <= b
      OBVIOUS
    <3> QED BY <2>1, <3>1, PartsOfSlice
  <2> HIDE DEF c
  <2>3. Len(Slice(bytes, c, b)) = b - c
    <3>1. Len(Slice(bytes, c, b)) = IF c <= b THEN b - c ELSE 0
      BY <2>1, SliceIs
    <3> QED BY <2>1, <3>1
  <2>4. ASSUME NEW n \in 1 .. b - c PROVE SubSeq(Slice(bytes, c, b), 1, n) = Slice(bytes, c, c + n)
    <3>1. n \in 0 .. b - c
      OBVIOUS
    <3> QED BY <2>1, <3>1, PartsOfSlice
  <2> QED BY <2>2, <2>3, <2>4 DEF c
<1>3. ASSUME NEW k \in 1 .. b - a
      PROVE  LET key == SubSeq(s, 1, k)
                 rest == SubSeq(s, k + 1, Len(s))
                 type == VarintValue(key) % 8
             IN  ( \/ type = Varint /\ IsVarint(rest)
                   \/ type = Fixed64 /\ Len(rest) = 8
                   \/ type = Fixed32 /\ Len(rest) = 4
                   \/ /\ type = LengthDelimited
                      /\ \E n \in 1 .. Len(rest) :
                            LET length == SubSeq(rest, 1, n)
                            IN  IsVarint(length) /\ VarintValue(length) = Len(rest) - n )
                 <=> EndsAt(bytes, a + k, VarintValue(Slice(bytes, a, a + k)) % 8, b)
  <2> DEFINE c == a + k
             key == Slice(bytes, a, c)
             rest == Slice(bytes, c, b)
             type == VarintValue(key) % 8
  <2>1. c \in Nat /\ c <= b
    OBVIOUS
  <2>2. /\ SubSeq(s, 1, k) = key /\ SubSeq(s, k + 1, Len(s)) = rest /\ Len(rest) = b - c
        /\ \A n \in 1 .. b - c : SubSeq(rest, 1, n) = Slice(bytes, c, c + n)
    BY <1>2
  <2> HIDE DEF s, key, rest, c, type
  <2>3. (Len(rest) = 8 <=> b = c + 8) /\ (Len(rest) = 4 <=> b = c + 4)
    BY <2>1, <2>2
  <2>4. (\E n \in 1 .. Len(rest) : /\ IsVarint(SubSeq(rest, 1, n))
                                   /\ VarintValue(SubSeq(rest, 1, n)) = Len(rest) - n)
        <=> \E n \in 1 .. b - c : /\ IsVarint(Slice(bytes, c, c + n))
                                  /\ VarintValue(Slice(bytes, c, c + n)) = b - c - n
    BY <2>2
  <2>5. ( \/ type = Varint /\ IsVarint(rest)
          \/ type = Fixed64 /\ Len(rest) = 8
          \/ type = Fixed32 /\ Len(rest) = 4
          \/ /\ type = LengthDelimited
             /\ \E n \in 1 .. Len(rest) : /\ IsVarint(SubSeq(rest, 1, n))
                                          /\ VarintValue(SubSeq(rest, 1, n)) = Len(rest) - n )
        <=> EndsAt(bytes, c, type, b)
    BY <2>3, <2>4, Zenon DEF EndsAt, rest
  <2>6. type = VarintValue(SubSeq(s, 1, k)) % 8 /\ rest = SubSeq(s, k + 1, Len(s))
        /\ type = VarintValue(Slice(bytes, a, a + k)) % 8 /\ c = a + k
    BY <2>2 DEF type, key, c
  <2> QED BY <2>5, <2>6, Zenon
<1>4. ASSUME NEW k \in 1 .. b - a PROVE SubSeq(s, 1, k) = Slice(bytes, a, a + k)
  BY <1>2
<1>5. 1 .. Len(s) = 1 .. b - a
  BY <1>1
<1>6. IsField(s) <=> \E k \in 1 .. Len(s) :
        LET key == SubSeq(s, 1, k)
            rest == SubSeq(s, k + 1, Len(s))
            type == VarintValue(key) % 8
        IN  /\ IsVarint(key)
            /\ VarintValue(key) >= 8
            /\ \/ type = Varint /\ IsVarint(rest)
               \/ type = Fixed64 /\ Len(rest) = 8
               \/ type = Fixed32 /\ Len(rest) = 4
               \/ /\ type = LengthDelimited
                  /\ \E n \in 1 .. Len(rest) :
                        LET length == SubSeq(rest, 1, n)
                        IN  IsVarint(length) /\ VarintValue(length) = Len(rest) - n
  BY Zenon DEF IsField
<1> DEFINE holds(k) ==
             LET rest == SubSeq(s, k + 1, Len(s))
                 type == VarintValue(SubSeq(s, 1, k)) % 8
             IN  \/ type = Varint /\ IsVarint(rest)
                 \/ type = Fixed64 /\ Len(rest) = 8
                 \/ type = Fixed32 /\ Len(rest) = 4
                 \/ /\ type = LengthDelimited
                    /\ \E n \in 1 .. Len(rest) :
                          LET length == SubSeq(rest, 1, n)
                          IN  IsVarint(length) /\ VarintValue(length) = Len(rest) - n
<1>7. \A k \in 1 .. b - a :
         holds(k) <=> EndsAt(bytes, a + k, VarintValue(Slice(bytes, a, a + k)) % 8, b)
  <2> HIDE DEF s
  <2> QED BY <1>3, Zenon
<1>8. IsField(s) <=> \E k \in 1 .. Len(s) :
         IsVarint(SubSeq(s, 1, k)) /\ VarintValue(SubSeq(s, 1, k)) >= 8 /\ holds(k)
  <2> HIDE DEF s
  <2> QED BY <1>6, Zenon
<1> HIDE DEF holds
<1>9. IsField(s) <=> \E k \in 1 .. b - a :
         IsVarint(SubSeq(s, 1, k)) /\ VarintValue(SubSeq(s, 1, k)) >= 8 /\ holds(k)
  <2> HIDE DEF s
  <2> QED BY <1>5, <1>8
<1>10. IsField(s) <=> \E k \in 1 .. b - a :
         /\ IsVarint(Slice(bytes, a, a + k)) /\ VarintValue(Slice(bytes, a, a + k)) >= 8
         /\ EndsAt(bytes, a + k, VarintValue(Slice(bytes, a, a + k)) % 8, b)
  <2> HIDE DEF s
  <2> QED BY <1>4, <1>7, <1>9
<1> QED BY <1>10, Zenon

\* What ReadField reads at a place is the field that is written there.
LEMMA FieldIsRead ==
    ASSUME NEW bytes \in Seq(Byte), NEW a \in Nat
    PROVE  /\ \A b \in Nat : a < b /\ b <= Len(bytes) =>
                 (IsField(Slice(bytes, a, b)) <=>
                    ReadField(bytes, a) # NoResult /\ The(ReadField(bytes, a)).end = b)
           /\ ReadField(bytes, a) # NoResult =>
                 LET end == The(ReadField(bytes, a)).end
                 IN  end \in Nat /\ a < end /\ end <= Len(bytes)
PROOF
<1> DEFINE key == read_varint(bytes, a)
           value == The(key).value
           start == a + The(key).used
           end == ValueEnd(bytes, start, value % 8)
           reads == /\ key # NoResult /\ value % 8 \in WireTypes /\ value \div 8 # 0
                    /\ end # NoResult
<1>1. /\ ReadField(bytes, a) # NoResult <=> reads
      /\ reads => The(ReadField(bytes, a)).end = The(end)
  BY DEF ReadField, Found, NoResult, The
<1>2. Len(bytes) \in Nat
  BY BytesAre
<1>3. ASSUME key # NoResult
      PROVE  /\ The(key).used \in Nat \ {0} /\ start \in Nat /\ a < start /\ start <= Len(bytes)
             /\ IsVarint(Slice(bytes, a, start))
             /\ value = VarintValue(Slice(bytes, a, start)) /\ value \in Nat
  <2>1. 1 .. VARINT_BYTES \subseteq Nat \ {0}
    BY BytesAre
  <2>2. /\ The(key).used \in Nat \ {0} /\ a + The(key).used <= Len(bytes)
        /\ IsVarint(Slice(bytes, a, a + The(key).used))
        /\ value = VarintValue(Slice(bytes, a, a + The(key).used)) /\ value \in Nat
    BY <1>3, <2>1, ReadIsNumber
  <2> HIDE DEF key, value
  <2> QED BY <2>2
<1>4. ASSUME NEW k \in Nat, a + k <= Len(bytes), IsVarint(Slice(bytes, a, a + k))
      PROVE  /\ key # NoResult /\ start = a + k
             /\ value = VarintValue(Slice(bytes, a, a + k))
  <2> DEFINE b == a + k
  <2>1. b \in Nat /\ b <= Len(bytes) /\ IsVarint(Slice(bytes, a, b))
    BY <1>4
  <2> HIDE DEF b
  <2>2. key = Found([value |-> VarintValue(Slice(bytes, a, b)), used |-> b - a])
    BY <2>1, NumberIsRead
  <2> HIDE DEF key
  <2>3. key # NoResult /\ value = VarintValue(Slice(bytes, a, b)) /\ The(key).used = b - a
    BY <2>2 DEF Found, NoResult, The
  <2>4. a + (b - a) = b
    BY <2>1
  <2> QED BY <2>3, <2>4 DEF b
<1>5. \A x : The(Found(x)) = x /\ Found(x) # NoResult
  BY DEF The, Found, NoResult
<1>6. ASSUME NEW x \in Nat PROVE (x >= 8 <=> x \div 8 # 0) /\ x % 8 \in 0 .. 7
  OBVIOUS
<1> HIDE DEF key, value, start, end
<1>7. ASSUME reads
      PROVE  /\ The(end) \in Nat /\ a < The(end) /\ The(end) <= Len(bytes) /\ end = Found(The(end))
             /\ EndsAt(bytes, start, value % 8, The(end))
  <2>1. start \in Nat /\ a < start
    BY <1>3, <1>7
  <2>2. PICK x \in Nat : end = Found(x) /\ start < x /\ x <= Len(bytes)
    BY <1>7, <2>1, ValueEndIs DEF end
  <2>3. The(end) = x
    BY <1>5, <2>2
  <2>4. EndsAt(bytes, start, value % 8, x)
    BY <1>7, <2>1, <2>2, ValueEndIs DEF end
  <2> QED BY <2>1, <2>2, <2>3, <2>4
<1>8. ASSUME NEW b \in Nat, a < b, b <= Len(bytes)
      PROVE  IsField(Slice(bytes, a, b)) <=> reads /\ The(end) = b
  <2> DEFINE keyOf(k) == /\ IsVarint(Slice(bytes, a, a + k)) /\ VarintValue(Slice(bytes, a, a + k)) >= 8
                         /\ EndsAt(bytes, a + k, VarintValue(Slice(bytes, a, a + k)) % 8, b)
  <2>1. IsField(Slice(bytes, a, b)) <=> \E k \in 1 .. b - a : keyOf(k)
    BY <1>8, ASliceIsAField
  <2>2. ASSUME NEW k \in 1 .. b - a, keyOf(k) PROVE reads /\ The(end) = b
    <3>1. k \in Nat /\ a + k <= Len(bytes)
      BY <1>2, <1>8
    <3>2. key # NoResult /\ start = a + k /\ value = VarintValue(Slice(bytes, a, a + k))
      BY <1>4, <2>2, <3>1
    <3>3. value >= 8 /\ EndsAt(bytes, start, value % 8, b)
      BY <2>2, <3>2
    <3>4. value % 8 \in WireTypes
      BY <3>3 DEF EndsAt, WireTypes
    <3>5. start \in Nat /\ value \in Nat
      BY <1>3, <3>2
    <3>6. end = Found(b)
      BY <1>8, <3>3, <3>4, <3>5, ValueEndIs DEF end
    <3> QED BY <1>5, <1>6, <3>2, <3>3, <3>4, <3>5, <3>6
  <2>3. ASSUME reads, The(end) = b PROVE \E k \in 1 .. b - a : keyOf(k)
    <3> DEFINE k == The(key).used
    <3>1. /\ k \in Nat \ {0} /\ start = a + k /\ start \in Nat
          /\ IsVarint(Slice(bytes, a, start))
          /\ value = VarintValue(Slice(bytes, a, start)) /\ value \in Nat
      BY <1>3, <2>3 DEF start
    <3>2. EndsAt(bytes, start, value % 8, b) /\ value >= 8
      BY <1>6, <1>7, <2>3, <3>1
    <3>3. start < b
      <4>1. PICK x \in Nat : end = Found(x) /\ start < x
        BY <2>3, <3>1, ValueEndIs DEF end
      <4> QED BY <1>5, <2>3, <4>1
    <3> HIDE DEF k
    <3>4. k \in 1 .. b - a
      BY <3>1, <3>3
    <3>5. keyOf(k)
      BY <3>1, <3>2
    <3> HIDE DEF keyOf
    <3> QED BY <3>4, <3>5
  <2> HIDE DEF keyOf
  <2> QED BY <2>1, <2>2, <2>3
<1> HIDE DEF reads
<1> QED BY <1>1, <1>7, <1>8

-----------------------------------------------------------------------------
(* Messages.                                                               *)

\* The places the loop of decode_fields comes by.
IsPlace(bytes, p) == p = NoResult \/ \E x \in 0 .. Len(bytes) : p = Found(x)

\* One round of it goes from place to place.
LEMMA AfterFieldIs ==
    ASSUME NEW bytes \in Seq(Byte), NEW p, IsPlace(bytes, p)
    PROVE  /\ IsPlace(bytes, AfterField(bytes, p))
           /\ p = NoResult => AfterField(bytes, p) = NoResult
           /\ p # NoResult =>
                 /\ The(p) \in 0 .. Len(bytes) /\ p = Found(The(p))
                 /\ The(p) = Len(bytes) => AfterField(bytes, p) = p
                 /\ The(p) < Len(bytes) =>
                       /\ AfterField(bytes, p) # NoResult <=> ReadField(bytes, The(p)) # NoResult
                       /\ AfterField(bytes, p) # NoResult =>
                             /\ The(AfterField(bytes, p)) = The(ReadField(bytes, The(p))).end
                             /\ The(AfterField(bytes, p)) > The(p)
PROOF
<1>1. \A x : The(Found(x)) = x /\ Found(x) # NoResult
  BY DEF The, Found, NoResult
<1>2. Len(bytes) \in Nat
  BY BytesAre
<1>3. CASE p = NoResult
  BY <1>3 DEF AfterField, IsPlace
<1>4. CASE p # NoResult
  <2>1. PICK x \in 0 .. Len(bytes) : p = Found(x)
    BY <1>4 DEF IsPlace
  <2>2. The(p) = x
    BY <1>1, <2>1
  <2>3. CASE x = Len(bytes)
    <3>1. AfterField(bytes, p) = p
      BY <1>2, <1>4, <2>2, <2>3 DEF AfterField
    <3> QED BY <1>4, <2>1, <2>2, <2>3, <3>1 DEF IsPlace
  <2>4. CASE x < Len(bytes)
    <3>1. AfterField(bytes, p) = IF ReadField(bytes, x) = NoResult THEN NoResult
                                 ELSE Found(The(ReadField(bytes, x)).end)
      <4>1. ~ (x >= Len(bytes))
        BY <1>2, <2>1, <2>4
      <4> QED BY <1>4, <2>2, <4>1 DEF AfterField
    <3>2. ReadField(bytes, x) # NoResult =>
             LET end == The(ReadField(bytes, x)).end
             IN  end \in Nat /\ x < end /\ end <= Len(bytes)
      BY <2>1, FieldIsRead
    <3>3. CASE ReadField(bytes, x) = NoResult
      BY <1>2, <1>4, <2>1, <2>2, <2>4, <3>1, <3>3 DEF IsPlace
    <3>4. CASE ReadField(bytes, x) # NoResult
      <4> DEFINE end == The(ReadField(bytes, x)).end
      <4>1. end \in 0 .. Len(bytes) /\ x < end /\ end > x
        BY <1>2, <2>1, <3>2, <3>4
      <4>2. AfterField(bytes, p) = Found(end)
        BY <3>1, <3>4
      <4>3. IsPlace(bytes, AfterField(bytes, p))
        BY <4>1, <4>2 DEF IsPlace
      <4> QED BY <1>1, <1>2, <1>4, <2>1, <2>2, <2>4, <3>4, <4>1, <4>2, <4>3
    <3> QED BY <3>3, <3>4
  <2> QED BY <1>2, <2>1, <2>3, <2>4
<1> QED BY <1>3, <1>4

\* Where it is after every round.
LEMMA PositionsAre ==
    ASSUME NEW bytes \in Seq(Byte)
    PROVE  /\ Positions(bytes)[0] = Found(0)
           /\ \A n \in 0 .. Len(bytes) : IsPlace(bytes, Positions(bytes)[n])
           /\ \A n \in 1 .. Len(bytes) :
                 Positions(bytes)[n] = AfterField(bytes, Positions(bytes)[n - 1])
PROOF
<1> DEFINE L == Len(bytes)
           Eq(h) == h = [n \in 0 .. L |-> IF n = 0 THEN Found(0) ELSE AfterField(bytes, h[n - 1])]
           h == CHOOSE f : Eq(f)
           V == {NoResult} \union {Found(x) : x \in 0 .. L}
           base == Found(0)
           next == [k \in 1 .. L |-> [v \in V |-> AfterField(bytes, v)]]
<1>1. Positions(bytes) = h
  BY DEF Positions
<1>2. L \in Nat
  BY BytesAre
<1>3. \A v : v \in V <=> IsPlace(bytes, v)
  BY DEF IsPlace
<1>4. next \in [1 .. L -> [V -> V]]
  <2>1. \A v \in V : AfterField(bytes, v) \in V
    <3> HIDE DEF V
    <3> QED BY <1>3, AfterFieldIs
  <2> HIDE DEF V
  <2> QED BY <2>1
<1>5. base \in V
  BY <1>2
<1>6. PICK f \in [0 .. L -> V] : \A k \in 0 .. L : f[k] = IF k = 0 THEN base ELSE next[k][f[k - 1]]
  <2> HIDE DEF L, V, next, base
  <2>1. AreSteps(L, V, base, next)
    BY <1>2, <1>4, <1>5 DEF AreSteps
  <2>2. PICK g : IsRun(g, L, V, base, next)
    BY <2>1, RunExists
  <2> QED BY <2>2 DEF IsRun
<1>7. ASSUME NEW k \in 0 .. L, k # 0 PROVE next[k][f[k - 1]] = AfterField(bytes, f[k - 1])
  <2>1. k \in 1 .. L /\ k - 1 \in 0 .. L
    BY <1>2, <1>7
  <2> HIDE DEF V, L
  <2>2. f[k - 1] \in V
    BY <2>1
  <2> QED BY <2>1, <2>2
<1>8. Eq(f)
  <2> HIDE DEF next, V, L
  <2> QED BY <1>6, <1>7
<1>9. Eq(h)
  <2> HIDE DEF Eq
  <2> QED BY <1>8
<1> HIDE DEF h
<1>10. h[0] = Found(0) /\ \A n \in 1 .. L : h[n] = AfterField(bytes, h[n - 1])
  <2>1. \A n \in 1 .. L : n \in 0 .. L /\ n # 0
    BY <1>2
  <2>2. 0 \in 0 .. L
    BY <1>2
  <2> HIDE DEF L
  <2> QED BY <1>9, <2>1, <2>2
<1>11. \A n \in 0 .. L : IsPlace(bytes, h[n])
  <2> DEFINE Good == {n \in Nat : n <= L => IsPlace(bytes, h[n])}
  <2>1. 0 \in Good
    <3>1. IsPlace(bytes, Found(0))
      BY <1>2 DEF IsPlace
    <3> QED BY <1>10, <3>1
  <2>2. ASSUME NEW n \in Nat, n \in Good PROVE n + 1 \in Good
    <3> SUFFICES ASSUME n + 1 <= L PROVE IsPlace(bytes, h[n + 1])
      OBVIOUS
    <3>1. n + 1 \in 1 .. L /\ n + 1 - 1 = n /\ n <= L
      BY <1>2
    <3>2. h[n + 1] = AfterField(bytes, h[n]) /\ IsPlace(bytes, h[n])
      BY <1>10, <2>2, <3>1
    <3> QED BY <3>2, AfterFieldIs
  <2> HIDE DEF Good
  <2>3. \A n \in Nat : n \in Good
    BY <2>1, <2>2, CountUp
  <2> QED BY <1>2, <2>3 DEF Good
<1> QED BY <1>1, <1>10, <1>11

\* Bytes are well formed just when they are cut into fields: the places the
\* loop comes by are such cuts, and it comes by none but the given ones.
LEMMA WellFormedIsMessage ==
    ASSUME NEW bytes \in Seq(Byte)
    PROVE  IsWellFormed(bytes) <=> IsMessage(bytes)
PROOF
<1> DEFINE L == Len(bytes)
           p == Positions(bytes)
<1>1. L \in Nat
  BY BytesAre
<1>2. /\ p[0] = Found(0)
      /\ \A n \in 0 .. L : IsPlace(bytes, p[n])
      /\ \A n \in 1 .. L : p[n] = AfterField(bytes, p[n - 1])
  BY PositionsAre
<1>3. \A x : The(Found(x)) = x /\ Found(x) # NoResult
  BY DEF The, Found, NoResult
<1>4. IsWellFormed(bytes) <=> p[L] # NoResult
  BY DEF IsWellFormed
<1> HIDE DEF p
<1>5. ASSUME NEW n \in Nat, n < L
      PROVE  /\ p[n + 1] = AfterField(bytes, p[n]) /\ IsPlace(bytes, p[n]) /\ IsPlace(bytes, p[n + 1])
  <2>1. n + 1 \in 1 .. L /\ n + 1 - 1 = n /\ n \in 0 .. L /\ n + 1 \in 0 .. L
    BY <1>1, <1>5
  <2> QED BY <1>2, <2>1
<1>6. ASSUME p[L] # NoResult PROVE IsMessage(bytes)
  <2> DEFINE x(n) == The(p[n])
             cuts == {x(n) : n \in 0 .. L}
  <2>1. \A n \in 0 .. L : p[n] # NoResult
    <3> DEFINE Good == {m \in Nat : m <= L => p[L - m] # NoResult}
    <3>1. 0 \in Good
      BY <1>1, <1>6
    <3>2. ASSUME NEW m \in Nat, m \in Good PROVE m + 1 \in Good
      <4> SUFFICES ASSUME m + 1 <= L PROVE p[L - (m + 1)] # NoResult
        OBVIOUS
      <4> DEFINE n == L - (m + 1)
      <4>1. n \in Nat /\ n < L /\ n + 1 = L - m
        BY <1>1
      <4>2. p[n + 1] # NoResult
        BY <1>1, <3>2, <4>1
      <4> HIDE DEF n
      <4> QED BY <1>5, <4>1, <4>2, AfterFieldIs DEF n
    <3> HIDE DEF Good
    <3>3. \A m \in Nat : m \in Good
      BY <3>1, <3>2, CountUp
    <3>4. \A n \in 0 .. L : L - n \in Nat /\ L - n <= L /\ L - (L - n) = n
      BY <1>1
    <3> QED BY <3>3, <3>4 DEF Good
  <2>2. \A n \in 0 .. L : x(n) \in 0 .. L
    BY <1>2, <2>1, AfterFieldIs
  <2>3. ASSUME NEW n \in Nat, n < L
        PROVE  IF x(n) < L
               THEN /\ ReadField(bytes, x(n)) # NoResult /\ x(n + 1) = The(ReadField(bytes, x(n))).end
                    /\ x(n + 1) > x(n)
               ELSE x(n + 1) = x(n)
    <3>1. /\ p[n + 1] = AfterField(bytes, p[n]) /\ IsPlace(bytes, p[n])
          /\ p[n] # NoResult /\ p[n + 1] # NoResult /\ x(n) \in 0 .. L
      <4>1. n \in 0 .. L /\ n + 1 \in 0 .. L
        BY <1>1, <2>3
      <4> HIDE DEF x
      <4> QED BY <1>5, <2>1, <2>2, <2>3, <4>1
    <3>2. CASE x(n) < L
      BY <3>1, <3>2, AfterFieldIs
    <3>3. CASE ~ (x(n) < L)
      <4>1. x(n) = L
        BY <1>1, <3>1, <3>3
      <4> QED BY <3>1, <3>3, <4>1, AfterFieldIs
    <3> QED BY <3>2, <3>3
  <2> HIDE DEF x
  <2>4. ASSUME NEW n \in Nat, n < L PROVE x(n) <= x(n + 1)
    <3>1. x(n) \in 0 .. L /\ x(n + 1) \in 0 .. L
      <4>1. n \in 0 .. L /\ n + 1 \in 0 .. L
        BY <1>1, <2>4
      <4> QED BY <2>2, <4>1
    <3> QED BY <2>3, <2>4, <3>1
  <2>5. \A n, m \in 0 .. L : n <= m => x(n) <= x(m)
    <3> DEFINE Good == {d \in Nat : \A n \in Nat : n + d <= L => x(n) <= x(n + d)}
    <3>1. 0 \in Good
      <4>1. \A n \in Nat : n + 0 = n /\ (n <= L => n \in 0 .. L)
        BY <1>1
      <4>2. \A n \in Nat : n <= L => x(n) <= x(n)
        BY <1>1, <2>2, <4>1
      <4> QED BY <4>1, <4>2
    <3>2. ASSUME NEW d \in Nat, d \in Good PROVE d + 1 \in Good
      <4> SUFFICES ASSUME NEW n \in Nat, n + (d + 1) <= L PROVE x(n) <= x(n + (d + 1))
        OBVIOUS
      <4> DEFINE e == n + d
      <4>1. e \in Nat /\ e < L /\ n + (d + 1) = e + 1 /\ n \in 0 .. L /\ e \in 0 .. L /\ e + 1 \in 0 .. L
        BY <1>1
      <4>2. x(n) <= x(e)
        BY <1>1, <3>2, <4>1
      <4> HIDE DEF e
      <4>3. x(e) <= x(e + 1)
        BY <2>4, <4>1
      <4>4. x(n) \in 0 .. L /\ x(e) \in 0 .. L /\ x(e + 1) \in 0 .. L
        BY <2>2, <4>1
      <4>5. x(n) <= x(e + 1)
        BY <4>2, <4>3, <4>4
      <4> QED BY <4>1, <4>5
    <3> HIDE DEF Good
    <3>3. \A d \in Nat : d \in Good
      BY <3>1, <3>2, CountUp
    <3> SUFFICES ASSUME NEW n \in 0 .. L, NEW m \in 0 .. L, n <= m PROVE x(n) <= x(m)
      OBVIOUS
    <3>4. m - n \in Nat /\ n + (m - n) = m /\ n \in Nat /\ m <= L
      BY <1>1
    <3> QED BY <3>3, <3>4 DEF Good
  <2>6. x(L) = L
    <3> DEFINE Good == {n \in Nat : n <= L => x(n) >= n}
    <3>1. 0 \in Good
      <4>1. x(0) = 0
        BY <1>2, <1>3 DEF x
      <4> QED BY <4>1
    <3>2. ASSUME NEW n \in Nat, n \in Good PROVE n + 1 \in Good
      <4> SUFFICES ASSUME n + 1 <= L PROVE x(n + 1) >= n + 1
        OBVIOUS
      <4>1. n < L /\ n \in 0 .. L /\ n + 1 \in 0 .. L
        BY <1>1
      <4>2. x(n) \in 0 .. L /\ x(n + 1) \in 0 .. L /\ x(n) >= n
        BY <2>2, <3>2, <4>1
      <4> QED BY <1>1, <2>3, <4>1, <4>2
    <3> HIDE DEF Good
    <3>3. L \in Good
      BY <1>1, <3>1, <3>2, CountUp
    <3>4. x(L) \in 0 .. L
      BY <1>1, <2>2
    <3> QED BY <1>1, <3>3, <3>4 DEF Good
  <2>7. x(0) = 0
    BY <1>2, <1>3 DEF x
  <2>8. cuts \in SUBSET (0 .. L) /\ 0 \in cuts /\ L \in cuts
    <3>1. 0 \in 0 .. L /\ L \in 0 .. L
      BY <1>1
    <3> QED BY <2>2, <2>6, <2>7, <3>1
  <2>9. ASSUME NEW n \in 0 .. L, NEW m \in 0 .. L, x(n) < x(m),
               \A c \in cuts : c <= x(n) \/ x(m) <= c
        PROVE  IsField(Slice(bytes, x(n), x(m)))
    <3>1. x(n) \in 0 .. L /\ x(m) \in 0 .. L
      BY <2>2
    <3>2. n # L
      BY <1>1, <2>6, <2>9, <3>1
    <3>3. n \in Nat /\ n < L /\ n + 1 \in 0 .. L
      BY <1>1, <3>2
    <3>4. x(n) < L
      BY <1>1, <2>9, <3>1
    <3>5. /\ ReadField(bytes, x(n)) # NoResult /\ x(n + 1) = The(ReadField(bytes, x(n))).end
          /\ x(n + 1) > x(n)
      BY <2>3, <3>3, <3>4
    <3>6. x(n + 1) \in cuts /\ x(n + 1) \in 0 .. L
      BY <2>2, <3>3
    <3>7. x(m) <= x(n + 1)
      <4>1. x(n + 1) <= x(n) \/ x(m) <= x(n + 1)
        BY <2>9, <3>6
      <4> QED BY <3>1, <3>5, <3>6, <4>1
    <3>8. x(n + 1) <= x(m)
      <4>1. CASE m <= n
        <5>1. x(m) <= x(n)
          BY <2>5, <4>1
        <5> QED BY <2>9, <3>1, <5>1
      <4>2. CASE n + 1 <= m
        BY <2>5, <3>3, <4>2
      <4> QED BY <1>1, <3>3, <4>1, <4>2
    <3>9. x(n + 1) = x(m)
      BY <3>1, <3>6, <3>7, <3>8
    <3>10. x(n) \in Nat /\ x(m) \in Nat /\ x(m) <= Len(bytes)
      BY <1>1, <3>1
    <3> QED BY <2>9, <3>5, <3>9, <3>10, FieldIsRead
  <2>10. \A a, b \in cuts : a < b /\ (\A c \in cuts : c <= a \/ b <= c) => IsField(Slice(bytes, a, b))
    <3> SUFFICES ASSUME NEW n \in 0 .. L, NEW m \in 0 .. L, x(n) < x(m),
                        \A c \in cuts : c <= x(n) \/ x(m) <= c
                 PROVE  IsField(Slice(bytes, x(n), x(m)))
      OBVIOUS
    <3> HIDE DEF cuts
    <3> QED BY <2>9
  <2> HIDE DEF cuts
  <2> QED BY <2>8, <2>10 DEF IsMessage
<1>7. ASSUME IsMessage(bytes) PROVE p[L] # NoResult
  <2>1. PICK cuts \in SUBSET (0 .. L) :
          /\ 0 \in cuts /\ L \in cuts
          /\ \A a, b \in cuts :
                a < b /\ (\A c \in cuts : c <= a \/ b <= c) => IsField(Slice(bytes, a, b))
    BY <1>7 DEF IsMessage
  <2> DEFINE Good == {n \in Nat : n <= L => p[n] # NoResult /\ The(p[n]) \in cuts}
  <2>2. 0 \in Good
    BY <1>2, <1>3, <2>1
  <2>3. ASSUME NEW n \in Nat, n \in Good PROVE n + 1 \in Good
    <3> SUFFICES ASSUME n < L PROVE p[n + 1] # NoResult /\ The(p[n + 1]) \in cuts
      BY <1>1
    <3> DEFINE x == The(p[n])
    <3>1. p[n] # NoResult /\ x \in cuts /\ p[n + 1] = AfterField(bytes, p[n]) /\ IsPlace(bytes, p[n])
      BY <1>1, <1>5, <2>3
    <3>2. CASE x = L
      BY <3>1, <3>2, AfterFieldIs
    <3>3. CASE x # L
      <4>1. x \in Nat /\ x < L
        <5> HIDE DEF x, L
        <5>1. x \in 0 .. L
          BY <2>1, <3>1
        <5> QED BY <1>1, <3>3, <5>1
      <4> DEFINE after == {c \in cuts : c > x}
                 b == Min(after)
      <4>2. after \in SUBSET Nat /\ L \in after
        <5> HIDE DEF x, L
        <5>1. cuts \subseteq 0 .. L /\ 0 .. L \subseteq Nat /\ L > x
          BY <1>1, <2>1, <4>1
        <5> QED BY <2>1, <5>1
      <4>3. b \in after /\ \A y \in after : b <= y
        <5> HIDE DEF after
        <5> QED BY <4>2, MinOfNaturals
      <4> HIDE DEF b
      <4>4. /\ b \in cuts /\ b \in Nat /\ x < b /\ b <= Len(bytes)
            /\ \A c \in cuts : c <= x \/ b <= c
        BY <1>1, <2>1, <4>1, <4>2, <4>3
      <4> HIDE DEF x
      <4>5. IsField(Slice(bytes, x, b))
        BY <2>1, <3>1, <4>4
      <4>6. ReadField(bytes, x) # NoResult /\ The(ReadField(bytes, x)).end = b
        BY <4>1, <4>4, <4>5, FieldIsRead
      <4> QED BY <3>1, <4>1, <4>4, <4>6, AfterFieldIs DEF x
    <3> QED BY <3>2, <3>3
  <2> HIDE DEF Good
  <2>4. L \in Good
    BY <1>1, <2>2, <2>3, CountUp
  <2> QED BY <1>1, <2>4 DEF Good
<1> QED BY <1>4, <1>6, <1>7

\* Where an index of a path ends is a place.
LEMMA IndexEndsArePlaces ==
    ASSUME NEW bytes \in Seq(Byte), NEW offset \in Nat, NEW count \in Nat, NEW k \in 0 .. count
    PROVE  \/ IndexEnds(bytes, offset, count)[k] = NoResult
           \/ The(IndexEnds(bytes, offset, count)[k]) \in Nat
PROOF
<1> DEFINE V == {NoResult} \union {Found(x) : x \in Nat}
           base == Found(offset)
           next == [n \in 1 .. count |-> [v \in V |-> AfterIndex(bytes, v)]]
<1>1. \A x : The(Found(x)) = x /\ Found(x) # NoResult
  BY DEF The, Found, NoResult
<1>2. ASSUME NEW v \in V, v # NoResult PROVE The(v) \in Nat
  <2>1. PICK x \in Nat : v = Found(x)
    BY <1>2
  <2> QED BY <1>1, <2>1
<1>3. ASSUME NEW v \in V PROVE AfterIndex(bytes, v) \in V
  <2>1. CASE v = NoResult
    BY <2>1 DEF AfterIndex
  <2>2. CASE v # NoResult
    <3> DEFINE index == read_varint(bytes, The(v))
    <3>1. The(v) \in Nat
      BY <1>2, <2>2
    <3>2. index # NoResult => The(v) + The(index).used \in Nat
      <4>1. index # NoResult => The(index).used \in 1 .. VARINT_BYTES
        BY <3>1, ReadIsNumber
      <4> HIDE DEF index
      <4> QED BY <3>1, <4>1
    <3>3. \/ AfterIndex(bytes, v) = NoResult
          \/ index # NoResult /\ AfterIndex(bytes, v) = Found(The(v) + The(index).used)
      BY <2>2 DEF AfterIndex
    <3> HIDE DEF index
    <3> QED BY <3>2, <3>3
  <2> QED BY <2>1, <2>2
<1>4. AreSteps(count, V, base, next)
  <2>1. next \in [1 .. count -> [V -> V]]
    <3> HIDE DEF V
    <3> QED BY <1>3
  <2> HIDE DEF next
  <2> QED BY <2>1 DEF AreSteps
<1>5. PICK g : IsRun(g, count, V, base, next)
  <2> HIDE DEF V, base, next
  <2> QED BY <1>4, RunExists
<1>6. g \in [0 .. count -> V]
  BY <1>5 DEF IsRun
<1>7. ASSUME NEW n \in 0 .. count
      PROVE  g[n] = IF n = 0 THEN Found(offset) ELSE AfterIndex(bytes, g[n - 1])
  <2>1. g[n] = IF n = 0 THEN base ELSE next[n][g[n - 1]]
    BY <1>5 DEF IsRun
  <2>2. CASE n = 0
    BY <2>1, <2>2
  <2>3. CASE n # 0
    <3>1. n \in 1 .. count /\ n - 1 \in 0 .. count
      BY <2>3
    <3>2. g[n - 1] \in V
      <4> HIDE DEF V
      <4> QED BY <1>6, <3>1
    <3> HIDE DEF V
    <3> QED BY <2>1, <2>3, <3>1, <3>2
  <2> QED BY <2>2, <2>3
<1>8. AreIndexEnds(g, bytes, offset, count)
  <2> HIDE DEF V
  <2> QED BY <1>6, <1>7 DEF AreIndexEnds
<1>9. IndexEnds(bytes, offset, count) = g
  BY <1>8, IndexEndsAre
<1>10. g[k] \in V
  <2> HIDE DEF V
  <2> QED BY <1>6
<1> QED BY <1>2, <1>9, <1>10

\* A recognised header ends at a place.
LEMMA HeaderEnds ==
    ASSUME NEW bytes \in Seq(Byte), detect_confluent_header(bytes) # NoResult
    PROVE  The(detect_confluent_header(bytes)).body_offset \in Nat
PROOF
<1> DEFINE first == read_varint(bytes, 5)
           offset == 5 + The(first).used
           count == zigzag_decode(The(first).value)
           header == detect_confluent_header(bytes)
<1>1. first # NoResult
  BY DEF detect_confluent_header
<1>2. The(first).value \in Nat /\ The(first).used \in 1 .. VARINT_BYTES
  BY <1>1, ReadIsNumber
<1>3. \/ header = Found(Header(bytes, <<0>>, offset))
      \/ ~ (count < 0 \/ count > 32) /\ header = ReadPath(bytes, offset, count)
  BY DEF detect_confluent_header
<1>4. offset \in Nat /\ count \in Int
  <2>1. VARINT_BYTES \in Nat
    BY WireFormatAssumption
  <2> HIDE DEF first
  <2> QED BY <1>2, <2>1 DEF zigzag_decode
<1> HIDE DEF offset, count, first
<1>5. \A path, end : The(Found(Header(bytes, path, end))).body_offset = end
  BY DEF The, Found, Header
<1>6. CASE header = Found(Header(bytes, <<0>>, offset))
  BY <1>4, <1>5, <1>6
<1>7. CASE count \in Nat /\ header = ReadPath(bytes, offset, count)
  <2> DEFINE ends == IndexEnds(bytes, offset, count)
  <2>1. header # NoResult
    OBVIOUS
  <2> HIDE DEF header
  <2>2. ends[count] # NoResult /\ \E path : header = Found(Header(bytes, path, The(ends[count])))
    BY <1>7, <2>1 DEF ReadPath
  <2>3. count \in 0 .. count
    BY <1>7
  <2>4. The(ends[count]) \in Nat
    BY <1>4, <1>7, <2>2, <2>3, IndexEndsArePlaces
  <2> HIDE DEF ends
  <2> QED BY <1>5, <2>2, <2>4 DEF header
<1> QED BY <1>3, <1>4, <1>6, <1>7

\* The raw reading succeeds on messages, and on nothing else.
LEMMA RawHolds == SchemaIInv => RawDecodeIsExact
PROOF
<1> SUFFICES ASSUME SchemaIInv, NEW v \in Viewers, Shown(v), view[v].strategy.kind = "raw"
             PROVE  LET body == From(view[v].payload.bytes, view[v].strategy.offset)
                    IN  (decode_raw(body) # NoResult) <=> IsMessage(body)
  BY DEF RawDecodeIsExact
<1> DEFINE s == view[v].strategy
           p == view[v].payload
           format == view[v].format
           body == From(p.bytes, s.offset)
<1>1. DecidedView(view[v]) /\ p \in Payloads /\ format \in Formats
  BY AShownView DEF DecidedView
<1>2. PICK manual, registry \in BOOLEAN :
         s = decide_decode_strategy(format, p.bytes, manual, registry)
  BY AShownView
<1>3. s.kind = "raw"
  OBVIOUS
<1>4. p.bytes \in Seq(Byte)
  BY <1>1, SchemaDecodingAssumption DEF IsPayload
<1> HIDE DEF s, p, format
<1>5. format = "protobuf"
  BY <1>1, <1>2, <1>3, Decisions DEF Formats
<1>6. s.offset \in Nat
  <2> DEFINE header == detect_confluent_header(p.bytes)
             offset == IF header = NoResult THEN 0 ELSE The(header).body_offset
  <2>1. offset \in Nat
    BY <1>4, HeaderEnds
  <2>2. PICK kind, path : s = Strategy(kind, offset, path)
    BY <1>2, <1>5 DEF decide_decode_strategy, decide_protobuf_strategy
  <2> HIDE DEF offset
  <2> QED BY <2>1, <2>2 DEF Strategy
<1>7. body \in Seq(Byte)
  <2> DEFINE o == s.offset
  <2>1. o \in Nat
    BY <1>6
  <2>2. body = SubSeq(p.bytes, o + 1, Len(p.bytes))
    BY DEF From, Slice
  <2> HIDE DEF o, body
  <2>3. Len(p.bytes) \in Nat
    BY <1>4
  <2>4. SubSeq(p.bytes, o + 1, Len(p.bytes)) \in Seq(Byte)
    BY <1>4, <2>1, <2>3
  <2> QED BY <2>2, <2>4
<1> HIDE DEF body
<1>8. decode_raw(body) # NoResult <=> IsWellFormed(body)
  <2>1. ~ (0 > MAX_DEPTH)
    BY WireFormatAssumption
  <2> QED BY <2>1 DEF decode_raw, decode_fields, Found, NoResult
<1>9. IsWellFormed(body) <=> IsMessage(body)
  BY <1>7, WellFormedIsMessage
<1> QED BY <1>8, <1>9 DEF body, s, p

-----------------------------------------------------------------------------
(* Decimals.                                                               *)

Figures == 0 .. 9

\* A sequence that is not empty is its front and its last element.
LEMMA FrontAndLast ==
    ASSUME NEW S, NEW s \in Seq(S), s # <<>>
    PROVE  /\ Front(s) \in Seq(S) /\ Len(s) \in Nat \ {0} /\ Len(Front(s)) = Len(s) - 1
           /\ Last(s) \in S /\ Last(s) = s[Len(s)] /\ s = Append(Front(s), Last(s))
           /\ Front(s) = SubSeq(s, 1, Len(s) - 1)
PROOF
<1>1. PICK t \in Seq(S), d \in S : s = Append(t, d)
  BY SequenceEmptyOrAppend
<1>2. Front(s) = t /\ Last(s) = d /\ Len(s) = Len(t) + 1 /\ Len(t) \in Nat
  BY <1>1 DEF Front, Last
<1>3. Last(s) = s[Len(s)] /\ Front(s) = SubSeq(s, 1, Len(s) - 1)
  BY DEF Front, Last
<1> QED BY <1>1, <1>2, <1>3

LEMMA FrontOfAppend ==
    ASSUME NEW S, NEW s \in Seq(S), NEW d \in S
    PROVE  /\ Append(s, d) \in Seq(S) /\ Append(s, d) # <<>>
           /\ Front(Append(s, d)) = s /\ Last(Append(s, d)) = d
BY DEF Front, Last

\* The digits of a number.
LEMMA DigitsAre ==
    \A n \in Nat :
       /\ Digits[n] \in Seq(Figures)
       /\ Digits[n] = IF n < 10 THEN <<n>> ELSE Append(Digits[n \div 10], n % 10)
PROOF
<1> DEFINE V == Seq(Figures)
           D == 0 .. 9
           rank == [n \in Nat |-> n]
           down == [n \in Nat \ D |-> n \div 10]
           first == [n \in D |-> <<n>>]
           put == [n \in Nat \ D |-> [v \in V |-> Append(v, n % 10)]]
           Eq(f) == f = [n \in Nat |-> IF n < 10 THEN <<n>> ELSE Append(f[n \div 10], n % 10)]
<1>1. IsRecursion(Nat, V, D, rank, down, first, put)
  <2>1. \A n \in Nat \ D : n \div 10 \in Nat /\ n \div 10 < n /\ n % 10 \in Figures
    BY DEF Figures
  <2>2. first \in [D -> V]
    BY DEF Figures
  <2>3. put \in [Nat \ D -> [V -> V]]
    <3>1. ASSUME NEW n \in Nat \ D, NEW v \in V PROVE Append(v, n % 10) \in V
      <4>1. n % 10 \in Figures
        BY <2>1
      <4> QED BY <4>1
    <3> HIDE DEF V, D
    <3> QED BY <3>1
  <2>4. rank \in [Nat -> Nat] /\ down \in [Nat \ D -> Nat]
    BY <2>1
  <2>5. \A n \in Nat \ D : rank[down[n]] < rank[n]
    BY <2>1
  <2>6. D \subseteq Nat
    OBVIOUS
  <2> HIDE DEF rank, down, first, put, V, D
  <2> QED BY <2>2, <2>3, <2>4, <2>5, <2>6 DEF IsRecursion
<1>2. PICK f : IsDefinedSo(f, Nat, V, D, down, first, put)
  <2> HIDE DEF V, D, rank, down, first, put
  <2> QED BY <1>1, DescendingRecursion
<1>3. f \in [Nat -> V]
  BY <1>2 DEF IsDefinedSo
<1>4. ASSUME NEW n \in Nat
      PROVE  f[n] = IF n < 10 THEN <<n>> ELSE Append(f[n \div 10], n % 10)
  <2>1. f[n] = IF n \in D THEN first[n] ELSE put[n][f[down[n]]]
    BY <1>2 DEF IsDefinedSo
  <2>2. CASE n < 10
    BY <2>1, <2>2
  <2>3. CASE ~ (n < 10)
    <3>1. n \in Nat \ D /\ n \div 10 \in Nat
      BY <2>3
    <3>2. f[n \div 10] \in V
      BY <1>3, <3>1
    <3>3. f[n] = put[n][f[n \div 10]]
      BY <2>1, <3>1
    <3> HIDE DEF V
    <3> QED BY <2>3, <3>1, <3>2, <3>3
  <2> QED BY <2>2, <2>3
<1>5. Eq(f)
  BY <1>3, <1>4
<1>6. Digits = CHOOSE g : Eq(g)
  BY DEF Digits
<1>7. Eq(Digits)
  <2> HIDE DEF Eq
  <2> QED BY <1>5, <1>6
<1>8. ASSUME NEW n \in Nat
      PROVE  Digits[n] = IF n < 10 THEN <<n>> ELSE Append(Digits[n \div 10], n % 10)
  BY <1>7
<1>9. \A n \in Nat : Digits[n] \in Seq(Figures)
  <2> DEFINE Good == {m \in Nat : \A n \in Nat : n < m => Digits[n] \in Seq(Figures)}
  <2>1. 0 \in Good
    OBVIOUS
  <2>2. ASSUME NEW m \in Nat, m \in Good PROVE m + 1 \in Good
    <3> SUFFICES ASSUME NEW n \in Nat, n < m + 1 PROVE Digits[n] \in Seq(Figures)
      OBVIOUS
    <3>1. CASE n < 10
      <4>1. n \in Figures
        BY <3>1 DEF Figures
      <4>2. Digits[n] = <<n>>
        BY <1>8, <3>1
      <4> QED BY <4>1, <4>2
    <3>2. CASE ~ (n < 10)
      <4>1. n \div 10 \in Nat /\ n \div 10 < m /\ n % 10 \in Figures
        BY <3>2 DEF Figures
      <4>2. Digits[n \div 10] \in Seq(Figures)
        BY <2>2, <4>1
      <4>3. Digits[n] = Append(Digits[n \div 10], n % 10)
        BY <1>8, <3>2
      <4> QED BY <4>1, <4>2, <4>3
    <3> QED BY <3>1, <3>2
  <2> HIDE DEF Good
  <2>3. \A m \in Nat : m \in Good
    BY <2>1, <2>2, CountUp
  <2>4. \A n \in Nat : n + 1 \in Nat /\ n < n + 1
    OBVIOUS
  <2> QED BY <2>3, <2>4 DEF Good
<1> QED BY <1>8, <1>9

\* What digits say.
LEMMA NumberIs ==
    /\ NumberOf[<<>>] = 0
    /\ \A s \in Seq(Figures) : NumberOf[s] \in Nat
    /\ \A s \in Seq(Figures), d \in Figures : NumberOf[Append(s, d)] = 10 * NumberOf[s] + d
PROOF
<1> DEFINE S == Seq(Figures)
           D == {<<>>}
           rank == [s \in S |-> Len(s)]
           down == [s \in S \ D |-> Front(s)]
           first == [s \in D |-> 0]
           put == [s \in S \ D |-> [v \in Nat |-> 10 * v + Last(s)]]
           Eq(f) == f = [s \in S |-> IF s = <<>> THEN 0 ELSE 10 * f[Front(s)] + Last(s)]
<1>1. ASSUME NEW s \in S \ D
      PROVE  /\ Front(s) \in S /\ Len(Front(s)) < Len(s) /\ Last(s) \in Figures
  <2>1. s \in Seq(Figures) /\ s # <<>> /\ Len(s) \in Nat
    OBVIOUS
  <2>2. Front(s) \in Seq(Figures) /\ Len(Front(s)) = Len(s) - 1 /\ Last(s) \in Figures
    BY <2>1, FrontAndLast
  <2> QED BY <2>1, <2>2
<1>2. IsRecursion(S, Nat, D, rank, down, first, put)
  <2>1. rank \in [S -> Nat] /\ down \in [S \ D -> S]
    BY <1>1
  <2>2. \A s \in S \ D : rank[down[s]] < rank[s]
    BY <1>1
  <2>3. put \in [S \ D -> [Nat -> Nat]]
    <3>1. ASSUME NEW s \in S \ D, NEW v \in Nat PROVE 10 * v + Last(s) \in Nat
      <4>1. Last(s) \in Nat
        BY <1>1 DEF Figures
      <4> QED BY <4>1
    <3> HIDE DEF S, D
    <3> QED BY <3>1
  <2>4. first \in [D -> Nat] /\ D \subseteq S
    OBVIOUS
  <2> HIDE DEF rank, down, first, put, S, D
  <2> QED BY <2>1, <2>2, <2>3, <2>4 DEF IsRecursion
<1>3. PICK f : IsDefinedSo(f, S, Nat, D, down, first, put)
  <2> HIDE DEF S, D, rank, down, first, put
  <2> QED BY <1>2, DescendingRecursion
<1>4. f \in [S -> Nat]
  BY <1>3 DEF IsDefinedSo
<1>5. ASSUME NEW s \in S PROVE f[s] = IF s = <<>> THEN 0 ELSE 10 * f[Front(s)] + Last(s)
  <2>1. f[s] = IF s \in D THEN first[s] ELSE put[s][f[down[s]]]
    <3> HIDE DEF S, D, down, first, put
    <3> QED BY <1>3 DEF IsDefinedSo
  <2>2. CASE s = <<>>
    BY <2>1, <2>2
  <2>3. CASE s # <<>>
    <3>1. s \in S \ D /\ Front(s) \in S
      BY <1>1, <2>3
    <3>2. f[Front(s)] \in Nat
      BY <1>4, <3>1
    <3>3. f[s] = put[s][f[Front(s)]]
      BY <2>1, <3>1
    <3> HIDE DEF S, D
    <3> QED BY <2>3, <3>1, <3>2, <3>3
  <2> QED BY <2>2, <2>3
<1>6. Eq(f)
  <2> HIDE DEF S
  <2> QED BY <1>4, <1>5
<1>7. NumberOf = CHOOSE g : Eq(g)
  BY DEF NumberOf, Figures
<1>8. Eq(NumberOf)
  <2> HIDE DEF Eq
  <2> QED BY <1>6, <1>7
<1>9. ASSUME NEW s \in S PROVE NumberOf[s] = IF s = <<>> THEN 0 ELSE 10 * NumberOf[Front(s)] + Last(s)
  <2> HIDE DEF S
  <2> QED BY <1>8
<1>10. ASSUME NEW s \in S, NEW d \in Figures
       PROVE  NumberOf[Append(s, d)] = 10 * NumberOf[s] + d
  <2> DEFINE t == Append(s, d)
  <2>1. t \in S /\ t # <<>> /\ Front(t) = s /\ Last(t) = d
    BY FrontOfAppend
  <2> HIDE DEF t, S
  <2>2. NumberOf[t] = 10 * NumberOf[Front(t)] + Last(t)
    BY <1>9, <2>1
  <2> QED BY <2>1, <2>2 DEF t
<1>11. \A s \in S : NumberOf[s] \in Nat
  <2> DEFINE Good == {m \in Nat : \A s \in S : Len(s) = m => NumberOf[s] \in Nat}
  <2>1. 0 \in Good
    <3>1. \A s \in S : Len(s) = 0 => s = <<>>
      BY EmptySeq
    <3>2. <<>> \in S
      OBVIOUS
    <3> HIDE DEF S
    <3> QED BY <1>9, <3>1, <3>2
  <2>2. ASSUME NEW m \in Nat, m \in Good PROVE m + 1 \in Good
    <3> SUFFICES ASSUME NEW s \in S, Len(s) = m + 1 PROVE NumberOf[s] \in Nat
      OBVIOUS
    <3>1. s # <<>>
      OBVIOUS
    <3>2. Front(s) \in S /\ Len(Front(s)) = m /\ Last(s) \in Nat
      <4>1. Front(s) \in S /\ Len(Front(s)) = Len(s) - 1 /\ Last(s) \in Figures
        BY <3>1, FrontAndLast
      <4> QED BY <4>1 DEF Figures
    <3>3. NumberOf[Front(s)] \in Nat
      BY <2>2, <3>2
    <3> HIDE DEF S
    <3>4. NumberOf[s] = 10 * NumberOf[Front(s)] + Last(s)
      BY <1>9, <3>1
    <3> QED BY <3>2, <3>3, <3>4
  <2> HIDE DEF Good
  <2>3. \A m \in Nat : m \in Good
    BY <2>1, <2>2, CountUp
  <2>4. \A s \in S : Len(s) \in Nat
    OBVIOUS
  <2> QED BY <2>3, <2>4 DEF Good
<1>12. NumberOf[<<>>] = 0
  <2>1. <<>> \in S
    OBVIOUS
  <2> HIDE DEF S
  <2> QED BY <1>9, <2>1
<1> QED BY <1>10, <1>11, <1>12

\* A number is its tens and its ones.
LEMMA TensAndOnes == ASSUME NEW n \in Nat PROVE 10 * (n \div 10) + (n % 10) = n
OBVIOUS

\* One more digit.
LEMMA NumberGrows ==
    ASSUME NEW s \in Seq(Figures), NEW d \in Figures
    PROVE  NumberOf[Append(s, d)] = 10 * NumberOf[s] + d
BY NumberIs

\* The digits of a number say that number.
LEMMA DigitsAreRead == \A n \in Nat : NumberOf[Digits[n]] = n
PROOF
<1> DEFINE Good == {m \in Nat : \A n \in Nat : n < m => NumberOf[Digits[n]] = n}
<1>1. 0 \in Good
  OBVIOUS
<1>2. ASSUME NEW m \in Nat, m \in Good PROVE m + 1 \in Good
  <2> SUFFICES ASSUME NEW n \in Nat, n < m + 1 PROVE NumberOf[Digits[n]] = n
    OBVIOUS
  <2>1. CASE n < 10
    <3>1. n \in Figures /\ <<>> \in Seq(Figures) /\ Append(<<>>, n) = <<n>>
      BY <2>1 DEF Figures
    <3>2. NumberOf[Append(<<>>, n)] = 10 * NumberOf[<<>>] + n /\ NumberOf[<<>>] = 0
      BY <3>1, NumberIs
    <3>3. Digits[n] = <<n>>
      BY <2>1, DigitsAre
    <3> QED BY <3>1, <3>2, <3>3
  <2>2. CASE ~ (n < 10)
    <3>1. /\ n \div 10 \in Nat /\ n \div 10 < m /\ n % 10 \in Figures
          /\ 10 * (n \div 10) + (n % 10) = n
      <4>1. n \div 10 \in Nat /\ n \div 10 < n /\ n % 10 \in Figures
        BY <2>2 DEF Figures
      <4>2. 10 * (n \div 10) + (n % 10) = n
        BY TensAndOnes
      <4> QED BY <4>1, <4>2
    <3>2. NumberOf[Digits[n \div 10]] = n \div 10
      BY <1>2, <3>1
    <3>3. Digits[n] = Append(Digits[n \div 10], n % 10) /\ Digits[n \div 10] \in Seq(Figures)
      BY <2>2, <3>1, DigitsAre
    <3>4. NumberOf[Digits[n]] = 10 * NumberOf[Digits[n \div 10]] + (n % 10)
      <4> DEFINE t == Digits[n \div 10]
                 d == n % 10
      <4>1. t \in Seq(Figures) /\ d \in Figures /\ Digits[n] = Append(t, d)
        BY <3>1, <3>3
      <4> HIDE DEF t, d
      <4>2. NumberOf[Append(t, d)] = 10 * NumberOf[t] + d
        BY <4>1, NumberGrows
      <4> QED BY <4>1, <4>2 DEF t, d
    <3> QED BY <3>1, <3>2, <3>4
  <2> QED BY <2>1, <2>2
<1> HIDE DEF Good
<1>3. \A m \in Nat : m \in Good
  BY <1>1, <1>2, CountUp
<1>4. \A n \in Nat : n + 1 \in Nat /\ n < n + 1
  OBVIOUS
<1> QED BY <1>3, <1>4 DEF Good

\* What says nothing may stand in front.
LEMMA NothingInFront ==
    ASSUME NEW z \in Seq(Figures), NumberOf[z] = 0
    PROVE  \A s \in Seq(Figures) : NumberOf[z \o s] = NumberOf[s]
PROOF
<1> DEFINE Good == {m \in Nat : \A s \in Seq(Figures) : Len(s) = m => NumberOf[z \o s] = NumberOf[s]}
<1>1. 0 \in Good
  <2>1. \A s \in Seq(Figures) : Len(s) = 0 => s = <<>>
    BY EmptySeq
  <2>2. z \o <<>> = z
    BY ConcatEmptySeq
  <2> QED BY <2>1, <2>2, NumberIs
<1>2. ASSUME NEW m \in Nat, m \in Good PROVE m + 1 \in Good
  <2> SUFFICES ASSUME NEW s \in Seq(Figures), Len(s) = m + 1 PROVE NumberOf[z \o s] = NumberOf[s]
    OBVIOUS
  <2> DEFINE r == Front(s)
             d == Last(s)
  <2>1. s # <<>>
    OBVIOUS
  <2>2. r \in Seq(Figures) /\ Len(r) = m /\ d \in Figures /\ s = Append(r, d)
    <3>1. /\ Front(s) \in Seq(Figures) /\ Len(Front(s)) = Len(s) - 1
          /\ Last(s) \in Figures /\ s = Append(Front(s), Last(s))
      BY <2>1, FrontAndLast
    <3> QED BY <3>1
  <2> HIDE DEF r, d
  <2>3. z \o s = Append(z \o r, d) /\ z \o r \in Seq(Figures)
    BY <2>2
  <2>4. NumberOf[z \o r] = NumberOf[r]
    BY <1>2, <2>2
  <2> QED BY <2>2, <2>3, <2>4, NumberIs
<1> HIDE DEF Good
<1>3. \A m \in Nat : m \in Good
  BY <1>1, <1>2, CountUp
<1>4. \A s \in Seq(Figures) : Len(s) \in Nat
  OBVIOUS
<1> QED BY <1>3, <1>4 DEF Good

LEMMA ZerosAre ==
    ASSUME NEW n \in Nat
    PROVE  Zeros(n) \in Seq(Figures) /\ Len(Zeros(n)) = n /\ NumberOf[Zeros(n)] = 0
PROOF
<1>1. \A m \in Nat : Zeros(m) \in Seq(Figures) /\ Len(Zeros(m)) = m
  BY DEF Zeros, Figures
<1> DEFINE Good == {m \in Nat : NumberOf[Zeros(m)] = 0}
<1>2. 0 \in Good
  <2>1. Zeros(0) = <<>>
    BY DEF Zeros
  <2> QED BY <2>1, NumberIs
<1>3. ASSUME NEW m \in Nat, m \in Good PROVE m + 1 \in Good
  <2>1. Zeros(m + 1) = Append(Zeros(m), 0)
    BY DEF Zeros
  <2>2. 0 \in Figures
    BY DEF Figures
  <2>3. NumberOf[Append(Zeros(m), 0)] = 10 * NumberOf[Zeros(m)] + 0
    <3>1. Zeros(m) \in Seq(Figures)
      BY <1>1
    <3>2. \A d \in Figures : NumberOf[Append(Zeros(m), d)] = 10 * NumberOf[Zeros(m)] + d
      BY <3>1, NumberIs
    <3> QED BY <2>2, <3>2
  <2>4. NumberOf[Zeros(m)] = 0
    BY <1>3
  <2>5. NumberOf[Zeros(m + 1)] = 0
    <3> DEFINE x == NumberOf[Zeros(m)]
               y == NumberOf[Append(Zeros(m), 0)]
    <3>1. x = 0 /\ y = 10 * x + 0
      BY <2>3, <2>4
    <3> HIDE DEF x, y
    <3>2. y = 0
      BY <3>1
    <3> QED BY <2>1, <3>2 DEF y
  <2> QED BY <2>5
<1> HIDE DEF Good
<1>4. n \in Good
  BY <1>2, <1>3, CountUp
<1> QED BY <1>1, <1>4 DEF Good

\* A decimal is shown with all of its digits, on the right sides of the point.
LEMMA DecimalIsRead ==
    ASSUME NEW unscaled \in Int, NEW scale \in Nat
    PROVE  ReadsDecimal(format_decimal(unscaled, scale), unscaled, scale)
PROOF
<1> DEFINE json == format_decimal(unscaled, scale)
           digits == Digits[Magnitude(unscaled)]
           split == Len(digits) - scale
<1>1. Magnitude(unscaled) \in Nat
      /\ unscaled = IF unscaled < 0 THEN - Magnitude(unscaled) ELSE Magnitude(unscaled)
  BY DEF Magnitude
<1>2. digits \in Seq(Figures) /\ NumberOf[digits] = Magnitude(unscaled)
  BY <1>1, DigitsAre, DigitsAreRead
<1>3. /\ json.negative = (unscaled < 0)
      /\ json.whole = IF split > 0 THEN SubSeq(digits, 1, split) ELSE <<0>>
      /\ json.fraction = IF split > 0 THEN SubSeq(digits, split + 1, Len(digits))
                         ELSE Zeros(- split) \o digits
  BY DEF format_decimal
<1> HIDE DEF digits, json
<1>4. CASE split > 0
  <2>1. split \in 1 .. Len(digits) /\ Len(digits) - split = scale
    BY <1>2, <1>4
  <2>2. /\ json.whole \o json.fraction = digits
        /\ Len(json.whole) = split /\ Len(json.fraction) = scale
    <3> HIDE DEF split
    <3>1. json.whole = SubSeq(digits, 1, split) /\ json.fraction = SubSeq(digits, split + 1, Len(digits))
      BY <1>3, <1>4
    <3>2. SubSeq(digits, 1, split) \o SubSeq(digits, split + 1, Len(digits)) = digits
      BY <1>2, <2>1
    <3>3. Len(SubSeq(digits, 1, split)) = split /\ Len(SubSeq(digits, split + 1, Len(digits))) = scale
      BY <1>2, <2>1
    <3> QED BY <3>1, <3>2, <3>3
  <2>3. json.whole # <<>>
    <3>1. split # 0
      BY <2>1
    <3> HIDE DEF split
    <3>2. Len(json.whole) # 0
      BY <2>2, <3>1
    <3> QED BY <3>2
  <2> QED BY <1>1, <1>2, <1>3, <2>2, <2>3 DEF ReadsDecimal, json
<1>5. CASE ~ (split > 0)
  <2> DEFINE z == Zeros(- split)
  <2>1. - split \in Nat
    BY <1>2, <1>5
  <2>2. z \in Seq(Figures) /\ Len(z) = - split /\ NumberOf[z] = 0
    BY <2>1, ZerosAre
  <2> HIDE DEF z
  <2>3. json.whole = <<0>> /\ json.fraction = z \o digits
    BY <1>3, <1>5 DEF z
  <2>4. Len(z \o digits) = scale /\ z \o digits \in Seq(Figures)
    BY <1>2, <2>2
  <2>5. NumberOf[z \o digits] = NumberOf[digits]
    BY <1>2, <2>2, NothingInFront
  <2>6. <<0>> \in Seq(Figures) /\ NumberOf[<<0>>] = 0
    <3>1. Digits[0] = <<0>>
      <4>1. Digits[0] = IF 0 < 10 THEN <<0>> ELSE Append(Digits[0 \div 10], 0 % 10)
        BY DigitsAre
      <4> QED BY <4>1
    <3> QED BY <3>1, DigitsAre, DigitsAreRead
  <2>7. NumberOf[<<0>> \o (z \o digits)] = NumberOf[z \o digits]
    <3> DEFINE t == z \o digits
    <3>1. t \in Seq(Figures)
      BY <2>4
    <3> HIDE DEF t
    <3>2. NumberOf[<<0>> \o t] = NumberOf[t]
      BY <2>6, <3>1, NothingInFront
    <3> QED BY <3>2 DEF t
  <2>8. json.whole # <<>> /\ Len(json.fraction) = scale
        /\ NumberOf[json.whole \o json.fraction] = Magnitude(unscaled)
    BY <1>2, <2>3, <2>4, <2>5, <2>7
  <2> QED BY <1>1, <1>3, <2>8 DEF ReadsDecimal, json
<1> QED BY <1>4, <1>5

-----------------------------------------------------------------------------
(* Times.                                                                  *)

\* Seconds and fraction make up a time, and the fraction is none of a second.
LEMMA SecondsAndFraction ==
    ASSUME NEW value \in Int
    PROVE  /\ value % PerSecond \in 0 .. PerSecond - 1
           /\ (value \div PerSecond) * PerSecond + (value % PerSecond) = value
PROOF
<1>1. PerSecond \in Nat \ {0}
  BY AvroValuesAssumption
<1> QED BY <1>1

\* A clock time is shown as it is.
LEMMA TimeIsRead ==
    ASSUME NEW value \in Int, NEW utc
    PROVE  ReadsTime(format_time(value), value) /\ ReadsTime(format_timestamp(value, utc), value)
PROOF
<1> DEFINE seconds == value \div PerSecond
           fraction == value % PerSecond
<1>1. fraction \in 0 .. PerSecond - 1 /\ seconds * PerSecond + fraction = value
  BY SecondsAndFraction
<1>2. ReadsTime(Raw(value), value)
  BY DEF ReadsTime, Raw
<1>3. \/ format_time(value) = Raw(value)
      \/ format_time(value) = [json |-> "time", seconds |-> seconds, fraction |-> fraction]
  BY DEF format_time
<1>4. \/ format_timestamp(value, utc) = Raw(value)
      \/ format_timestamp(value, utc)
           = [json |-> "timestamp", seconds |-> seconds, fraction |-> fraction, utc |-> utc]
  BY DEF format_timestamp
<1> HIDE DEF seconds, fraction
<1>5. ReadsTime(format_time(value), value)
  BY <1>1, <1>2, <1>3 DEF ReadsTime
<1>6. ReadsTime(format_timestamp(value, utc), value)
  BY <1>1, <1>2, <1>4 DEF ReadsTime
<1> QED BY <1>5, <1>6

\* A node is shown as what it is, at a place of the schema that it fits.
LEMMA NodeIsRead ==
    ASSUME NEW node, NEW schema, FitsNode(node, schema), schema.type = "decimal" => schema.scale \in Nat
    PROVE  ReadsNode(to_json_node(node, schema), node)
PROOF
<1> DEFINE json == to_json_node(node, schema)
<1>1. CASE node.kind = "decimal"
  <2>1. /\ schema.type = "decimal" /\ node.scale = schema.scale /\ node.unscaled \in Int
        /\ node.scale \in Nat
    BY <1>1 DEF FitsNode
  <2>2. json = format_decimal(node.unscaled, node.scale)
    BY <1>1, <2>1 DEF to_json_node
  <2>3. ReadsDecimal(json, node.unscaled, node.scale)
    BY <2>1, <2>2, DecimalIsRead
  <2> HIDE DEF json
  <2> QED BY <1>1, <2>3 DEF ReadsNode, ShapedKinds, json
<1>2. CASE node.kind = "date"
  <2>1. json = format_date(node.days)
    BY <1>2 DEF to_json_node
  <2>2. IF json.json = "number" THEN json.raw = node.days ELSE json.days = node.days
    BY <2>1 DEF format_date, Raw
  <2> HIDE DEF json
  <2> QED BY <1>2, <2>2 DEF ReadsNode, ShapedKinds, json
<1>3. CASE node.kind \in {"time", "timestamp", "local-timestamp"}
  <2>1. node.value \in Int
    BY <1>3 DEF FitsNode
  <2>2. json = format_time(node.value) \/ \E utc : json = format_timestamp(node.value, utc)
    BY <1>3 DEF to_json_node
  <2>3. ReadsTime(json, node.value)
    BY <2>1, <2>2, TimeIsRead
  <2> HIDE DEF json
  <2> QED BY <1>3, <2>3 DEF ReadsNode, ShapedKinds, json
<1>4. CASE node.kind \in {"union", "array", "map", "record"}
  BY <1>4 DEF to_json_node, ReadsNode, ShapedKinds
<1>5. CASE node.kind \notin ShapedKinds
  <2>1. json = [json |-> "plain", value |-> node]
    BY <1>5 DEF to_json_node, ShapedKinds
  <2>2. json.json = "plain" /\ json.value = node
    BY <2>1
  <2> HIDE DEF json
  <2> QED BY <1>5, <2>2 DEF ReadsNode, ShapedKinds, json
<1> QED BY <1>1, <1>2, <1>3, <1>4, <1>5 DEF ShapedKinds
-----------------------------------------------------------------------------
(* The walk.                                                               *)

\* What stands at a place is found by following the reference there.
LEMMA ReferenceIsFollowed ==
    ASSUME NEW schema, IsSchema(schema), NEW declared \in DOMAIN schema, NEW at,
           StandsFor(schema, declared, at)
    PROVE  deref(schema, declared) = at
PROOF
<1>1. SchemaAt(schema, declared) = schema[declared]
  BY DEF SchemaAt
<1>2. CASE schema[declared].type # "ref"
  BY <1>1, <1>2 DEF deref, StandsFor
<1>3. CASE schema[declared].type = "ref"
  <2> DEFINE named == {r \in NamesOf(schema) : schema[r].name = schema[declared].name}
  <2>1. at \in named
    BY <1>3 DEF StandsFor
  <2>2. \A r \in named : r = at
    BY <2>1 DEF IsSchema
  <2>3. deref(schema, declared) = CHOOSE r \in named : TRUE
    BY <1>1, <1>3, <2>1 DEF deref
  <2> HIDE DEF named
  <2> QED BY <2>1, <2>2, <2>3
<1> QED BY <1>2, <1>3

\* The schema of a child is the one that is declared for it.
LEMMA ChildIsDeclared ==
    ASSUME NEW schema, IsSchema(schema), NEW node, NEW child, node.at \in DOMAIN schema,
           FitsNode(node, schema[node.at]), node.kind \in {"union", "array", "map", "record"},
           node.kind = "record" => child \in DOMAIN node.fields
    PROVE  /\ ChildSchema(schema, node.at, node, child) = Declared(node, child)
           /\ Declared(node, child) \in DOMAIN schema
PROOF
<1> DEFINE at == node.at
           place == schema[at]
<1>1. SchemaAt(schema, at) = place /\ at \in DOMAIN schema
  BY DEF SchemaAt
<1>2. place.type = node.kind
  BY DEF FitsNode
<1>3. CASE node.kind = "union"
  <2>1. place.variants \in Nat /\ \A k \in 1 .. place.variants : Append(at, k) \in DOMAIN schema
    BY <1>1, <1>2, <1>3 DEF IsSchema
  <2>2. node.index \in 0 .. place.variants - 1
    BY <1>3 DEF FitsNode
  <2>3. node.index < place.variants /\ node.index + 1 \in 1 .. place.variants
    BY <2>1, <2>2
  <2>4. Declared(node, child) = Append(at, node.index + 1)
    BY <1>3 DEF Declared
  <2>5. ChildSchema(schema, at, node, child) = Append(at, node.index + 1)
    BY <1>1, <1>2, <1>3, <2>3 DEF ChildSchema
  <2> QED BY <2>1, <2>3, <2>4, <2>5
<1>4. CASE node.kind \in {"array", "map"}
  <2>1. Append(at, 1) \in DOMAIN schema
    BY <1>1, <1>2, <1>4 DEF IsSchema
  <2>2. Declared(node, child) = Append(at, 1)
    BY <1>4 DEF Declared
  <2>3. ChildSchema(schema, at, node, child) = Append(at, 1)
    BY <1>1, <1>2, <1>4 DEF ChildSchema
  <2> QED BY <2>1, <2>2, <2>3
<1>5. CASE node.kind = "record"
  <2>1. /\ \A j, k \in DOMAIN place.fields : place.fields[j] = place.fields[k] => j = k
        /\ \A k \in DOMAIN place.fields : Append(at, k) \in DOMAIN schema
    BY <1>1, <1>2, <1>5 DEF IsSchema
  <2>2. node.fields = place.fields
    BY <1>5 DEF FitsNode
  <2>3. child \in DOMAIN place.fields
    BY <1>5, <2>2
  <2> DEFINE found == {k \in DOMAIN place.fields : place.fields[k] = node.fields[child]}
  <2>4. child \in found /\ \A k \in found : k = child
    BY <2>1, <2>2, <2>3
  <2>5. FieldSchema(schema, at, node.fields[child])
          = IF found = {} THEN Nowhere ELSE Append(at, CHOOSE k \in found : TRUE)
    BY DEF FieldSchema
  <2> HIDE DEF found
  <2>6. FieldSchema(schema, at, node.fields[child]) = Append(at, child)
    BY <2>4, <2>5
  <2>7. Declared(node, child) = Append(at, child)
    BY <1>5 DEF Declared
  <2>8. ChildSchema(schema, at, node, child) = FieldSchema(schema, at, node.fields[child])
    BY <1>1, <1>2, <1>5 DEF ChildSchema
  <2> QED BY <2>1, <2>3, <2>6, <2>7, <2>8
<1> QED BY <1>3, <1>4, <1>5

\* One step further down a path.
LEMMA StepDown ==
    ASSUME NEW S, NEW path \in Seq(S), NEW n \in 1 .. Len(path)
    PROVE  /\ SubSeq(path, 1, n) # <<>> /\ Front(SubSeq(path, 1, n)) = SubSeq(path, 1, n - 1)
           /\ Last(SubSeq(path, 1, n)) = path[n]
PROOF
<1> DEFINE q == SubSeq(path, 1, n)
<1>1. q \in Seq(S) /\ Len(q) = n /\ n \in Nat \ {0}
  OBVIOUS
<1>2. q # <<>>
  BY <1>1
<1>3. Front(q) = SubSeq(q, 1, n - 1) /\ Last(q) = q[n]
  BY <1>1, <1>2, FrontAndLast DEF Front, Last
<1>4. SubSeq(q, 1, n - 1) = SubSeq(path, 1, n - 1) /\ q[n] = path[n]
  OBVIOUS
<1> HIDE DEF q
<1> QED BY <1>2, <1>3, <1>4 DEF q

\* With a value goes everything above it.
LEMMA PrefixesAreWritten ==
    ASSUME NEW value, NEW schema, IsWritten(value, schema), NEW path \in DOMAIN value
    PROVE  /\ path \in Seq(Nat \ {0})
           /\ \A n \in 0 .. Len(path) : SubSeq(path, 1, n) \in DOMAIN value
PROOF
<1> DEFINE L == Len(path)
           top(n) == SubSeq(path, 1, n)
           Good == {m \in Nat : m <= L => top(L - m) \in DOMAIN value}
<1>1. path \in Seq(Nat \ {0})
  BY DEF IsWritten
<1>2. L \in Nat /\ top(L) = path
  BY <1>1
<1>3. \A q \in DOMAIN value : q # <<>> => Front(q) \in DOMAIN value
  BY DEF IsWritten
<1>4. ASSUME NEW n \in 1 .. L PROVE top(n) # <<>> /\ Front(top(n)) = top(n - 1)
  BY <1>1, StepDown
<1> HIDE DEF L, top
<1>5. 0 \in Good
  BY <1>2
<1>6. ASSUME NEW m \in Nat, m \in Good PROVE m + 1 \in Good
  <2> SUFFICES ASSUME m + 1 <= L PROVE top(L - (m + 1)) \in DOMAIN value
    OBVIOUS
  <2>1. L - m \in 1 .. L /\ (L - m) - 1 = L - (m + 1) /\ m <= L
    BY <1>2
  <2>2. top(L - m) \in DOMAIN value
    BY <1>6, <2>1
  <2>3. top(L - m) # <<>> /\ Front(top(L - m)) = top((L - m) - 1)
    BY <1>4, <2>1
  <2> QED BY <1>3, <2>1, <2>2, <2>3
<1> HIDE DEF Good
<1>7. \A m \in Nat : m \in Good
  BY <1>5, <1>6, CountUp
<1>8. ASSUME NEW n \in 0 .. L PROVE top(n) \in DOMAIN value
  <2>1. L - n \in Nat /\ L - n <= L /\ L - (L - n) = n
    BY <1>2
  <2>2. L - n \in Good
    BY <1>7, <2>1
  <2> QED BY <2>1, <2>2 DEF Good
<1> QED BY <1>1, <1>8 DEF L, top

\* What takes the steps of the walk is the walk.
ArePlaces(g, value, schema, path) ==
    g = [n \in 0 .. Len(path) |->
            deref(schema,
                IF n = 0 THEN <<>>
                ELSE ChildSchema(schema, g[n - 1], value[SubSeq(path, 1, n - 1)], path[n]))]

LEMMA PlacesAre ==
    ASSUME NEW value, NEW schema, NEW path, Len(path) \in Nat, NEW g, ArePlaces(g, value, schema, path)
    PROVE  Places(value, schema, path) = g
PROOF
<1> DEFINE L == Len(path)
           step(n, place) == deref(schema, ChildSchema(schema, place, value[SubSeq(path, 1, n - 1)], path[n]))
           start == deref(schema, <<>>)
           Eq(f) == f = [n \in 0 .. L |->
                            deref(schema,
                                IF n = 0 THEN <<>>
                                ELSE ChildSchema(schema, f[n - 1], value[SubSeq(path, 1, n - 1)], path[n]))]
           h == CHOOSE f : Eq(f)
<1>1. Places(value, schema, path) = h
  BY DEF Places
<1>2. Eq(g)
  BY Zenon DEF ArePlaces
<1>3. Eq(h)
  <2> HIDE DEF Eq
  <2> QED BY <1>2
<1> HIDE DEF h
<1>4. ASSUME NEW f, Eq(f)
      PROVE  /\ f[0] = start /\ DOMAIN f = 0 .. L /\ f = [n \in 0 .. L |-> f[n]]
             /\ \A n \in 1 .. L : f[n] = step(n, f[n - 1])
  <2>1. \A n \in 1 .. L : n \in 0 .. L /\ n # 0
    OBVIOUS
  <2>2. 0 \in 0 .. L
    OBVIOUS
  <2> HIDE DEF L
  <2>3. \A n \in 0 .. L : f[n] = deref(schema,
                                IF n = 0 THEN <<>>
                                ELSE ChildSchema(schema, f[n - 1], value[SubSeq(path, 1, n - 1)], path[n]))
    BY <1>4
  <2>4. f[0] = start
    BY <2>2, <2>3
  <2>5. \A n \in 1 .. L : f[n] = step(n, f[n - 1])
    BY <2>1, <2>3
  <2>6. DOMAIN f = 0 .. L /\ f = [n \in 0 .. L |-> f[n]]
    BY <1>4
  <2> QED BY <2>4, <2>5, <2>6
<1> DEFINE Good == {n \in Nat : n <= L => h[n] = g[n]}
<1>5. 0 \in Good
  <2> HIDE DEF Eq, start
  <2> QED BY <1>2, <1>3, <1>4
<1>6. ASSUME NEW n \in Nat, n \in Good PROVE n + 1 \in Good
  <2> SUFFICES ASSUME n + 1 <= L PROVE h[n + 1] = g[n + 1]
    OBVIOUS
  <2>1. h[n] = g[n] /\ n + 1 \in 1 .. L /\ (n + 1) - 1 = n
    BY <1>6
  <2> HIDE DEF Eq, step, start
  <2>2. h[n + 1] = step(n + 1, h[(n + 1) - 1]) /\ g[n + 1] = step(n + 1, g[(n + 1) - 1])
    BY <1>2, <1>3, <1>4, <2>1
  <2> QED BY <2>1, <2>2
<1> HIDE DEF Good
<1>7. \A n \in Nat : n \in Good
  BY <1>5, <1>6, CountUp
<1>8. ASSUME NEW n \in 0 .. L PROVE h[n] = g[n]
  <2>1. n \in Nat /\ n <= L
    OBVIOUS
  <2> QED BY <1>7, <2>1 DEF Good
<1>9. h = g
  <2>1. h = [n \in 0 .. L |-> h[n]] /\ g = [n \in 0 .. L |-> g[n]]
    <3> HIDE DEF Eq
    <3> QED BY <1>2, <1>3, <1>4
  <2> HIDE DEF L
  <2>2. [n \in 0 .. L |-> h[n]] = [n \in 0 .. L |-> g[n]]
    BY <1>8
  <2> QED BY <2>1, <2>2, Zenon
<1> QED BY <1>1, <1>9

\* The walk down a path ends at the place where the value was written.
LEMMA WalkIsRight ==
    ASSUME NEW value, NEW schema, IsSchema(schema), IsWritten(value, schema), NEW path \in DOMAIN value
    PROVE  Places(value, schema, path)[Len(path)] = value[path].at
PROOF
<1> DEFINE L == Len(path)
           top(n) == SubSeq(path, 1, n)
           g == [n \in 0 .. L |-> value[top(n)].at]
<1>1. path \in Seq(Nat \ {0}) /\ L \in Nat /\ \A n \in 0 .. L : top(n) \in DOMAIN value
  BY PrefixesAreWritten
<1>2. top(0) = <<>> /\ top(L) = path
  BY <1>1
<1>3. deref(schema, <<>>) = value[<<>>].at
  <2>1. <<>> \in DOMAIN schema
    BY DEF IsSchema
  <2>2. StandsFor(schema, <<>>, value[<<>>].at)
    BY DEF IsWritten
  <2> QED BY <2>1, <2>2, ReferenceIsFollowed
<1>4. ASSUME NEW n \in 1 .. L
      PROVE  deref(schema, ChildSchema(schema, value[top(n - 1)].at, value[top(n - 1)], path[n]))
               = value[top(n)].at
  <2> DEFINE parent == value[top(n - 1)]
             q == top(n)
             child == path[n]
  <2>1. q # <<>> /\ Front(q) = top(n - 1) /\ Last(q) = child
    BY <1>1, StepDown
  <2>2. q \in DOMAIN value /\ top(n - 1) \in DOMAIN value
    <3>1. n \in 0 .. L /\ n - 1 \in 0 .. L
      BY <1>1
    <3> HIDE DEF L, top
    <3> QED BY <1>1, <3>1
  <2> HIDE DEF top, L, q, child
  <2>3. /\ parent.kind \in {"union", "array", "map", "record"}
        /\ parent.kind = "record" => child \in DOMAIN parent.fields
        /\ StandsFor(schema, Declared(parent, child), value[q].at)
        /\ parent.at \in DOMAIN schema /\ FitsNode(parent, schema[parent.at])
    BY <2>1, <2>2 DEF IsWritten
  <2> HIDE DEF parent
  <2>4. /\ ChildSchema(schema, parent.at, parent, child) = Declared(parent, child)
        /\ Declared(parent, child) \in DOMAIN schema
    BY <2>3, ChildIsDeclared
  <2>5. deref(schema, Declared(parent, child)) = value[q].at
    BY <2>3, <2>4, ReferenceIsFollowed
  <2> QED BY <2>4, <2>5 DEF parent, q, child
<1> HIDE DEF top
<1>5. ASSUME NEW n \in 0 .. L
      PROVE  value[top(n)].at
               = deref(schema,
                    IF n = 0 THEN <<>>
                    ELSE ChildSchema(schema, g[n - 1], value[top(n - 1)], path[n]))
  <2>1. CASE n = 0
    BY <1>2, <1>3, <2>1
  <2>2. CASE n # 0
    <3>1. n \in 1 .. L /\ n - 1 \in 0 .. L
      BY <1>1, <2>2
    <3>2. g[n - 1] = value[top(n - 1)].at
      BY <3>1
    <3> HIDE DEF g
    <3> QED BY <1>4, <2>2, <3>1, <3>2
  <2> QED BY <2>1, <2>2
<1>6. ArePlaces(g, value, schema, path)
  <2>1. g = [n \in 0 .. L |->
                deref(schema,
                    IF n = 0 THEN <<>>
                    ELSE ChildSchema(schema, g[n - 1], value[top(n - 1)], path[n]))]
    BY <1>5, Zenon
  <2> HIDE DEF g
  <2> QED BY <2>1, Zenon DEF ArePlaces, top
<1>7. Places(value, schema, path) = g
  <2> HIDE DEF g
  <2> QED BY <1>1, <1>6, PlacesAre
<1>8. g[L] = value[top(L)].at
  <2>1. L \in 0 .. L
    BY <1>1
  <2> HIDE DEF L
  <2> QED BY <2>1
<1> QED BY <1>2, <1>7, <1>8

\* A value is shown as it was written.
LEMMA ValueIsRead ==
    ASSUME NEW value, NEW schema, IsSchema(schema), IsWritten(value, schema)
    PROVE  Reads(to_json(value, schema), value)
PROOF
<1> DEFINE json == to_json(value, schema)
<1>1. DOMAIN json = DOMAIN value
  BY DEF to_json
<1>2. ASSUME NEW path \in DOMAIN value PROVE ReadsNode(json[path], value[path])
  <2> DEFINE node == value[path]
             place == schema[node.at]
  <2>1. json[path] = to_json_node(node, SchemaAt(schema, Places(value, schema, path)[Len(path)]))
    BY DEF to_json
  <2>2. Places(value, schema, path)[Len(path)] = node.at
    BY WalkIsRight
  <2>3. node.at \in DOMAIN schema /\ FitsNode(node, place)
    BY DEF IsWritten
  <2>4. SchemaAt(schema, node.at) = place
    BY <2>3 DEF SchemaAt
  <2>5. place.type = "decimal" => place.scale \in Nat
    BY <2>3 DEF IsSchema
  <2> HIDE DEF node, place, json
  <2>6. ReadsNode(to_json_node(node, place), node)
    BY <2>3, <2>5, NodeIsRead
  <2> QED BY <2>1, <2>2, <2>4, <2>6 DEF node
<1> HIDE DEF json
<1> QED BY <1>1, <1>2 DEF Reads, json
\* The records of a container are shown as they were written, and so is the one
\* a registered schema was looked up for.
LEMMA AvroHolds == SchemaIInv => AvroValuesReadBack
PROOF
<1> SUFFICES ASSUME SchemaIInv, NEW v \in Viewers, Shown(v),
                    view[v].strategy.kind \in {"container", "registry"}, view[v].format = "avro",
                    view[v].payload.frame \in {"avro", "container"}
             PROVE  LET payload == view[v].payload
                        json == IF view[v].strategy.kind = "container"
                                THEN decode_container(payload.records, payload.schema)
                                ELSE Found(to_json(payload.records[1], payload.schema))
                    IN  /\ Len(payload.records) = 0 => json = NoResult
                        /\ Len(payload.records) = 1 => Reads(The(json), payload.records[1])
                        /\ Len(payload.records) > 1 =>
                              \A k \in 1 .. Len(payload.records) : Reads(The(json).items[k], payload.records[k])
  BY DEF AvroValuesReadBack
<1> DEFINE s == view[v].strategy
           p == view[v].payload
           format == view[v].format
           records == p.records
           written(k) == to_json(records[k], p.schema)
           json == IF s.kind = "container" THEN decode_container(records, p.schema) ELSE Found(written(1))
<1> SUFFICES /\ Len(records) = 0 => json = NoResult
             /\ Len(records) = 1 => Reads(The(json), records[1])
             /\ Len(records) > 1 =>
                   \A k \in 1 .. Len(records) : Reads(The(json).items[k], records[k])
  OBVIOUS
<1>1. DecidedView(view[v]) /\ p \in Payloads
  BY AShownView DEF DecidedView
<1>2. PICK manual, registry \in BOOLEAN :
         s = decide_decode_strategy(format, p.bytes, manual, registry)
  BY AShownView
<1>3. s.kind \in {"container", "registry"} /\ format = "avro" /\ p.frame \in {"avro", "container"}
  OBVIOUS
<1> HIDE DEF s, p, format
<1>4. /\ p.frame = "avro" => Len(records) = 1
      /\ p.frame = "container" => detect_container_file(p.bytes) /\ Len(records) \in Nat
      /\ IsSchema(p.schema) /\ \A k \in 1 .. Len(records) : IsWritten(records[k], p.schema)
  <2>1. IsPayload(p)
    BY <1>1, SchemaDecodingAssumption
  <2> QED BY <1>3, <2>1 DEF IsPayload
<1>5. s.kind = "registry" => Len(records) = 1
  <2>1. s.kind = "registry" => ~ detect_container_file(p.bytes)
    BY <1>2, <1>3, AvroFramingDecides
  <2> QED BY <1>3, <1>4, <2>1
<1> HIDE DEF records
<1>6. ASSUME NEW k \in 1 .. Len(records) PROVE Reads(written(k), records[k])
  BY <1>4, ValueIsRead
<1>7. \A x : The(Found(x)) = x
  BY DEF The, Found
<1> HIDE DEF written
<1>8. CASE Len(records) = 0
  <2>1. json = decode_container(records, p.schema)
    BY <1>3, <1>5, <1>8
  <2>2. json = NoResult
    BY <1>8, <2>1 DEF decode_container, NoResult
  <2> HIDE DEF json
  <2> QED BY <1>8, <2>2
<1>9. CASE Len(records) = 1
  <2>1. json = Found(written(1))
    BY <1>9 DEF decode_container, Found, written
  <2>2. Reads(written(1), records[1])
    <3>1. 1 \in 1 .. Len(records)
      BY <1>9
    <3> QED BY <1>6, <3>1
  <2> HIDE DEF json
  <2> QED BY <1>7, <1>9, <2>1, <2>2
<1>10. CASE Len(records) \in Nat /\ Len(records) > 1
  <2> DEFINE many == Len(records)
  <2>0. many # 0 /\ many # 1
    <3>1. many \in Nat /\ many > 1
      BY <1>10
    <3> HIDE DEF many
    <3> QED BY <3>1
  <2>1. json = Found([json |-> "array", items |-> [k \in 1 .. Len(records) |-> written(k)]])
    <3>1. json = decode_container(records, p.schema)
      BY <1>3, <1>5, <2>0
    <3> QED BY <2>0, <3>1 DEF decode_container, Found, written
  <2> HIDE DEF json
  <2>2. The(json).items = [k \in 1 .. Len(records) |-> written(k)]
    BY <1>7, <2>1
  <2>3. ASSUME NEW k \in 1 .. Len(records) PROVE Reads(The(json).items[k], records[k])
    BY <1>6, <2>2
  <2> QED BY <2>0, <2>3
<1> QED BY <1>3, <1>4, <1>8, <1>9, <1>10

\* A payload that is shown is shown as its producer wrote it: in every state the
\* framing is recognised and stripped, whoever supplies the schema; the message
\* is the one the framing names; without a schema the bytes are read as the
\* fields they are made of; and an Avro value is shown as the value it is, by a
\* walk through the schema it was written with.
THEOREM PayloadsAreShownAsWritten == Spec => []ShownIsWhatWasWritten
<1>1. SchemaIInv => ShownIsWhatWasWritten
  BY FramingHolds, MessageHolds, RawHolds, AvroHolds DEF ShownIsWhatWasWritten
<1> QED BY <1>1, SchemaAlways, PTL
=============================================================================
