------------------------------- MODULE DataTab -------------------------------
(***************************************************************************)
(* The Data tab and the store of rows behind it (frontend/src/features/    *)
(* connections/DataTab.tsx, workspace/useTabDataStore.ts).                 *)
(*                                                                         *)
(* A fetch reaches the window twice: as events, which are buffered and     *)
(* flushed on a timer, and as the response that ends it, whose order       *)
(* against the last events nobody fixes.  Meanwhile the user stops, starts *)
(* another fetch, looks at another view, leaves, asks for the payload of   *)
(* one row, or clears the memory.  All views share one budget of retained  *)
(* bytes, and the coldest ones lose their rows to keep it.                 *)
(*                                                                         *)
(* What the backend sends of one fetch is FetchDelivery's promise: every   *)
(* message once, in order, an event's or the response's.  Handlers run to  *)
(* their next await without interruption, as in any webview.               *)
(***************************************************************************)
EXTENDS Integers, Sequences, FiniteSetsExt, Functions

CONSTANTS
    Null,
    Views,          \* dataTabCacheKey: what a Data tab can be showing
    Limit,          \* maxTotalFetchBytes
    Previews,       \* bytes a fetched row holds; 0 without payloads
    Whole,          \* bytes of a row whose payload was fetched on its own
    MaxFetches,     \* bound: fetches begun
    MaxMessages     \* bound: messages of a fetch

ASSUME DataTabAssumption ==
    /\ Null \notin Views \union Nat /\ IsFiniteSet(Views)
    /\ Limit \in Nat /\ Previews \subseteq Nat /\ Whole \in Nat
    /\ \A size \in Previews : size <= Whole
    /\ MaxFetches \in Nat /\ MaxMessages \in Nat

VARIABLES
    tabKey,         \* the view on screen, or Null while the tab is unmounted
    stopped,        \* stoppedRef
    active,         \* activeRequestIdRef
    isPlaying,
    buffer,         \* streamBufferRef
    handle,         \* streamFlushHandleRef holds a timer
    timers,         \* timers that will call flush, held or not
    mine,           \* fetches begun by the component that is mounted
    fetches,        \* every fetch, as the window hears of it
    store,          \* useTabDataStore
    asked,          \* the row whose payload is being fetched
    cleared,        \* history: memory was cleared since the last Fetch
    phantom         \* history: views charged for a row that had gone

refVars == <<stopped, active, buffer, handle, timers, mine>>
tabVars == <<tabKey, isPlaying, refVars>>
dataVars == <<store, phantom>>
tabDataVars == <<tabVars, fetches, dataVars, asked, cleared>>

FetchIds == 1 .. MaxFetches

\* A row is a message of a fetch; fetches of one view meet the same offsets.
Rows(f, first, last) ==
    [i \in 1 .. last - first + 1 |->
        [fetch |-> f, offset |-> first + i - 1, size |-> fetches[f].preview]]

retainedPayloadBytes(rows) ==
    SumFunction([i \in DOMAIN rows |-> rows[i].size])
-----------------------------------------------------------------------------
(* The store.  Of the times views were last used only the order matters: a
   view that holds anything has its rank.  One that holds nothing is nobody's
   candidate for eviction, and is used again by what fills it.            *)

EmptyStore == [rows |-> [v \in Views |-> <<>>], bytes |-> [v \in Views |-> 0],
               lastUsed |-> [v \in Views |-> 0], evicted |-> {}]

totalRetainedPayloadBytes(s) == SumFunction(s.bytes)

\* Now, which is later than any rank.
touchTab(s, v) == [s EXCEPT !.lastUsed[v] = Cardinality(Views) + 1]

setTabMessages(s, v, rows) == touchTab([s EXCEPT !.rows[v] = rows], v)

appendTabMessages(s, v, rows) ==
    IF rows = <<>> THEN s ELSE setTabMessages(s, v, s.rows[v] \o rows)

\* Rows go with everything that describes them.
Dropped(s, gone) ==
    [s EXCEPT !.rows = [v \in Views |-> IF v \in gone THEN <<>> ELSE @[v]],
              !.bytes = [v \in Views |-> IF v \in gone THEN 0 ELSE @[v]],
              !.lastUsed = [v \in Views |-> IF v \in gone THEN 0 ELSE @[v]]]

clearTabMessages(s, gone) == [Dropped(s, gone) EXCEPT !.evicted = @ \ gone]

\* For comparison: a view is held to the limit, not all of them together.
EvictByView(s, protected) ==
    LET gone == {v \in Views \ {protected} : s.bytes[v] > Limit}
    IN [Dropped(s, gone) EXCEPT !.evicted = @ \union gone]

\* A view that holds anything has to go if it does not do that all colder ones
\* go; the protected one never does.
evictToFit(s, protected) ==
    LET candidates == {v \in Views \ {protected} : s.bytes[v] > 0}
        colder(v) == {w \in candidates : s.lastUsed[w] < s.lastUsed[v]}
        gone == {v \in candidates :
                   totalRetainedPayloadBytes(Dropped(s, colder(v))) > Limit}
    IN [Dropped(s, gone) EXCEPT !.evicted = @ \union gone]

\* Rows that arrive are appended, charged, and room is made for them.
Retain(s, v, rows) ==
    IF rows = <<>> THEN s
    ELSE [appendTabMessages(s, v, rows) EXCEPT !.bytes[v] = @ + retainedPayloadBytes(rows)]

\* The next state of the store, given the views it charges for a lost row.
PutCharging(s, lost) ==
    LET holding == {v \in Views : s.bytes[v] > 0}
        rank(v) == Cardinality({w \in holding : s.lastUsed[w] <= s.lastUsed[v]})
    IN /\ store' = [s EXCEPT !.lastUsed = [v \in Views |->
                                  IF v \in holding THEN rank(v) ELSE 0]]
       /\ phantom' = (phantom \union lost) \intersect holding

Put(s) == PutCharging(s, {})
-----------------------------------------------------------------------------
TabInit ==
    /\ tabKey \in Views
    /\ stopped = TRUE /\ active = Null /\ isPlaying = FALSE
    /\ buffer = <<>> /\ handle = FALSE /\ timers = 0 /\ mine = {}
    /\ fetches = [f \in FetchIds |->
                    [view |-> Null, preview |-> 0, state |-> "none",
                     emitted |-> 0, handled |-> 0, total |-> 0]]
    /\ store = EmptyStore /\ phantom = {}
    /\ asked = Null /\ cleared = FALSE

\* For comparison: what was buffered stays for the next fetch.
KeepBufferedStream == UNCHANGED <<buffer, handle, timers>>

\* A timer that is still held is cleared; one that flush let go of is not.
discardBufferedStream ==
    /\ buffer' = <<>>
    /\ handle' = FALSE
    /\ timers' = IF handle THEN timers - 1 ELSE timers

\* The request id stays: the response of this fetch still has to find it.
stopActiveFetch ==
    /\ stopped' = TRUE
    /\ discardBufferedStream
    /\ isPlaying' = FALSE
    /\ UNCHANGED <<active, mine>>

\* The Fetch button, up to the await.
handlePlay ==
    /\ tabKey # Null /\ ~isPlaying
    /\ \E f \in FetchIds, preview \in Previews :
          /\ \A g \in FetchIds : fetches[g].state = "none" <=> g >= f
          /\ fetches' = [fetches EXCEPT ![f] =
                           [@ EXCEPT !.view = tabKey, !.preview = preview, !.state = "running"]]
          /\ active' = f
          /\ mine' = mine \union {f}
    /\ isPlaying' = TRUE /\ stopped' = FALSE
    /\ discardBufferedStream
    /\ Put(clearTabMessages(store, {tabKey}))
    /\ cleared' = FALSE
    /\ UNCHANGED <<tabKey, asked>>

handleStop ==
    /\ isPlaying
    /\ stopActiveFetch
    /\ UNCHANGED <<tabKey, fetches, dataVars, asked, cleared>>
-----------------------------------------------------------------------------
(* What the backend sends. *)

\* The response: how many messages were streamed, and how many there are.
Respond(f) ==
    /\ fetches[f].state = "running"
    /\ \E emitted \in fetches[f].handled .. MaxMessages :
       \E total \in emitted .. MaxMessages, state \in {"answered", "failed"} :
          fetches' = [fetches EXCEPT ![f] =
              [@ EXCEPT !.state = state, !.emitted = emitted, !.total = total]]
    /\ UNCHANGED <<tabVars, dataVars, asked, cleared>>

\* For comparison: events of any request are taken.
ListensToAll(f) == tabKey # Null /\ ~stopped

\* The listener takes the events of the fetch that is going on.
IsListenedTo(f) == tabKey # Null /\ ~stopped /\ active = f

\* The messages-batch listener, before the response or behind it.
HandleEvent(f) ==
    /\ \/ fetches[f].state = "running" /\ fetches[f].handled < MaxMessages
       \/ fetches[f].handled < fetches[f].emitted
    /\ fetches' = [fetches EXCEPT ![f].handled = @ + 1]
    /\ LET n == fetches[f].handled + 1
       IN IF IsListenedTo(f)
          THEN /\ buffer' = buffer \o Rows(f, n, n)
               /\ handle' = TRUE
               /\ timers' = IF handle THEN timers ELSE timers + 1
          ELSE UNCHANGED <<buffer, handle, timers>>
    /\ UNCHANGED <<tabKey, isPlaying, stopped, active, mine, dataVars, asked, cleared>>

\* The timer fires: what is buffered becomes rows of the view on screen.
flush ==
    /\ timers > 0
    /\ timers' = timers - 1
    /\ handle' = FALSE
    /\ buffer' = <<>>
    /\ IF buffer = <<>> THEN UNCHANGED dataVars
       ELSE Put(evictToFit(Retain(store, tabKey, buffer), tabKey))
    /\ UNCHANGED <<tabKey, isPlaying, stopped, active, mine, fetches, asked, cleared>>

\* The fetch the component's refs still name.
IsCurrent(f) == f \in mine /\ active = f

\* For comparison: a fetch that was replaced ends its successor's spinner.
EndsAnyway(f) == f \in mine

\* The condition of the finally: retired above, or still the current one.
EndsTheFetch(f) == IsCurrent(f)

\* For comparison: the buffer is dropped with the answer, as it was when the
\* response repeated every row.
ApplyWithoutFlush(f) ==
    LET rest == Rows(f, fetches[f].emitted + 1, fetches[f].total)
    IN evictToFit(Retain(store, fetches[f].view, rest), fetches[f].view)

\* What is buffered, then what the stream did not deliver.
Applied(f) ==
    LET v == fetches[f].view
        rest == Rows(f, fetches[f].emitted + 1, fetches[f].total)
    IN evictToFit(Retain(evictToFit(Retain(store, tabKey, buffer), tabKey), v, rest), v)

\* handlePlay after its await.  The early flush lets go of its timer without
\* clearing it.
Settle(f) ==
    /\ fetches[f].state \in {"answered", "failed"}
    /\ fetches' = [fetches EXCEPT ![f].state = "settled"]
    /\ LET applies == IsCurrent(f) /\ ~stopped /\ fetches[f].state = "answered"
       IN /\ IF applies THEN Put(Applied(f)) ELSE UNCHANGED dataVars
          /\ IF ~EndsTheFetch(f) THEN UNCHANGED <<active, isPlaying, buffer, handle, timers>>
             ELSE /\ active' = Null /\ isPlaying' = FALSE
                  /\ buffer' = <<>> /\ handle' = FALSE
                  /\ timers' = IF handle /\ ~applies THEN timers - 1 ELSE timers
    /\ UNCHANGED <<tabKey, stopped, mine, asked, cleared>>
-----------------------------------------------------------------------------
(* What else the user does. *)

\* Another topic or partition in the same tab: the component is reused.
SwitchTo(v) ==
    /\ tabKey \notin {Null, v}
    /\ tabKey' = v
    /\ stopActiveFetch
    /\ Put(touchTab(store, v))
    /\ UNCHANGED <<fetches, asked, cleared>>

\* For comparison: the timer of a flush outlives its tab.
UnmountedWithATimer ==
    /\ tabKey' = Null /\ isPlaying' = FALSE
    /\ stopped' = TRUE /\ active' = Null
    /\ mine' = {} /\ UNCHANGED <<buffer, handle, timers>>

Unmounted ==
    /\ tabKey' = Null /\ isPlaying' = FALSE
    /\ stopped' = TRUE /\ active' = Null
    /\ buffer' = <<>> /\ handle' = FALSE /\ timers' = 0 /\ mine' = {}

\* Another sub-tab, another node of the tree, another top-level tab.
Unmount ==
    /\ tabKey # Null
    /\ Unmounted
    /\ UNCHANGED <<fetches, dataVars, asked, cleared>>

Mount(v) ==
    /\ tabKey = Null
    /\ tabKey' = v
    /\ Put(touchTab(store, v))
    /\ UNCHANGED <<isPlaying, refVars, fetches, asked, cleared>>

\* The bottom panel's Clear memory.
clearAllMessagesForTab ==
    /\ tabKey # Null
    /\ Put(clearTabMessages(store, Views))
    /\ cleared' = TRUE
    /\ UNCHANGED <<tabVars, fetches, asked>>

\* The cluster is disconnected, or the tab closed: its panes go with its rows.
clearForConnection ==
    /\ tabKey # Null
    /\ Unmounted
    /\ Put(clearTabMessages(store, Views))
    /\ UNCHANGED <<fetches, asked, cleared>>

\* Fetch payload, on one row.
AskPayload ==
    /\ tabKey # Null /\ asked = Null
    /\ \E i \in DOMAIN store.rows[tabKey] :
          asked' = [view |-> tabKey, offset |-> store.rows[tabKey][i].offset]
    /\ UNCHANGED <<tabVars, fetches, dataVars, cleared>>

\* For comparison: the new payload is charged on top of the old one.
ChargedOnTop(s) == Whole

\* The row is looked for in what the view holds by now; what it held before
\* is released.
Charge(s) ==
    LET rows == s.rows[asked.view]
        replaced == {i \in DOMAIN rows : rows[i].offset = asked.offset}
        size == [i \in DOMAIN rows |-> rows[i].size]
    IN Whole - SumFunctionOnSet(size, replaced)

PatchedRows(s) ==
    LET rows == s.rows[asked.view]
    IN [i \in DOMAIN rows |->
          IF rows[i].offset = asked.offset THEN [rows[i] EXCEPT !.size = Whole] ELSE rows[i]]

IsHeld(s) == \E i \in DOMAIN s.rows[asked.view] : s.rows[asked.view][i].offset = asked.offset

\* fetchPayloadForRow after its await, in whatever has become of the view.
PayloadAnswers ==
    /\ asked # Null
    /\ LET v == asked.view
           charged == [store EXCEPT !.bytes[v] = @ + Charge(store)]
       IN PutCharging(evictToFit(setTabMessages(charged, v, PatchedRows(store)), v),
                      IF IsHeld(store) THEN {} ELSE {v})
    /\ asked' = Null
    /\ UNCHANGED <<tabVars, fetches, cleared>>

\* Nothing at that offset any more, or an error.
PayloadFails ==
    /\ asked # Null
    /\ asked' = Null
    /\ UNCHANGED <<tabVars, fetches, dataVars, cleared>>

TabNext ==
    \/ handlePlay \/ handleStop \/ flush
    \/ \E f \in FetchIds : Respond(f) \/ HandleEvent(f) \/ Settle(f)
    \/ \E v \in Views : SwitchTo(v) \/ Mount(v)
    \/ Unmount \/ clearAllMessagesForTab \/ clearForConnection
    \/ AskPayload \/ PayloadAnswers \/ PayloadFails

TabSpec == TabInit /\ [][TabNext]_tabDataVars
-----------------------------------------------------------------------------
RowType == [fetch : FetchIds, offset : 1 .. MaxMessages, size : Previews \union {Whole}]

\* Type invariant.  A flush is only ever due while a tab is mounted.
TabTypeOK ==
    /\ tabKey \in Views \union {Null}
    /\ stopped \in BOOLEAN /\ isPlaying \in BOOLEAN /\ handle \in BOOLEAN
    /\ active \in FetchIds \union {Null}
    /\ buffer \in Seq(RowType)
    /\ timers \in Nat /\ (handle => timers > 0)
    /\ tabKey = Null => timers = 0
    /\ \A v \in Views : store.rows[v] \in Seq(RowType) /\ store.bytes[v] \in Nat
    /\ store.evicted \subseteq Views

\* What a view shows, with what is about to be added to it.
Coming(v) == store.rows[v] \o (IF v = tabKey THEN buffer ELSE <<>>)

\* The rows of a view, those still buffered included, are messages of one
\* fetch, the last one begun in that view, each once and in order: not those
\* of a fetch stopped, replaced or left, however late its events come.
RowsAreOfOneFetch ==
    \A v \in Views : \A i, j \in DOMAIN Coming(v) :
        LET row == Coming(v)[i]
        IN /\ fetches[row.fetch].view = v
           /\ \A f \in FetchIds : fetches[f].view = v => f <= row.fetch
           /\ i < j => row.offset < Coming(v)[j].offset

\* The tab is busy exactly while the fetch it would show is under way: the
\* end of a fetch that was stopped or replaced does not free it.
BusyWhileItsFetchRuns ==
    isPlaying <=> /\ ~stopped
                  /\ \E f \in mine : /\ fetches[f].state # "settled"
                                    /\ \A g \in mine : g <= f

\* A fetch that completes has all its messages on screen, whatever was still
\* buffered, unless the view says that rows were evicted, the user cleared
\* them, or an event has yet to be handled.
CompletedFetchIsWhole ==
    [][\A f \in FetchIds :
          /\ fetches[f].state = "answered" /\ fetches'[f].state = "settled"
          /\ IsCurrent(f) /\ ~stopped
          /\ fetches[f].handled = fetches[f].emitted
          /\ ~cleared
          /\ fetches[f].view \notin store'.evicted
          => [i \in DOMAIN store'.rows[fetches[f].view] |-> store'.rows[fetches[f].view][i].offset]
             = [i \in 1 .. fetches[f].total |-> i]]_tabDataVars

\* A view is charged for what its rows hold, through flushes, patches and
\* evictions, and for no less.  It is charged for more only once the payload
\* of a row has come after the row had gone.
BytesAreOfTheRows ==
    \A v \in Views :
        LET held == retainedPayloadBytes(store.rows[v])
        IN store.bytes[v] >= held /\ (v \notin phantom => store.bytes[v] = held)

\* The budget holds at rest, however many views there are: unless one view
\* alone is over it.
RetainedWithinLimit ==
    \/ totalRetainedPayloadBytes(store) <= Limit
    \/ Cardinality({v \in Views : store.bytes[v] > 0}) <= 1

\* The store's books are right: the variables have their types, bytes are
\* those of rows, and they are within the budget.
RetentionInvariant ==
    TabTypeOK /\ BytesAreOfTheRows /\ RetainedWithinLimit
=============================================================================
