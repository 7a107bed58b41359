--------------------------- MODULE SelectionOwner ---------------------------
(***************************************************************************)
(* The translator as the owner of an X selection: select.c from the        *)
(* SelectionRequest of another X client to the last property written to    *)
(* its window, with the functions of xdata.c that read the data from the   *)
(* pipe of a Wayland client.  Around them the requestors, which read a     *)
(* property and delete it, the client at the other end of the pipe, and    *)
(* the X events on their way.                                              *)
(*                                                                         *)
(* Abstracted: bytes.  Every selection is Length units long, a transfer's  *)
(* buffer holds Size of them, and a property says which units it holds.    *)
(* One selection stands for CLIPBOARD, PRIMARY and XdndSelection, that     *)
(* share the lists and the timers.  The pair <<n, i>> is the i-th          *)
(* conversion of the n-th request; only MULTIPLE has more than one.  A     *)
(* request that is older than the ownership is refused like one for an     *)
(* unknown target.                                                         *)
(*                                                                         *)
(* An operator named Wrong... is a deliberate bug in the operator that     *)
(* follows it; PROJECT.json names the property that each of them breaks.   *)
(***************************************************************************)
EXTENDS Naturals, Sequences, FiniteSets, SequencesExt

CONSTANTS
  Windows,      \* windows of the requestors
  Properties,   \* the properties they ask the data in
  Plain,        \* those of requests other than MULTIPLE: subset of Properties
  Length,       \* units of data in the selection
  Size,         \* units that fit in the buffer of a transfer
  Targets,      \* what is asked for: subset of {"text", "latin", "TARGETS", "unknown"}
  Multiples,    \* the conversions that MULTIPLE requests ask for: a set of pairs
  Impatient,    \* requestors reuse a property before the last transfer in it ended
  Ownerships,   \* the ownership is lost and regained
  PipeFailures, \* pipe2 may fail
  Timeouts,     \* five seconds may pass before a transfer ends
  MaxRequests,  \* bound: requests sent
  MaxPairs,     \* bound: conversions asked for
  MaxEvents     \* bound: X events in flight

VARIABLES
  owner,      \* the state of the translator, InitOwner
  xevents,    \* X events that the translator has not read
  properties, \* the properties of the requestors' windows
  asked,      \* the requests sent, in order
  answers,    \* how often each of them was answered with a SelectionNotify
  waits,      \* what each requestor waits for in each property
  taken,      \* how many units of each conversion its requestor has read
  late,       \* conversions that ended by their timer
  crossed     \* a deletion was taken for that of another property

vars == <<owner, xevents, properties, asked, answers, waits, taken, late, crossed>>

Places == Windows \X Properties
Keys == (1 .. MaxRequests) \X {1, 2}
NoKey == <<0, 0>>

Flags == {"IsFinished", "IsStarted", "IsWaitingForDelete", "IsWaitingForIncr",
          "IsReadable", "IsFlushed"}

\* What a requestor asks for.  Only MULTIPLE has pairs; its own property, in
\* which the pairs are, is none of Properties.
Conversion == [target : Targets, property : Plain]
PlainRequests == [window : Windows, pairs : {<<c>> : c \in Conversion}, multiple : {FALSE}]
MultipleRequests == [window : Windows, pairs : Multiples, multiple : {TRUE}]
Request == PlainRequests \cup MultipleRequests

InitOwner ==
  [ \* selection_owner_info: whether get_transfer_function is set
    owned |-> TRUE,
    \* write_transfers and queued_transfers, oldest first
    writes |-> <<>>, queue |-> <<>>,
    \* foreign_notify_table: refcount
    notify |-> [w \in Windows |-> 0],
    \* struct _MultipleRecord: pending, of each request
    pending |-> [n \in 1 .. MaxRequests |-> 0],
    \* an assertion failed or abort was called
    aborted |-> FALSE ]

Transfer(n, i, target, unsent) ==
  [key |-> <<n, i>>, target |-> target, place |-> <<asked[n].window, asked[n].pairs[i].property>>,
   \* event.type, and whether there is a record
   unsent |-> unsent, record |-> FALSE,
   offset |-> 0, state |-> {},
   \* what the function reads: units read, units written, info, read_callback
   read |-> 0, written |-> 0, info |-> TRUE, callback |-> TRUE]

NoProperty == [kind |-> "none", key |-> NoKey, from |-> 0, n |-> 0]

\* A step works on x: the translator, the properties and the answers.
Now == [o |-> owner, properties |-> properties, answers |-> answers]

Become(x) == owner' = x.o /\ properties' = x.properties /\ answers' = x.answers

Abort(x) == [x EXCEPT !.o.aborted = TRUE]
Answer(x, n) == [x EXCEPT !.answers[n] = @ + 1]
IndexOf(x, key) == CHOOSE i \in DOMAIN x.o.writes : x.o.writes[i].key = key
Has(x, key) == \E i \in DOMAIN x.o.writes : x.o.writes[i].key = key

-----------------------------------------------------------------------------
(* Writing to a requestor. *)

SignalConversionPerformed(x, i) ==
  LET t == x.o.writes[i]
      n == t.key[1]
      y == [x EXCEPT !.o.writes[i].unsent = FALSE, !.o.writes[i].record = FALSE,
                     !.o.pending[n] = IF t.record THEN @ - 1 ELSE @]
  IN IF t.unsent \/ (t.record /\ y.o.pending[n] = 0) THEN Answer(y, n) ELSE y

\* XChangeProperty on the window of the requestor.
Write(x, i, kind, n) ==
  LET t == x.o.writes[i] IN
  [x EXCEPT !.properties[t.place] =
              [kind |-> kind, key |-> t.key, from |-> t.written, n |-> n],
            !.o.writes[i].written = @ + n]

FlushTransfer(x, i, force) ==
  LET t == x.o.writes[i]
      full == "IsStarted" \in t.state \/ force
      y == IF full THEN Write(x, i, "data", t.offset) ELSE Write(x, i, "INCR", 0)
      z == SignalConversionPerformed(y, i)
      f == [z EXCEPT
              !.o.writes[i].offset = IF full THEN 0 ELSE @,
              !.o.writes[i].state = @ \cup {"IsWaitingForDelete", "IsFlushed"}
                                      \cup (IF full THEN {} ELSE {"IsWaitingForIncr"})]
  IN IF "IsWaitingForDelete" \in t.state THEN Abort(x) ELSE f

SelectPropertyNotify(x, w) == [x EXCEPT !.o.notify[w] = @ + 1]

DeselectPropertyNotify(x, w) ==
  IF x.o.notify[w] = 0 THEN Abort(x) ELSE [x EXCEPT !.o.notify[w] = @ - 1]

WrongUnlink(x, i) ==
  LET t == x.o.writes[i]
      y == IF "IsStarted" \in t.state THEN Write(x, i, "data", 0) ELSE x
  IN DeselectPropertyNotify([y EXCEPT !.o.writes = RemoveAt(@, i)], t.place[1])

\* FreeTransfer up to the point where it drains the queue, and the rest of it.
Unlink(x, i) ==
  LET t == x.o.writes[i]
      n == t.key[1]
      y == IF "IsStarted" \in t.state THEN Write(x, i, "data", 0) ELSE x
      z == [y EXCEPT !.o.writes = RemoveAt(@, i),
                     !.o.pending[n] = IF t.record THEN @ - 1 ELSE @]
      a == IF t.record /\ z.o.pending[n] = 0 THEN Answer(z, n) ELSE z
  IN DeselectPropertyNotify(a, t.place[1])

-----------------------------------------------------------------------------
(* Requests. *)

\* Any request of the same window or for the same property: that of the pairs,
\* and that of the first pair.
FindQueuedTransfer(x, n) ==
  \E m \in ToSet(x.o.queue) :
    \/ asked[m].window = asked[n].window
    \/ asked[m].multiple /\ asked[n].multiple
    \/ ~asked[m].multiple /\ asked[n].pairs[1].property = asked[m].pairs[1].property

FindWriteTransfer(x, place, ignore) ==
  \E t \in ToSet(x.o.writes) :
    /\ t.place = place
    /\ ignore => ~({"IsFinished", "IsWaitingForDelete"} \subseteq t.state)

QueueTransfer(x, n) == [x EXCEPT !.o.queue = Append(@, n)]

CanConvertTarget(target) == target \in {"TARGETS", "text", "latin"}

ConvertSelectionTargets(x, n, i) ==
  [x EXCEPT !.properties[<<asked[n].window, asked[n].pairs[i].property>>] =
              [kind |-> "TARGETS", key |-> <<n, i>>, from |-> 0, n |-> 0]]

\* GetClipboardCallback: nothing in the source or in the table of conversions
\* gives a target that cannot be converted.
GetTransferFunction(x, target) == IF target \in {"text", "latin"} THEN x ELSE Abort(x)

BeginTransfer(x, n, i, target, unsent) ==
  LET y == SelectPropertyNotify(x, asked[n].window)
  IN GetTransferFunction([y EXCEPT !.o.writes = Append(@, Transfer(n, i, target, unsent))], target)

\* The judgement of every pair falls on the target of the first, atoms[0],
\* and so does the mark that it failed; special targets go to the property of
\* the first, atoms[1].
ConvertPair(acc, n, i, fails) ==
  LET pair == asked[n].pairs[i]
      x == acc.x
  IN CASE ~CanConvertTarget(acc.first) -> [acc EXCEPT !.first = "None"]
       [] acc.first = "TARGETS" -> [acc EXCEPT !.x = ConvertSelectionTargets(x, n, 1)]
       [] OTHER ->
            IF <<n, i>> \in fails THEN [acc EXCEPT !.first = "None"]
            ELSE LET y == BeginTransfer(x, n, i, pair.target, FALSE)
                     k == Len(y.o.writes)
                 IN [acc EXCEPT !.x = [y EXCEPT !.o.writes[k].record = TRUE,
                                                !.o.pending[n] = @ + 1]]

\* The search for transfers in progress looks at the first property only.
ConvertSelectionMultiple(x, n, fails) ==
  LET pairs == asked[n].pairs
      y == FoldLeftDomain(LAMBDA acc, i : ConvertPair(acc, n, i, fails),
                          [x |-> x, first |-> pairs[1].target], pairs).x
  IN IF FindWriteTransfer(x, <<asked[n].window, pairs[1].property>>, FALSE)
     THEN QueueTransfer(x, n)
     ELSE IF y.o.pending[n] = 0 THEN Answer(y, n) ELSE y

\* fails: the conversions for which no pipe can be made.
HandleSelectionRequest(x, n, fails) ==
  LET r == asked[n]
      c == r.pairs[1]
  IN CASE ~x.o.owned \/ (~r.multiple /\ ~CanConvertTarget(c.target)) -> Answer(x, n)
       [] \/ ~r.multiple /\ FindWriteTransfer(x, <<r.window, c.property>>, TRUE)
          \/ FindQueuedTransfer(x, n) -> QueueTransfer(x, n)
       [] r.multiple -> ConvertSelectionMultiple(x, n, fails)
       [] c.target = "TARGETS" -> Answer(ConvertSelectionTargets(x, n, 1), n)
       [] <<n, 1>> \in fails -> Answer(x, n)
       [] OTHER -> BeginTransfer(x, n, 1, c.target, TRUE)

WrongDrainQueuedTransfers(x, fails) ==
  [x EXCEPT !.o.queue = <<>>]

\* The queue is moved aside first: what is queued again stays.
DrainQueuedTransfers(x, fails) ==
  FoldLeft(LAMBDA y, n : HandleSelectionRequest(y, n, fails),
           [x EXCEPT !.o.queue = <<>>], x.o.queue)

\* A transfer that failed in GetTransferFunction is freed too, and drains; the
\* queue is then empty (QueueServed), so HandleSelectionRequest leaves it out.
FreeTransfer(x, i, fails) ==
  LET y == Unlink(x, i) IN
  IF y.o.writes = <<>> THEN DrainQueuedTransfers(y, fails) ELSE y

-----------------------------------------------------------------------------
(* Reading from the client. *)

Room(t) == Size - t.offset
Left(t) == Length - t.read

\* What read or iconv may return: for "text" ClipboardReadFunc, that is told of
\* the end by a read of its own; for "latin" ConversionReadFunc, that finds it
\* with the last units and may run out of room.
ReadResults(t) ==
  { r \in [status : {"ReadOk", "NeedBiggerBuffer", "EndOfFile"}, n : 0 .. Size] :
      /\ r.n <= Room(t) /\ r.n <= Left(t)
      /\ r.status = "ReadOk" => r.n > 0
      /\ r.status = "EndOfFile" => r.n = Left(t) /\ (t.target = "text" => r.n = 0)
      /\ r.status = "NeedBiggerBuffer" => t.target = "latin" /\ r.n > 0 /\ r.n = Room(t)
                                          /\ r.n < Left(t) }

NoResult == [status |-> "ReadOk", n |-> 0]

\* What the function may return in a step in which a transfer becomes readable,
\* or the deletion of a property arrives.
ResultsWhenReadable(t) ==
  IF "IsWaitingForDelete" \in t.state THEN {NoResult} ELSE ReadResults(t)

ResultsWhenDeleted(t) ==
  IF "IsReadable" \in t.state /\ t.state \cap {"IsFinished", "IsWaitingForIncr"} = {}
  THEN ReadResults(t) ELSE {NoResult}

WrongTransferFinished(x, i, fails) == FreeTransfer(x, i, fails)

TransferFinished(x, i, fails) ==
  LET t == x.o.writes[i]
      Finished(y) == [y EXCEPT !.o.writes[i].state = @ \cup {"IsFinished"}]
  IN CASE "IsWaitingForDelete" \in t.state -> Finished(x)
       [] t.offset > 0 \/ "IsFlushed" \notin t.state -> Finished(FlushTransfer(x, i, TRUE))
       [] OTHER -> FreeTransfer(x, i, fails)

\* r: what the transfer function returns, if it is called.
TransferBecameReadable(x, i, r, fails) ==
  LET t == x.o.writes[i]
      y == [x EXCEPT !.o.writes[i].state = @ \ {"IsReadable"},
                     !.o.writes[i].offset = @ + r.n, !.o.writes[i].read = @ + r.n,
                     !.o.writes[i].callback = r.status = "ReadOk",
                     !.o.writes[i].info = r.status # "EndOfFile"]
  IN CASE "IsWaitingForDelete" \in t.state ->
            [x EXCEPT !.o.writes[i].state = @ \cup {"IsReadable"}]
       [] "IsWaitingForDelete" \notin t.state /\ (~t.info \/ t.callback) -> Abort(x)
       [] "IsWaitingForDelete" \notin t.state /\ t.info /\ ~t.callback ->
            CASE r.status = "EndOfFile" -> TransferFinished(y, i, fails)
              [] r.status = "NeedBiggerBuffer" -> FlushTransfer(
                   [y EXCEPT !.o.writes[i].state = @ \cup {"IsReadable"}], i, FALSE)
              [] r.status = "ReadOk" /\ t.offset + r.n = Size -> FlushTransfer(y, i, FALSE)
              [] r.status = "ReadOk" /\ t.offset + r.n < Size -> y

\* One transfer of the loop of HandlePropertyDelete.
Continue(x, i, r, fails) ==
  LET state == x.o.writes[i].state
      y == [x EXCEPT !.o.writes[i].state = @ \ {"IsWaitingForDelete", "IsWaitingForIncr"}]
  IN CASE "IsFinished" \in state -> FreeTransfer(x, i, fails)
       [] "IsFinished" \notin state /\ "IsWaitingForIncr" \in state ->
            FlushTransfer([y EXCEPT !.o.writes[i].state = @ \cup {"IsStarted"}], i, FALSE)
       [] "IsFinished" \notin state /\ "IsWaitingForIncr" \notin state ->
            IF "IsReadable" \in state THEN TransferBecameReadable(y, i, r, fails) ELSE y

\* Neither the window nor the property of the event is looked at.
HandlePropertyDelete(x, results, fails) ==
  FoldLeft(LAMBDA y, t : Continue(y, IndexOf(y, t.key), results[t.key], fails), x, x.o.writes)

FinishTransferEarly(x, i, fails) == FreeTransfer(x, i, fails)

-----------------------------------------------------------------------------
(* Steps of the translator. *)

KeysOf(x) == {t.key : t \in ToSet(x.o.writes)}

\* The conversions that may start in a step, and how many of them fail.
Failures(n) ==
  IF PipeFailures THEN {{}} \cup {{k} : k \in {m \in Keys : m[1] = n \/ m[1] \in ToSet(owner.queue)}}
                  ELSE {{}}

NoRequest == 0
Fails == Failures(NoRequest)

ReceiveRequest ==
  /\ xevents # <<>> /\ Head(xevents).type = "SelectionRequest"
  /\ \E fails \in Failures(Head(xevents).n) :
       Become(HandleSelectionRequest(Now, Head(xevents).n, fails))
  /\ xevents' = Tail(xevents)
  /\ UNCHANGED <<asked, waits, taken, late, crossed>>

ReceiveDelete ==
  /\ xevents # <<>> /\ Head(xevents).type = "PropertyDelete"
  /\ \E results \in
       { f \in [KeysOf(Now) -> UNION {ResultsWhenDeleted(t) : t \in ToSet(owner.writes)}] :
         \A t \in ToSet(owner.writes) : f[t.key] \in ResultsWhenDeleted(t) }, fails \in Fails :
       Become(HandlePropertyDelete(Now, results, fails))
  /\ xevents' = Tail(xevents)
  /\ crossed' = (crossed \/ \E t \in ToSet(owner.writes) : t.key # Head(xevents).key)
  /\ UNCHANGED <<asked, waits, taken, late>>

\* NoticeTransferReadable and NoticeConversionTransferReadable.
NoticeTransferReadable(i) ==
  /\ owner.writes[i].callback
  /\ \E r \in ResultsWhenReadable(owner.writes[i]), fails \in Fails :
       Become(TransferBecameReadable([Now EXCEPT !.o.writes[i].callback = FALSE], i, r, fails))
  /\ UNCHANGED <<xevents, asked, waits, taken, late, crossed>>

HandleWriteTimeout(i) ==
  /\ Timeouts
  /\ \E fails \in Fails : Become(FinishTransferEarly(Now, i, fails))
  /\ late' = late \cup {owner.writes[i].key}
  /\ UNCHANGED <<xevents, asked, waits, taken, crossed>>

OwnSelection ==
  /\ Ownerships /\ ~owner.owned
  /\ owner' = [owner EXCEPT !.owned = TRUE]
  /\ UNCHANGED <<xevents, properties, asked, answers, waits, taken, late, crossed>>

DisownSelection ==
  /\ Ownerships /\ owner.owned
  /\ owner' = [owner EXCEPT !.owned = FALSE]
  /\ UNCHANGED <<xevents, properties, asked, answers, waits, taken, late, crossed>>

-----------------------------------------------------------------------------
(* The requestors. *)

PlacesOf(r) == {<<r.window, r.pairs[i].property>> : i \in DOMAIN r.pairs}

\* Whether a requestor waits for nothing at a place: it has read all of it, or
\* was told that nothing comes.
Idle(place) ==
  LET k == waits[place] IN
  k # NoKey => answers[k[1]] > 0 /\ ~Has(Now, k) /\ properties[place].kind = "none"

\* What is read last of a conversion.
EndsWith(p) ==
  \/ p.kind = "TARGETS"
  \/ p.kind = "data" /\ p.n \in {0, Length}

Pairs(requests) == FoldLeft(LAMBDA n, r : n + Len(r.pairs), 0, requests)

SendRequest(r) ==
  /\ Len(asked) < MaxRequests /\ Len(xevents) < MaxEvents
  /\ Pairs(Append(asked, r)) <= MaxPairs
  /\ ~Impatient => \A p \in PlacesOf(r) : Idle(p) /\ properties[p].kind = "none"
  /\ asked' = Append(asked, r)
  /\ xevents' = Append(xevents, [type |-> "SelectionRequest", n |-> Len(asked) + 1])
  /\ waits' = [p \in Places |->
                 IF p \in PlacesOf(r)
                 THEN <<Len(asked) + 1, CHOOSE i \in DOMAIN r.pairs : r.pairs[i].property = p[2]>>
                 ELSE waits[p]]
  /\ UNCHANGED <<owner, properties, answers, taken, late, crossed>>

\* A requestor reads a property after it was told of it, and deletes it.
ReadProperty(place) ==
  LET p == properties[place] IN
  /\ p.kind # "none" /\ answers[p.key[1]] > 0
  /\ Len(xevents) < MaxEvents
  /\ taken' = [taken EXCEPT ![p.key] = @ + p.n]
  /\ properties' = [properties EXCEPT ![place] = NoProperty]
  /\ xevents' = IF owner.notify[place[1]] > 0
                THEN Append(xevents, [type |-> "PropertyDelete", key |-> p.key])
                ELSE xevents
  /\ waits' = IF EndsWith(p) THEN [waits EXCEPT ![place] = NoKey] ELSE waits
  /\ UNCHANGED <<owner, asked, answers, late, crossed>>

Init ==
  /\ owner = InitOwner
  /\ xevents = <<>>
  /\ properties = [p \in Places |-> NoProperty]
  /\ asked = <<>>
  /\ answers = [n \in 1 .. MaxRequests |-> 0]
  /\ waits = [p \in Places |-> NoKey]
  /\ taken = [k \in Keys |-> 0]
  /\ late = {}
  /\ crossed = FALSE

Next ==
  \/ ReceiveRequest
  \/ ReceiveDelete
  \/ \E i \in DOMAIN owner.writes : NoticeTransferReadable(i) \/ HandleWriteTimeout(i)
  \/ OwnSelection
  \/ DisownSelection
  \/ \E r \in Request : SendRequest(r)
  \/ \E p \in Places : ReadProperty(p)

Spec == Init /\ [][Next]_vars

-----------------------------------------------------------------------------
(* Properties. *)

TypeOK ==
  /\ owner.owned \in BOOLEAN /\ owner.aborted \in BOOLEAN
  /\ owner.notify \in [Windows -> 0 .. 2 * MaxRequests]
  /\ owner.pending \in [1 .. MaxRequests -> 0 .. 2]
  /\ \A t \in ToSet(owner.writes) :
       /\ t.key \in Keys /\ t.place \in Places /\ t.state \subseteq Flags
       /\ t.offset \in 0 .. Size /\ t.read \in 0 .. Length /\ t.written \in 0 .. Length
  /\ ToSet(owner.queue) \subseteq DOMAIN asked
  /\ ToSet(asked) \subseteq Request
  /\ answers \in [1 .. MaxRequests -> Nat]
  /\ taken \in [Keys -> Nat]

\* No assertion fails: a property is flushed only once the last was deleted,
\* the transfer function is called only while its pipe is open and nothing
\* polls it, and the events of a window are deselected once for every time
\* they were selected.
NoAbort == ~owner.aborted

\* The refcount of a window is the number of transfers to it, and a MULTIPLE
\* request waits for exactly those of its conversions that nothing was written
\* for: neither the window nor the record is given up early or never.
ReferencesCounted ==
  /\ \A w \in Windows :
       owner.notify[w] = Cardinality({i \in DOMAIN owner.writes : owner.writes[i].place[1] = w})
  /\ \A n \in 1 .. MaxRequests :
       owner.pending[n] = Cardinality({t \in ToSet(owner.writes) : t.key[1] = n /\ t.record})

\* Requests wait only for a transfer: the end of the last one serves them,
\* nothing else does.
QueueServed == owner.queue # <<>> => owner.writes # <<>>

\* Every request is answered once.
AnsweredOnce == \A n \in 1 .. MaxRequests : answers[n] <= 1

\* Until it is answered a request waits in the queue, or for a transfer: none is
\* forgotten, unless a timer ended its transfer.
RequestsKept ==
  \A n \in DOMAIN asked :
    \/ answers[n] > 0
    \/ n \in ToSet(owner.queue)
    \/ [type |-> "SelectionRequest", n |-> n] \in ToSet(xevents)
    \/ \E t \in ToSet(owner.writes) : t.key[1] = n /\ (t.unsent \/ t.record)
    \/ <<n, 1>> \in late

\* A property holds the units that follow those its requestor has read, and ends
\* a conversion only after the last of them: nothing is overwritten before it
\* was read.
Intact ==
  \A place \in Places :
    LET p == properties[place] IN
    p.kind = "data" /\ p.key \notin late =>
      /\ p.from = taken[p.key]
      /\ p.n = 0 => p.from = Length

\* No request is served before an older one for the same property of the same
\* window.
ServedInOrder ==
  \A m \in ToSet(owner.queue), t \in ToSet(owner.writes) :
    t.place \in PlacesOf(asked[m]) => t.key[1] < m

\* The records of transfers are consistent and no assertion fails.
TransfersCounted == NoAbort /\ ReferencesCounted

\* Every request is answered once, in its turn, or still has something to wait for.
RequestsServed == QueueServed /\ AnsweredOnce /\ RequestsKept /\ ServedInOrder

\* As long as the deletions it hears of are those it waits for.
DataIntact == crossed \/ Intact

=============================================================================
