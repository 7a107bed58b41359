--------------------------- MODULE SelectionReader ---------------------------
(***************************************************************************)
(* Reading an X selection (select.c, the ReadTransfers) and passing its    *)
(* data on to the file descriptor of a Wayland client (xdata.c), with the  *)
(* X window the properties are on, the owners of the selections and the    *)
(* clients at the other end of the pipes.                                  *)
(*                                                                         *)
(* The data of a reader are numbered units, so that every unit says whose  *)
(* it is.  A direct transfer writes chunks of the property as it reads     *)
(* them; a conversion gathers all of it before it writes.                  *)
(***************************************************************************)
EXTENDS Integers, Sequences, FiniteSets

CONSTANTS
  Readers,        \* transfers, each one used once
  Size(_),        \* units of data each is to get
  Converts(_),    \* read with a translation function
  Quantum,        \* units ReadChunk gets at a time, at least 1
  Limit,          \* ticks until a transfer times out
  Overlap,        \* a transfer may start while another one is in trouble
  Refusals        \* owners may refuse

VARIABLES
  transfers,  \* the ReadTransfer of each reader, and its TransferInfo
  chain,      \* read_transfers, the newest first
  freeAtoms,  \* free_list of property atoms; 1 .. the counter are known
  atomCount,
  property,   \* property of each atom on selection_transfer_window
  owners,     \* what the owner that was asked still does
  reports,    \* SelectionNotify and PropertyNotify events
  pipes,      \* the reader each file descriptor belongs to
  got,        \* units that came out of the pipe of each reader
  hungUp,     \* readers whose client closed its end
  troubled    \* a transfer failed or was cut

readerVars == <<transfers, chain, freeAtoms, atomCount, property, owners, reports, pipes, got, hungUp, troubled>>

None == "none"
NoChunk == <<>>     \* a chunk is freed when it has been written
Closed == 0
Absent == [kind |-> "absent", data |-> <<>>]
Content(i) == [n \in 1 .. Size(i) |-> <<i, n>>]
Atoms == 1 .. Cardinality(Readers)
Descriptors == 1 .. Cardinality(Readers)

NoTransfer ==
  [stage |-> "none", atom |-> 0, flags |-> {}, offset |-> 0, fd |-> Closed, callback |-> Closed,
   chunk |-> NoChunk, after |-> 0, buffer |-> <<>>, age |-> 0, idle |-> 0, ended |-> None]

Live(i) == transfers[i].stage = "live"
PropertyOf(i) == property[transfers[i].atom]
Dropped(s, n) == SubSeq(s, n + 1, Len(s))
Prefix(s, t) == Len(s) <= Len(t) /\ SubSeq(t, 1, Len(s)) = s

-----------------------------------------------------------------------------
(* Receive: PostReceiveDirect, PostReceiveConversion, ConvertSelection. *)

WrongNextAtom == IF freeAtoms # <<>> THEN Head(freeAtoms) ELSE IF atomCount = 0 THEN 1 ELSE atomCount

\* AllocPropAtom takes the atom that was released last.
NextAtom == IF freeAtoms # <<>> THEN Head(freeAtoms) ELSE atomCount + 1

\* Whether nothing of the earlier transfers is left that a new one could meet.
Quiet ==
  /\ \A j \in Readers : transfers[j].stage \in {"none", "gone"} /\ owners[j].stage \in {"idle", "over"}
  /\ reports = <<>>

\* The system gives the lowest descriptor that is free.
Receive(i) ==
  LET atom == NextAtom
      fd == CHOOSE n \in Descriptors : pipes[n] = None /\ \A m \in 1 .. n - 1 : pipes[m] # None
  IN /\ transfers[i].stage = "none"
     /\ troubled /\ ~Overlap => Quiet
     /\ freeAtoms' = IF freeAtoms # <<>> THEN Tail(freeAtoms) ELSE freeAtoms
     /\ atomCount' = IF freeAtoms # <<>> THEN atomCount ELSE atomCount + 1
     /\ transfers' = [transfers EXCEPT ![i] = [NoTransfer EXCEPT !.stage = "live", !.atom = atom, !.fd = fd]]
     /\ chain' = <<i>> \o chain
     /\ pipes' = [pipes EXCEPT ![fd] = i]
     /\ property' = [property EXCEPT ![atom] = Absent]
     /\ owners' = [owners EXCEPT ![i] = [stage |-> "asked", atom |-> atom, rest |-> Content(i)]]
     /\ UNCHANGED <<reports, got, hungUp, troubled>>

-----------------------------------------------------------------------------
(* The owners of the selections. *)

\* A failed transfer, and one that was cut before its owner answered, make trouble.
Answer(i, stage, rest, value, kind) ==
  LET atom == owners[i].atom IN
  /\ owners' = [owners EXCEPT ![i].stage = stage, ![i].rest = rest]
  /\ property' = IF value = Absent THEN property ELSE [property EXCEPT ![atom] = value]
  /\ reports' = reports \o (IF value = Absent THEN <<>> ELSE <<[type |-> "property", atom |-> atom, reader |-> i]>>)
                        \o (IF kind = None THEN <<>> ELSE <<[type |-> kind, atom |-> atom, reader |-> i]>>)
  /\ UNCHANGED <<transfers, chain, freeAtoms, atomCount, pipes, got, hungUp, troubled>>

OwnerAnswers(i) ==
  /\ owners[i].stage = "asked"
  /\ \/ Answer(i, "over", <<>>, [kind |-> "data", data |-> owners[i].rest], "selection")
     \/ Answer(i, "incr", owners[i].rest, [kind |-> "incr", data |-> <<>>], "selection")
     \/ Refusals /\ Answer(i, "over", <<>>, Absent, "refusal")

\* Each time the property has been deleted the next piece follows, the last one
\* empty.
OwnerContinues(i) ==
  /\ owners[i].stage = "incr" /\ property[owners[i].atom] = Absent
  /\ \E n \in 0 .. Len(owners[i].rest) :
       /\ (n = 0) = (owners[i].rest = <<>>)
       /\ Answer(i, IF n = 0 THEN "over" ELSE "incr", Dropped(owners[i].rest, n),
                 [kind |-> "data", data |-> SubSeq(owners[i].rest, 1, n)], None)

-----------------------------------------------------------------------------
(* Reading. *)

\* What DirectFinishCallback or ConversionFinishCallback leaves of a transfer;
\* a chunk that is not written yet delays the end.
Finished(i, r, success) ==
  LET done == [r EXCEPT !.ended = IF success THEN "success" ELSE "failure"] IN
  IF Converts(i) THEN [done EXCEPT !.stage = "delayed", !.callback = r.fd]
  ELSE IF r.chunk # NoChunk THEN [done EXCEPT !.stage = "delayed", !.flags = @ \cup {"needFinish"}]
  ELSE [done EXCEPT !.stage = "gone", !.fd = Closed, !.callback = Closed]

\* The descriptors that are open after reader i went on as r.
PipesAfter(i, r) ==
  [n \in Descriptors |-> IF transfers[i].fd = n /\ r.fd = Closed /\ pipes[n] = i THEN None ELSE pipes[n]]

\* FinishReadTransfer for reader i, whose transfer is r
FinishReadTransfer(i, r, success) ==
  LET left == Finished(i, r, success) IN
  /\ transfers' = [transfers EXCEPT ![i] = left]
  /\ chain' = SelectSeq(chain, LAMBDA j : j # i)
  /\ freeAtoms' = <<r.atom>> \o freeAtoms
  /\ pipes' = PipesAfter(i, left)
  /\ troubled' = (troubled \/ ~success)

Chunked(r) == [r EXCEPT !.flags = @ \cup {IF "incr" \in r.flags THEN "waiting" ELSE "finished"}]

CancelTransferEarly(r) == [r EXCEPT !.flags = @ \cup {"failed", "finished"}]

\* ReadChunk: the transfer after it, the data, and whether the property goes.
\* Reading fails where there is no property, or not so much of it.
ReadChunk(r, p, n) ==
  LET data == SubSeq(p.data, r.offset + 1, IF r.offset + n < Len(p.data) THEN r.offset + n ELSE Len(p.data))
      after == Len(p.data) - r.offset - Len(data)
  IN IF p.kind = "absent" \/ r.offset > Len(p.data)
     THEN [transfer |-> CancelTransferEarly(r), data |-> NoChunk, property |-> Absent, failed |-> TRUE]
     ELSE [transfer |-> LET s == IF after <= 0 THEN Chunked(r) ELSE r
                        IN [s EXCEPT !.offset = @ + n, !.after = after],
           data |-> data, property |-> IF after <= 0 THEN Absent ELSE p, failed |-> FALSE]

\* DirectReadCallback and ConversionReadCallback
DataRead(i, r, p) ==
  LET all == ReadChunk(r, p, Len(p.data)) IN
  IF Converts(i) THEN [transfer |-> [all.transfer EXCEPT !.buffer = @ \o all.data], property |-> all.property]
  ELSE IF r.fd = Closed THEN [transfer |-> Chunked(r), property |-> Absent]
  ELSE IF r.callback # Closed THEN [transfer |-> [r EXCEPT !.flags = @ \cup {"needChunk"}], property |-> p]
  ELSE [transfer |-> [r EXCEPT !.callback = r.fd], property |-> p]

\* StartSelectionRead for reader i as r
StartSelectionRead(i, r) ==
  LET p == property[r.atom] IN
  \/ /\ p.kind = "incr"
     /\ transfers' = [transfers EXCEPT ![i] = [r EXCEPT !.flags = @ \cup {"incr", "waiting"}, !.idle = 0]]
     /\ property' = [property EXCEPT ![r.atom] = Absent]
     /\ UNCHANGED <<chain, freeAtoms, pipes, troubled>>
  \/ /\ p.kind = "absent"
     /\ FinishReadTransfer(i, r, FALSE)
     /\ UNCHANGED property
  \/ /\ p.kind = "data" /\ p.data = <<>>
     /\ FinishReadTransfer(i, r, TRUE)
     /\ property' = [property EXCEPT ![r.atom] = Absent]
  \/ /\ p.kind = "data" /\ p.data # <<>>
     /\ LET read == DataRead(i, [r EXCEPT !.offset = 0, !.idle = 0, !.flags = @ \cup {"started"}], p) IN
        /\ transfers' = [transfers EXCEPT ![i] = read.transfer]
        /\ property' = [property EXCEPT ![r.atom] = read.property]
     /\ UNCHANGED <<chain, freeAtoms, pipes, troubled>>

\* FindReadTransferByProp; no two transfers of the chain share an atom.
ByProperty(atom) == {i \in Readers : Live(i) /\ transfers[i].atom = atom}

\* HandleSelectionNotify and HandlePropertyNotify; a refusal is matched by
\* selection, target and time, which no two readers here share.
HandleReport ==
  LET e == Head(reports)
      matches == IF e.type = "refusal" THEN {i \in {e.reader} : Live(i)} ELSE ByProperty(e.atom)
      i == CHOOSE j \in matches : TRUE
      r == transfers[i]
      waits == {"incr", "waiting"} \subseteq r.flags
  IN /\ reports # <<>> /\ reports' = Tail(reports)
     /\ \/ /\ matches = {} \/ (matches # {} /\ e.type = "property" /\ ~waits)
           /\ UNCHANGED <<transfers, chain, freeAtoms, property, pipes, troubled>>
        \/ /\ matches # {} /\ e.type = "refusal"
           /\ FinishReadTransfer(i, r, FALSE) /\ UNCHANGED property
        \/ /\ matches # {} /\ e.type = "selection"
           /\ StartSelectionRead(i, r)
        \/ /\ matches # {} /\ e.type = "property" /\ waits
           /\ StartSelectionRead(i, [r EXCEPT !.flags = @ \ {"waiting"}])
     /\ UNCHANGED <<atomCount, owners, got, hungUp>>

\* FinishTransfers, when the event loop is entered; the oldest is first.
FinishTransfers ==
  LET over == {i \in Readers : Live(i) /\ "finished" \in transfers[i].flags}
      left == [i \in over |-> Finished(i, transfers[i], "failed" \notin transfers[i].flags)]
  IN /\ over # {}
     /\ transfers' = [i \in Readers |-> IF i \in over THEN left[i] ELSE transfers[i]]
     /\ chain' = SelectSeq(chain, LAMBDA i : i \notin over)
     /\ freeAtoms' = LET ends == SelectSeq(chain, LAMBDA i : i \in over)
                     IN [n \in DOMAIN ends |-> transfers[ends[n]].atom] \o freeAtoms
     /\ pipes' = [n \in Descriptors |-> IF \E i \in over : transfers[i].fd = n /\ left[i].fd = Closed THEN None ELSE pipes[n]]
     /\ troubled' = (troubled \/ \E i \in over : "failed" \in transfers[i].flags)
     /\ UNCHANGED <<atomCount, property, owners, reports, got, hungUp>>

Tick ==
  /\ \E i \in Readers : Live(i)
  /\ \A i \in Readers : Live(i) => transfers[i].age < Limit
  /\ transfers' = [i \in Readers |-> IF Live(i) THEN [transfers[i] EXCEPT !.age = @ + 1, !.idle = @ + 1] ELSE transfers[i]]
  /\ UNCHANGED <<chain, freeAtoms, atomCount, property, owners, reports, pipes, got, hungUp, troubled>>

\* The timer is never set again.  Where troubles are to be met alone, nothing
\* times out that overlaps another transfer.
HandleTimeout(i) ==
  LET r == transfers[i] IN
  /\ Live(i) /\ r.age = Limit
  /\ ~Overlap => \A j \in Readers \ {i} : transfers[j].stage \in {"none", "gone"}
  /\ property' = [property EXCEPT ![r.atom] = Absent]
  /\ FinishReadTransfer(i, r, FALSE)
  /\ UNCHANGED <<atomCount, owners, reports, got, hungUp>>

-----------------------------------------------------------------------------
(* Writing. *)

HangUp(i) ==
  /\ transfers[i].fd # Closed /\ i \notin hungUp
  /\ ~Overlap => \A j \in Readers \ {i} : transfers[j].stage \in {"none", "gone"}
  /\ hungUp' = hungUp \cup {i} /\ troubled' = TRUE
  /\ UNCHANGED <<transfers, chain, freeAtoms, atomCount, property, owners, reports, pipes, got>>

\* NoticeTransferWritable for r as the pipe takes n more units; w is what has
\* been written.  The callback goes when the property has been read to its end
\* and no new one is there, and a delayed end comes with it.
RECURSIVE Pour(_, _, _, _)
Pour(r, p, w, n) ==
  IF r.chunk = NoChunk
  THEN LET read == ReadChunk([r EXCEPT !.flags = @ \ {"needChunk"}], p, Quantum)
       IN IF read.failed \/ read.data = NoChunk
          THEN LET s == [read.transfer EXCEPT !.fd = Closed] IN
               [transfer |-> IF "needFinish" \in s.flags THEN [s EXCEPT !.stage = "gone", !.callback = Closed] ELSE s,
                property |-> read.property, written |-> w]
          ELSE Pour([read.transfer EXCEPT !.chunk = read.data], read.property, w, n)
  ELSE LET k == IF n < Len(r.chunk) THEN n ELSE Len(r.chunk)
           s == [r EXCEPT !.chunk = Dropped(@, k)]
           all == w \o SubSeq(r.chunk, 1, k)
       IN IF s.chunk # NoChunk THEN [transfer |-> s, property |-> p, written |-> all]
          ELSE IF r.after > 0 \/ "needChunk" \in r.flags THEN Pour(s, p, all, n - k)
          ELSE [transfer |-> IF "needFinish" \in s.flags
                             THEN [s EXCEPT !.stage = "gone", !.fd = Closed, !.callback = Closed]
                             ELSE [s EXCEPT !.callback = Closed],
                property |-> p, written |-> all]

\* EPIPE: the property is deleted if it was read to its end; the callback stays.
Broken(r, p) ==
  LET read == IF r.chunk = NoChunk THEN ReadChunk([r EXCEPT !.flags = @ \ {"needChunk"}], p, Quantum)
              ELSE [transfer |-> r, property |-> p, failed |-> FALSE]
      s == [read.transfer EXCEPT !.fd = Closed, !.chunk = NoChunk]
      skipped == IF ~read.failed /\ s.after <= 0 THEN Chunked(s) ELSE s
  IN [transfer |-> IF "needFinish" \in s.flags THEN [skipped EXCEPT !.stage = "gone", !.callback = Closed] ELSE skipped,
      property |-> IF ~read.failed /\ s.after <= 0 THEN Absent ELSE read.property]

\* The callback is called with the descriptor it was added for, whoever has it now.
NoticeTransferWritable(i) ==
  LET r == transfers[i]
      reader == pipes[r.callback]
      Goes(s, p) == /\ transfers' = [transfers EXCEPT ![i] = s]
                    /\ property' = [property EXCEPT ![r.atom] = p]
                    /\ pipes' = PipesAfter(i, s)
  IN /\ ~Converts(i) /\ r.callback # Closed /\ pipes[r.callback] # None
     /\ \/ /\ reader \notin hungUp
           /\ \E n \in 1 .. Size(i) :
                LET poured == Pour([r EXCEPT !.idle = 0], property[r.atom], <<>>, n) IN
                /\ Goes(poured.transfer, poured.property)
                /\ got' = [got EXCEPT ![reader] = @ \o poured.written]
        \/ /\ reader \in hungUp
           /\ LET broken == Broken(r, property[r.atom]) IN Goes(broken.transfer, broken.property)
           /\ UNCHANGED got
     /\ UNCHANGED <<chain, freeAtoms, atomCount, owners, reports, hungUp, troubled>>

\* NoticeConversionTransferWritable; the last call finds nothing left and ends.
NoticeConversionTransferWritable(i) ==
  LET r == transfers[i]
      over == [r EXCEPT !.stage = "gone", !.fd = Closed, !.callback = Closed]
  IN /\ Converts(i) /\ r.callback # Closed
     /\ \/ /\ i \notin hungUp /\ r.buffer # <<>>
           /\ \E n \in 1 .. Len(r.buffer) :
                /\ transfers' = [transfers EXCEPT ![i].buffer = Dropped(@, n)]
                /\ got' = [got EXCEPT ![i] = @ \o SubSeq(r.buffer, 1, n)]
           /\ UNCHANGED pipes
        \/ /\ i \in hungUp \/ r.buffer = <<>>
           /\ transfers' = [transfers EXCEPT ![i] = over]
           /\ pipes' = PipesAfter(i, over)
           /\ UNCHANGED got
     /\ UNCHANGED <<chain, freeAtoms, atomCount, property, owners, reports, hungUp, troubled>>

-----------------------------------------------------------------------------
ReaderInit ==
  /\ transfers = [i \in Readers |-> NoTransfer]
  /\ chain = <<>> /\ freeAtoms = <<>> /\ atomCount = 0
  /\ property = [a \in Atoms |-> Absent]
  /\ owners = [i \in Readers |-> [stage |-> "idle", atom |-> 0, rest |-> <<>>]]
  /\ reports = <<>>
  /\ pipes = [n \in Descriptors |-> None]
  /\ got = [i \in Readers |-> <<>>]
  /\ hungUp = {} /\ troubled = FALSE

ReaderNext ==
  \/ HandleReport \/ FinishTransfers \/ Tick
  \/ \E i \in Readers :
       \/ Receive(i) \/ OwnerAnswers(i) \/ OwnerContinues(i) \/ HandleTimeout(i)
       \/ HangUp(i) \/ NoticeTransferWritable(i) \/ NoticeConversionTransferWritable(i)

ReaderSpec == ReaderInit /\ [][ReaderNext]_readerVars

-----------------------------------------------------------------------------
(* Properties. *)

ReaderTypeOK ==
  /\ \A i \in Readers : /\ transfers[i].stage \in {"none", "live", "delayed", "gone"}
                        /\ transfers[i].fd \in Descriptors \cup {Closed}
                        /\ transfers[i].age \in 0 .. Limit
  /\ \A n \in Descriptors : pipes[n] \in Readers \cup {None}
  /\ atomCount \in 0 .. Cardinality(Readers)

\* A client gets the data it asked for, from the start and in order, and nothing
\* that another client is to get.
OwnDataOnly == \A i \in Readers : Prefix(got[i], Content(i))

\* A transfer that ends well has passed everything on, unless its client left.
CompleteWhenOver ==
  \A i \in Readers : transfers[i].stage = "gone" /\ transfers[i].ended = "success" /\ i \notin hungUp =>
    got[i] = Content(i)

\* A transfer that waits for its data to be written will be woken for it; one
\* that is gone holds no descriptor.
WillBeWoken ==
  \A i \in Readers :
    /\ transfers[i].stage = "delayed" => transfers[i].callback # Closed /\ pipes[transfers[i].callback] = i
    /\ transfers[i].stage = "live" /\ transfers[i].chunk # NoChunk => transfers[i].callback # Closed
    /\ transfers[i].stage = "gone" => \A n \in Descriptors : pipes[n] # i

\* "Allocate a new atom to use for selection property transfers.  This atom is
\* guaranteed to not be currently in use for a selection transfer"
AtomsApart ==
  /\ \A i, j \in Readers : i # j /\ Live(i) /\ Live(j) => transfers[i].atom # transfers[j].atom
  /\ \A n \in DOMAIN freeAtoms : \A i \in Readers : Live(i) => transfers[i].atom # freeAtoms[n]

TransfersSound == OwnDataOnly /\ CompleteWhenOver /\ WillBeWoken /\ AtomsApart

\* "A timer that times out after 5 seconds of inactivity."
TimesOutWhenIdle ==
  [][\A i \in Readers : HandleTimeout(i) => transfers[i].idle = Limit]_readerVars

=============================================================================
