---------------------------- MODULE StreamExtractor ----------------------------
(***************************************************************************)
(* StreamingContentParser, ProtocolStreamExtractor and the two stream      *)
(* plugins: protocol text arrives in chunks cut anywhere, and messages go  *)
(* to the coordinator as soon as they can be told.                         *)
(*                                                                         *)
(* A document is a sequence of tokens (ProtocolText) and the buffer holds  *)
(* tokens of it.  Between two chunks pc is "ready"; while a chunk is       *)
(* processed each action is one round of the loop pc names.  The two       *)
(* plugins are the same code for two types of component, except for the    *)
(* matching of paths.                                                      *)
(***************************************************************************)
EXTENDS ProtocolText

CONSTANTS Docs,        \* per stream: the documents that may be sent
          Surfaces,
          MaxBuffer    \* MAX_BUFFER_BYTES, in tokens

\* The tokens of a document know their places.
ASSUME DocAssumption ==
    /\ Docs \in Seq(ToSet(Docs))
    /\ \A n \in DOMAIN Docs : \A d \in Docs[n] : d \in Seq(ToSet(d)) /\ \A i \in DOMAIN d : d[i].at = i

Plugins == <<"Markdown", "Text">>
Types   == {"Markdown", "Text"}
Modes   == {"Idle", "StreamingComponents", "StreamingDataModel"}

VARIABLES
    doc, fed,      \* the document being sent and how much of it was
    streams,       \* number of streams begun
    world,         \* the coordinator's surfaces
    base,          \* history: world when the stream began
    harm,          \* history: the kinds of cut that are known to do harm
    lastUnit,      \* history: where the last message was taken from
    pc,            \* "off", "ready", or the loop that is running
    buffer,        \* _dataBuffer
    mode,          \* _streamState
    surface,       \* _surfaceId
    pos,           \* _parsePosition
    rest,          \* subsequentData of the enclosing loop, while framed
    framed,
    dm,            \* the _dm* members: stack, position and streamed field
    component,     \* per plugin: the component being streamed
    entries,       \* per plugin: _streamingEntries
    paths,         \* per plugin: the binding paths collected
    results        \* messages taken from this chunk, not yet dispatched

feed     == <<doc, fed, streams, base, harm>>
receiver == <<world, lastUnit>>
parser   == <<mode, surface, pos, rest, framed>>
plugin   == <<component, entries, paths>>
vars == <<feed, receiver, pc, buffer, parser, dm, plugin, results>>

NoId        == ""
NoComponent == [on |-> FALSE, start |-> 0, text |-> 0, sent |-> 0, id |-> NoId]
NoField     == [on |-> FALSE, path |-> <<>>, start |-> 0, sent |-> 0, first |-> FALSE]
NoData      == [surface |-> NoId, stack |-> <<>>, pos |-> 0, field |-> NoField]

World0 == [s \in Surfaces |-> NoSurface]

Init ==
    /\ doc = <<>> /\ fed = 0 /\ streams = 0
    /\ world = World0 /\ base = World0 /\ harm = {} /\ lastUnit = 0
    /\ pc = "off" /\ buffer = <<>>
    /\ mode = "Idle" /\ surface = NoId /\ pos = 1 /\ rest = <<>> /\ framed = FALSE
    /\ dm = NoData
    /\ component = [t \in Types |-> NoComponent]
    /\ entries = [t \in Types |-> {}]
    /\ paths = [t \in Types |-> {}]
    /\ results = <<>>
-----------------------------------------------------------------------------
(* Looking into the buffer. *)

Kind(i)  == IF i \in DOMAIN buffer THEN buffer[i].k ELSE "end"
After(i) == SubSeq(buffer, i + 1, Len(buffer))

\* The first index from i on that is not white space (behind the end, i).
SkipSpace(i) == IF i > Len(buffer) THEN i ELSE Least({j \in i..(Len(buffer) + 1) : Kind(j) # "ws"})

\* Where the string can be cut without cutting behind a backslash.
SafeEnd(from) == IF from <= Len(buffer) /\ Kind(Len(buffer)) = "bs"
                 THEN Len(buffer) - 1 ELSE Len(buffer)

\* extractFirstCompleteJson(): the brace the first event begins with.  White
\* space is skipped, then closing brackets left over by an earlier stream.
EventStart ==
    LET i == Least({j \in 1..(Len(buffer) + 1) : Kind(j) \notin {"ws", "quote"}})
        j == Least({k \in i..(Len(buffer) + 1) : Kind(k) \notin {"endarr", "endobj"}})
    IN  IF Kind(j) \in Heads THEN j ELSE 0

FirstJsonEnd == Least({ObjectEnd(buffer, i) : i \in {EventStart} \ {0}})

\* detectEventType(): the first of these keys that occurs anywhere.
Priority == <<"create", "components", "data", "append", "delete">>
EventType(lo, hi) ==
    LET kinds == {Kind(i) : i \in lo..hi}
        found == SelectSeq(Priority, LAMBDA k : k \in kinds)
    IN  IF found = <<>> THEN "Unknown" ELSE found[1]

FirstKey(kinds) == Least({i \in DOMAIN buffer : Kind(i) \in kinds})
FirstSurface    == buffer[FirstKey(EventKeys)].on
ListStart       == FirstKey({"list"})

\* Are there two closing braces from i on, and where do they end (else 0)?
Closed(i) ==
    LET a == SkipSpace(i)
        b == SkipSpace(a + 1)
    IN  IF Kind(a) = "endobj" /\ Kind(b) = "endobj" THEN SkipSpace(b + 1) - 1 ELSE 0

\* ProtocolStreamExtractor::reset().
Reset ==
    /\ buffer' = <<>> /\ mode' = "Idle" /\ pos' = 1
    /\ dm' = NoData
    /\ component' = [t \in Types |-> NoComponent]
    /\ entries' = [t \in Types |-> {}]
    /\ paths' = [t \in Types |-> {}]

Deliver(ms) == results' = results \o ms
-----------------------------------------------------------------------------
(* Messages. *)

\* A whole event; with a hole in it (a chunk was dropped) it is taken to be
\* no JSON any more.
WholeEvent(lo, hi) ==
    IF Kind(lo) = "open" /\ buffer[hi].at - buffer[lo].at = hi - lo
    THEN EventMessage(buffer, lo, hi)
    ELSE [kind |-> "unreadable", at |-> buffer[lo].at]

\* What the plugins put into a data message was escaped in the text and is
\* escaped again.
Raw(piece) == [i \in DOMAIN piece |-> IF doc[piece[i]].k = "bs" THEN -piece[i] ELSE piece[i]]

Loop(m) == CASE m = "Idle" -> "events"
             [] m = "StreamingComponents" -> "components"
             [] m = "StreamingDataModel" -> "data"
-----------------------------------------------------------------------------
(* Cuts that are known to do harm (history).  A chunk holds the positions  *)
(* from..to of the document.                                               *)

EventAt(p) == Max({e \in EventsOf(doc) : e <= p})

\* Between the end of a streamed array or value and the end of its event,
\* when white space comes next: what is left of the event is not skipped.
CutsTail(to) ==
    LET e == EventAt(to)
        end == EventEnd(doc, e)
    IN  /\ doc[e + 1].k \in {"components", "data"}
        /\ doc[end - 2].k \in {"endarr", "endobj"}
        /\ to \in {end - 2, end - 1}
        /\ end + 1 \in DOMAIN doc /\ doc[end + 1].k = "ws"

\* The text began in an earlier chunk, and the rest of the component, with
\* attributes behind the text, is in this one.
CutsAttributes(from, to) ==
    \E p \in DOMAIN doc :
        /\ doc[p].k = "component" /\ doc[p].of \in Inline
        /\ LET quote == StringEnd(doc, p)
               end   == ObjectEnd(doc, p)
           IN  /\ from - 1 \in (p + 1)..(quote - 1)
               /\ end \in (quote + 2)..to

\* Inside the value of an updateDataModel event: it becomes one message a leaf.
InsideValue(to, kinds) ==
    LET e == EventAt(to)
    IN  /\ doc[e + 1].k = "data" /\ doc[e + 2].k \in kinds
        /\ to \in (e + 2)..(EventEnd(doc, e) - 1)

CutsMerge(to) == InsideValue(to, {"object", "array"}) /\ doc[EventAt(to) + 1].path # <<>>

\* Inside a string whose path ends like a path some component is bound to.
CutsSuffix(to) ==
    /\ InsideValue(to, {"str"})
    /\ \E p \in DOMAIN doc :
          /\ doc[p].k = "component" /\ doc[p].of = "BoundText"
          /\ IsStrictSuffix(doc[p].path, doc[EventAt(to) + 1].path)

CutsEscape(to) == doc[to].k = "u"
CutsRaw(to) ==
    /\ InsideValue(to, {"str"})
    /\ \E p \in EventAt(to)..EventEnd(doc, EventAt(to)) : doc[p].k = "bs"

HarmOf(from, to) ==
    {h \in {"tail", "attributes", "merge", "suffix", "escape", "raw"} :
        CASE h = "tail" -> CutsTail(to)
          [] h = "attributes" -> CutsAttributes(from, to)
          [] h = "merge" -> CutsMerge(to)
          [] h = "suffix" -> CutsSuffix(to)
          [] h = "escape" -> CutsEscape(to)
          [] OTHER -> CutsRaw(to)}
-----------------------------------------------------------------------------
(* The calls of StreamingContentParser. *)

\* processDataBeginning().
Begin ==
    /\ pc = "off" /\ streams < Len(Docs)
    /\ streams' = streams + 1
    /\ doc' \in Docs[streams + 1] /\ fed' = 0
    /\ base' = world /\ harm' = {} /\ lastUnit' = 0
    /\ Reset
    /\ pc' = "ready"
    /\ UNCHANGED <<world, surface, rest, framed, results>>

\* processDataEnding(), wherever the text stands.
End ==
    /\ pc = "ready"
    /\ Reset
    /\ pc' = "off"
    /\ UNCHANGED <<feed, receiver, surface, rest, framed, results>>

\* processDataAssembling(): a chunk of n tokens, or none of it when the
\* buffer would grow too long.
Receive(n) ==
    /\ pc = "ready"
    /\ fed' = fed + n
    /\ IF Len(buffer) + n > MaxBuffer
       THEN buffer' = buffer /\ harm' = harm \cup {"dropped"}
       ELSE /\ buffer' = buffer \o SubSeq(doc, fed + 1, fed + n)
            /\ harm' = harm \cup HarmOf(fed + 1, fed + n)
    /\ pc' = "drive"
    /\ UNCHANGED <<doc, streams, base, receiver, parser, dm, plugin, results>>

\* driveParser(): a plugin in the middle of a text goes first.
DriveComponent(t) ==
    LET c     == component[t]
        end   == ObjectEnd(buffer, c.start)
        quote == StringEnd(buffer, c.text)
        to    == IF quote # 0 THEN quote - 1 ELSE SafeEnd(c.sent + 1)
        delta == Piece(buffer, c.sent + 1, to)
    IN  /\ pc = "drive" /\ c.on
        /\ Deliver(IF delta = <<>> THEN <<>>
                   ELSE <<ChunkMessage(surface, buffer[c.start].at, c.id, delta)>>)
        /\ IF quote = 0
           THEN /\ component' = [component EXCEPT ![t].sent = to]
                /\ pc' = "dispatch" /\ pos' = pos
           ELSE /\ component' = [component EXCEPT ![t] = NoComponent]
                /\ pos' = IF end # 0 THEN end + 1 ELSE c.start
                /\ pc' = Loop(mode)
        /\ UNCHANGED <<feed, receiver, buffer, mode, surface, rest, framed, dm, entries, paths>>

DriveEntries(t) ==
    LET start == SkipSpace(1)
        end   == IF Kind(start) \in Heads THEN ObjectEnd(buffer, start) ELSE 0
        to(e) == LET quote == StringEnd(buffer, e.start)
                 IN  IF quote # 0 THEN quote - 1 ELSE SafeEnd(e.sent + 1)
        delta(e) == Piece(buffer, e.sent + 1, to(e))
        new   == SetToSeq({e \in entries[t] : delta(e) # <<>>})
        tails == [i \in DOMAIN new |->
                     LeafMessage("append", new[i].surface, buffer[new[i].start - 1].at,
                                 new[i].path, Raw(delta(new[i])))]
    IN  /\ pc = "drive" /\ entries[t] # {}
        /\ IF end = 0
           THEN /\ Deliver(tails)
                /\ entries' = [entries EXCEPT ![t] = {[e EXCEPT !.sent = to(e)] : e \in @}]
                /\ pc' = "dispatch" /\ buffer' = buffer
           ELSE /\ LET e == CHOOSE x \in entries[t] : TRUE
                   IN  Deliver(Append(tails,
                           LeafMessage("data", e.surface, buffer[e.start - 1].at, e.event,
                                       Piece(buffer, e.start, to(e)))))
                /\ entries' = [entries EXCEPT ![t] = {}]
                /\ buffer' = After(end)
                /\ pc' = Loop(mode)
        /\ UNCHANGED <<feed, receiver, parser, dm, component, paths>>

DriveLoop ==
    /\ pc = "drive"
    /\ \A t \in Types : ~component[t].on /\ entries[t] = {}
    /\ pc' = Loop(mode)
    /\ UNCHANGED <<feed, receiver, buffer, parser, dm, plugin, results>>
-----------------------------------------------------------------------------
(* processAllCompleteEvents(), one round of the loop. *)

CanStartComponents == FirstKey(EventKeys) # 0 /\ ListStart # 0

WholeType == EventType(EventStart, FirstJsonEnd)
WholeList == Least({i \in EventStart..FirstJsonEnd : Kind(i) = "list"})

\* Mutant: an unknown event is not taken from the buffer.
EventUnknownStays ==
    /\ pc = "events" /\ FirstJsonEnd # 0
    /\ WholeType = "Unknown"
    /\ UNCHANGED vars

EventUnknown ==
    /\ pc = "events" /\ FirstJsonEnd # 0
    /\ WholeType = "Unknown"
    /\ buffer' = After(FirstJsonEnd)
    /\ UNCHANGED <<feed, receiver, pc, parser, dm, plugin, results>>

\* A whole updateComponents event goes through the component loop alone; what
\* follows it is put back afterwards.
EventComponents ==
    /\ pc = "events" /\ FirstJsonEnd # 0
    /\ WholeType = "components"
    /\ buffer' = SubSeq(buffer, EventStart, FirstJsonEnd)
    /\ rest' = After(FirstJsonEnd) /\ framed' = TRUE
    /\ mode' = "StreamingComponents" /\ pc' = "components"
    /\ surface' = FirstSurface
    /\ pos' = IF WholeList = 0 THEN pos ELSE WholeList - EventStart + 2
    /\ UNCHANGED <<feed, receiver, dm, plugin, results>>

\* Every other whole event is one message; if nothing follows it all is reset.
EventWhole ==
    /\ pc = "events" /\ FirstJsonEnd # 0
    /\ WholeType \notin {"Unknown", "components"}
    /\ Deliver(<<WholeEvent(EventStart, FirstJsonEnd)>>)
    /\ IF After(FirstJsonEnd) # <<>>
       THEN buffer' = After(FirstJsonEnd) /\ pc' = pc /\ UNCHANGED <<mode, pos, dm, plugin>>
       ELSE Reset /\ pc' = "dispatch"
    /\ UNCHANGED <<feed, receiver, surface, rest, framed>>

PartialType == EventType(1, Len(buffer))
StartsComponents == PartialType = "components" /\ mode # "StreamingComponents" /\ CanStartComponents

StartStreamingComponents ==
    /\ pc = "events" /\ FirstJsonEnd = 0
    /\ StartsComponents
    /\ mode' = "StreamingComponents" /\ pc' = "components"
    /\ surface' = FirstSurface
    /\ pos' = ListStart + 1
    /\ UNCHANGED <<feed, receiver, buffer, rest, framed, dm, plugin, results>>

\* startStreamingDataModel(): the value is there and is an object or an array.
DataKey   == FirstKey({"data"})
CanStartData == Kind(DataKey + 1) \in {"object", "array"}
StartsData   == PartialType = "data" /\ mode # "StreamingDataModel" /\ CanStartData

StartStreamingDataModel ==
    /\ pc = "events" /\ FirstJsonEnd = 0
    /\ StartsData
    /\ mode' = "StreamingDataModel"
    /\ dm' = [NoData EXCEPT !.surface = FirstSurface,
                            !.stack = <<[t |-> Kind(DataKey + 1), path |-> buffer[DataKey].path, idx |-> 0]>>,
                            !.pos = DataKey + 2]
    /\ pc' = "data"
    /\ UNCHANGED <<feed, receiver, buffer, surface, pos, rest, framed, plugin, results>>

\* The paths plugin t may have been given a string for: Text also takes a
\* path that ends like a bound one.
MarkdownMatches(event) == {p \in paths["Markdown"] : p = event}
TextMatches(event)     == {p \in paths["Text"] : IsSuffix(p, event)}
Matches(t, event) == IF t = "Text" THEN TextMatches(event) ELSE MarkdownMatches(event)

\* handleIncompleteDataModel(): a string for a bound path that is still open.
TakesData(t) ==
    /\ PartialType = "data" /\ ~CanStartData
    /\ Kind(DataKey + 1) = "str" /\ StringEnd(buffer, DataKey + 2) = 0
    /\ Matches(t, buffer[DataKey].path) # {}

PluginTakesData(t) ==
    LET start == DataKey + 2
        bound == SetToSeq(Matches(t, buffer[DataKey].path))
        sent  == SafeEnd(start)
    IN  /\ pc = "events" /\ FirstJsonEnd = 0
        /\ TakesData(t) /\ (t = "Text" => ~TakesData("Markdown"))
        /\ entries' = [entries EXCEPT ![t] =
                {[surface |-> FirstSurface, event |-> buffer[DataKey].path, path |-> p,
                  start |-> start, sent |-> sent] : p \in ToSet(bound)}]
        /\ Deliver([i \in DOMAIN bound |->
                LeafMessage("data", FirstSurface, buffer[start - 1].at, bound[i],
                            Raw(Piece(buffer, start, sent)))])
        /\ pc' = "dispatch"
        /\ UNCHANGED <<feed, receiver, buffer, parser, dm, component, paths>>

\* Nothing more can be told from what is in the buffer.
EventsWait ==
    /\ pc = "events" /\ FirstJsonEnd = 0
    /\ ~StartsComponents /\ ~StartsData
    /\ \A t \in Types : ~TakesData(t)
    /\ pc' = "dispatch"
    /\ UNCHANGED <<feed, receiver, buffer, parser, dm, plugin, results>>
-----------------------------------------------------------------------------
(* processStreamingData(), one component or the end. *)

Next1 == SkipSpace(pos)
NextComponentEnd == IF Kind(Next1) \in Heads THEN ObjectEnd(buffer, Next1) ELSE 0

BoundType == [Markdown |-> "BoundMarkdown", Text |-> "BoundText"]

\* onComponentExtracted() of both plugins: the path of a bound component.
CollectPath(t, i) ==
    IF Kind(i) = "component" /\ buffer[i].of = BoundType[t]
    THEN paths[t] \cup {buffer[i].path} ELSE paths[t]

NextComponent ==
    /\ pc = "components" /\ NextComponentEnd # 0
    /\ Deliver(<<ComponentMessage(buffer, surface, Next1, NextComponentEnd)>>)
    /\ paths' = [t \in Types |-> CollectPath(t, Next1)]
    /\ pos' = NextComponentEnd + 1
    /\ UNCHANGED <<feed, receiver, pc, buffer, mode, surface, rest, framed, dm, component, entries>>

\* The component of type t is open inside its inline text.
TakesComponent(t) ==
    /\ Kind(Next1) = "component" /\ buffer[Next1].of = t
    /\ Kind(Next1 + 1) = "str" /\ StringEnd(buffer, Next1 + 2) = 0

PluginTakesComponent(t) ==
    LET sent == SafeEnd(Next1 + 2)
    IN  /\ pc = "components" /\ NextComponentEnd = 0
        /\ TakesComponent(t)
        /\ component' = [component EXCEPT ![t] =
                [on |-> TRUE, start |-> Next1, text |-> Next1 + 2, sent |-> sent,
                 id |-> buffer[Next1].id]]
        /\ Deliver(<<ComponentMessage(buffer, surface, Next1, sent)>>)
        /\ pos' = Next1
        /\ pc' = "dispatch"
        /\ UNCHANGED <<feed, receiver, buffer, mode, surface, rest, framed, dm, entries, paths>>

\* Leaves the loop with b in the buffer, or with what was set aside.
Leave(b) ==
    /\ buffer' = IF framed THEN rest ELSE b
    /\ rest' = <<>> /\ framed' = FALSE
    /\ pc' = "events"

\* Mutant: what follows the event is lost with it.
ComponentsEndDropsRest ==
    /\ pc = "components" /\ Kind(Next1) = "endarr" /\ Closed(Next1 + 1) # 0
    /\ Leave(<<>>)
    /\ mode' = "Idle" /\ surface' = NoId /\ pos' = 1
    /\ UNCHANGED <<feed, receiver, dm, plugin, results>>

\* The array ends, and with two more braces the event.
ComponentsEnd ==
    /\ pc = "components" /\ Kind(Next1) = "endarr" /\ Closed(Next1 + 1) # 0
    /\ Leave(After(Closed(Next1 + 1)))
    /\ mode' = "Idle" /\ surface' = NoId /\ pos' = 1
    /\ UNCHANGED <<feed, receiver, dm, plugin, results>>

\* The array ends but the event does not: all is reset (the comment says to
\* wait for more data).
ComponentsCutShort ==
    /\ pc = "components" /\ Kind(Next1) = "endarr" /\ Closed(Next1 + 1) = 0
    /\ Leave(<<>>)
    /\ mode' = "Idle" /\ pos' = 1 /\ dm' = NoData
    /\ component' = [t \in Types |-> NoComponent]
    /\ entries' = [t \in Types |-> {}]
    /\ paths' = [t \in Types |-> {}]
    /\ UNCHANGED <<feed, receiver, surface, results>>

ComponentsWait ==
    /\ pc = "components" /\ NextComponentEnd = 0 /\ Kind(Next1) # "endarr"
    /\ \A t \in Types : ~TakesComponent(t)
    /\ pos' = Next1
    /\ IF framed THEN Leave(rest) ELSE pc' = "dispatch" /\ UNCHANGED <<buffer, rest, framed>>
    /\ UNCHANGED <<feed, receiver, mode, surface, dm, plugin, results>>
-----------------------------------------------------------------------------
(* processStreamingDataModel(), one round of the loop. *)

Top  == Last(dm.stack)
At   == SkipSpace(dm.pos)          \* commas are no tokens
Digits == <<"0", "1", "2", "3", "4", "5">>

InData == pc = "data" /\ ~dm.field.on
InObject == InData /\ dm.stack # <<>> /\ Top.t = "object"
InArray  == InData /\ dm.stack # <<>> /\ Top.t = "array"

\* Where the value of the next member or element begins, and its path.
ValueAt == IF Top.t = "object" THEN At + 1 ELSE At
ValuePath == IF Top.t = "object" THEN Append(Top.path, Last(buffer[At].path))
             ELSE Append(IF Top.path = <<>> THEN <<"">> ELSE Top.path, Digits[Top.idx + 1])
HasValue == IF Top.t = "object" THEN Kind(At) = "key" /\ Kind(At + 1) # "end"
            ELSE Kind(At) \notin {"endarr", "end"}

\* The element is counted when its parsing begins (or ends, for an atom).
Counted == [dm.stack EXCEPT ![Len(dm.stack)].idx = IF Top.t = "array" THEN @ + 1 ELSE @]

\* shouldStreamField(): Markdown takes the very path, Text a path that ends so.
ShouldStreamField(path) ==
    \/ path \in paths["Markdown"]
    \/ \E p \in paths["Text"] : IsSuffix(p, path)

DataLeaf(kind, path, at, piece) ==
    Deliver(<<LeafMessage(kind, dm.surface, buffer[at].at, path, piece)>>)

OpenValue ==
    /\ InObject \/ InArray
    /\ HasValue /\ Kind(ValueAt) \in {"object", "array"}
    /\ dm' = [dm EXCEPT !.stack = Append(Counted, [t |-> Kind(ValueAt), path |-> ValuePath, idx |-> 0]),
                        !.pos = ValueAt + 1]
    /\ UNCHANGED <<feed, receiver, pc, buffer, parser, plugin, results>>

CloseValue ==
    /\ \/ InObject /\ Kind(At) = "endobj"
       \/ InArray /\ Kind(At) = "endarr"
    /\ dm' = [dm EXCEPT !.stack = Front(@), !.pos = At + 1]
    /\ UNCHANGED <<feed, receiver, pc, buffer, parser, plugin, results>>

\* startMarkdownFieldStreaming(): a string somebody is bound to is sent as it
\* comes, or as a whole when it is all there.
StreamedField ==
    LET start == ValueAt + 1
        quote == StringEnd(buffer, start)
        sent  == SafeEnd(start)
    IN  /\ InObject \/ InArray
        /\ HasValue /\ Kind(ValueAt) = "str" /\ ShouldStreamField(ValuePath)
        /\ IF quote # 0
           THEN /\ DataLeaf("data", ValuePath, ValueAt, Piece(buffer, start, quote - 1))
                /\ dm' = [dm EXCEPT !.stack = Counted, !.pos = quote + 1]
                /\ pc' = pc
           ELSE /\ IF sent >= start THEN DataLeaf("data", ValuePath, ValueAt, Piece(buffer, start, sent))
                                    ELSE results' = results
                /\ dm' = [dm EXCEPT !.stack = Counted, !.pos = ValueAt,
                             !.field = [on |-> TRUE, path |-> ValuePath, start |-> start,
                                        sent |-> sent, first |-> sent >= start]]
                /\ pc' = "dispatch"
        /\ UNCHANGED <<feed, receiver, buffer, parser, plugin>>

\* Any other value is sent when it is complete (a number when it is followed).
AtomEnd == IF Kind(ValueAt) = "str" THEN StringEnd(buffer, ValueAt + 1)
           ELSE IF Kind(ValueAt + 1) # "end" THEN ValueAt ELSE 0

AtomField ==
    /\ InObject \/ InArray
    /\ HasValue /\ Kind(ValueAt) \in {"str", "num"}
    /\ ~(Kind(ValueAt) = "str" /\ ShouldStreamField(ValuePath))
    /\ AtomEnd # 0
    /\ DataLeaf("data", ValuePath, ValueAt,
                IF Kind(ValueAt) = "num" THEN Piece(buffer, ValueAt, ValueAt)
                ELSE Piece(buffer, ValueAt + 1, AtomEnd - 1))
    /\ dm' = [dm EXCEPT !.stack = Counted, !.pos = AtomEnd + 1]
    /\ UNCHANGED <<feed, receiver, pc, buffer, parser, plugin>>

\* The value, or the name in front of it, is not there yet.
DataWait ==
    /\ InObject \/ InArray
    /\ ~HasValue \/ (Kind(ValueAt) \in {"str", "num"} /\ AtomEnd = 0
                     /\ ~(Kind(ValueAt) = "str" /\ ShouldStreamField(ValuePath)))
    /\ Kind(At) \notin {"endobj", "endarr"}
    /\ pc' = "dispatch"
    /\ UNCHANGED <<feed, receiver, buffer, parser, dm, plugin, results>>

\* Mutant: what was sent is not remembered.
ContinueFieldAgain ==
    LET f     == dm.field
        quote == StringEnd(buffer, f.start)
        to    == IF quote # 0 THEN quote - 1 ELSE SafeEnd(f.sent + 1)
        delta == Piece(buffer, f.sent + 1, to)
    IN  /\ pc = "data" /\ f.on
        /\ IF delta = <<>> THEN results' = results
           ELSE DataLeaf(IF f.first THEN "append" ELSE "data", f.path, f.start - 1, delta)
        /\ IF quote # 0
           THEN dm' = [dm EXCEPT !.pos = quote + 1, !.field = NoField] /\ pc' = pc
           ELSE dm' = [dm EXCEPT !.field.first = @ \/ delta # <<>>] /\ pc' = "dispatch"
        /\ UNCHANGED <<feed, receiver, buffer, parser, plugin>>

\* continueMarkdownFieldStreaming(): what came since the last chunk; the first
\* piece of a string sets the value, the others extend it.
ContinueField ==
    LET f     == dm.field
        quote == StringEnd(buffer, f.start)
        to    == IF quote # 0 THEN quote - 1 ELSE SafeEnd(f.sent + 1)
        delta == Piece(buffer, f.sent + 1, to)
    IN  /\ pc = "data" /\ f.on
        /\ IF delta = <<>> THEN results' = results
           ELSE DataLeaf(IF f.first THEN "append" ELSE "data", f.path, f.start - 1, delta)
        /\ IF quote # 0
           THEN dm' = [dm EXCEPT !.pos = quote + 1, !.field = NoField] /\ pc' = pc
           ELSE dm' = [dm EXCEPT !.field.sent = to, !.field.first = @ \/ delta # <<>>] /\ pc' = "dispatch"
        /\ UNCHANGED <<feed, receiver, buffer, parser, plugin>>

\* handleDataModelComplete(): as at the end of the components.
DataEnd ==
    /\ InData /\ dm.stack = <<>>
    /\ IF Closed(dm.pos) # 0
       THEN /\ buffer' = After(Closed(dm.pos)) /\ mode' = "Idle" /\ dm' = NoData
            /\ pc' = "events"
            /\ UNCHANGED <<pos, plugin>>
       ELSE Reset /\ pc' = "dispatch"
    /\ UNCHANGED <<feed, receiver, surface, rest, framed, results>>
-----------------------------------------------------------------------------
(* dispatchParseResultsBatched(): neighbouring components of one surface are *)
(* one call, everything else a call each.                                   *)

IsComponent(m) == m.kind \in {"component", "chunk"}

BatchEnd ==
    IF ~IsComponent(results[1]) THEN 1
    ELSE Max({n \in DOMAIN results :
                 \A i \in 1..n : IsComponent(results[i]) /\ results[i].surface = results[1].surface})

\* Mutant: a component goes before whatever was told earlier.
DispatchComponentsFirst ==
    /\ pc = "dispatch" /\ results # <<>>
    /\ LET i == Max({1} \cup {n \in DOMAIN results : IsComponent(results[n])})
       IN  /\ world' = Apply(doc, world, <<results[i]>>)
           /\ lastUnit' = results[i].at
           /\ results' = RemoveAt(results, i)
    /\ UNCHANGED <<feed, pc, buffer, parser, dm, plugin>>

Dispatch ==
    /\ pc = "dispatch" /\ results # <<>>
    /\ world' = Apply(doc, world, SubSeq(results, 1, BatchEnd))
    /\ lastUnit' = results[BatchEnd].at
    /\ results' = SubSeq(results, BatchEnd + 1, Len(results))
    /\ UNCHANGED <<feed, pc, buffer, parser, dm, plugin>>

ChunkDone ==
    /\ pc = "dispatch" /\ results = <<>>
    /\ pc' = "ready"
    /\ UNCHANGED <<feed, receiver, buffer, parser, dm, plugin, results>>
-----------------------------------------------------------------------------
Process ==
    \/ \E t \in Types : DriveComponent(t) \/ DriveEntries(t)
    \/ DriveLoop
    \/ EventUnknown \/ EventComponents \/ EventWhole
    \/ StartStreamingComponents \/ StartStreamingDataModel
    \/ \E t \in Types : PluginTakesData(t)
    \/ EventsWait
    \/ NextComponent \/ ComponentsEnd \/ ComponentsCutShort \/ ComponentsWait
    \/ \E t \in Types : PluginTakesComponent(t)
    \/ OpenValue \/ CloseValue \/ StreamedField \/ AtomField \/ DataWait
    \/ ContinueField \/ DataEnd
    \/ Dispatch \/ ChunkDone

Next == Begin \/ End \/ (\E n \in 1..(Len(doc) - fed) : Receive(n)) \/ Process

Spec == Init /\ [][Next]_vars

\* Whoever called receiveTextChunk() runs until the chunk is processed.
FairSpec == Spec /\ WF_vars(Process)
-----------------------------------------------------------------------------
(* Properties. *)

\* Messages are told in the order of the text, none from a place behind one
\* already told, whatever the cuts and even if chunks were dropped.
InDocumentOrder ==
    /\ \A i, j \in DOMAIN results : i < j => results[i].at <= results[j].at
    /\ results # <<>> => lastUnit <= results[1].at

Quiet == pc = "ready"

\* What the document says of the component c of surface s, or of a data path.
TextsOf(s, c) == {Content(doc, p + 1) : p \in
    {q \in DOMAIN doc : doc[q].k = "component" /\ doc[q].id = c /\ q + 1 \in DOMAIN doc
                        /\ doc[q + 1].k = "str"}}
ValuesOf(p) == {Content(doc, q) : q \in
    {x \in DOMAIN doc : doc[x].k \in {"str", "num"} /\ doc[x].path = p}}

\* At any time a text or a value shows a beginning of what the document says:
\* no piece is missing, doubled or put elsewhere (but for the known cuts).
ShowsPrefix ==
    Quiet /\ harm = {} /\ base = World0 =>
        \A s \in Surfaces :
            /\ \A c \in DOMAIN world[s].components :
                  LET text == world[s].components[c].text
                  IN  text = <<>> \/ \E full \in TextsOf(s, c) : IsPrefix(text, full)
            /\ \A p \in DOMAIN world[s].data :
                  \E full \in ValuesOf(p) : IsPrefix(world[s].data[p], full)

\* Once the whole document was fed the surfaces are as if every event had come
\* whole, and nothing is left in the extractor that the next text could run into.
OnlyKnownCutsMatter ==
    Quiet /\ fed = Len(doc) /\ harm \subseteq {"raw"} =>
        /\ world = Expected(doc, base)
        /\ mode = "Idle" /\ \A t \in Types : ~component[t].on /\ entries[t] = {}
        /\ \A i \in DOMAIN buffer : Kind(i) \in {"ws", "endobj", "endarr"}

\* The loops over the buffer end, whatever is in it.
ChunkIsProcessed == pc \notin {"off", "ready"} ~> pc = "ready"
-----------------------------------------------------------------------------
(* What the tests of the repository say. *)

\* stream_chunking_integration_test.cpp: "splitting protocol data at arbitrary
\* positions produces the same final listener events".
CutsDoNotMatter == Quiet /\ fed = Len(doc) => world = Expected(doc, base)
=============================================================================
