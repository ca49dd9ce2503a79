----------------------------- MODULE ProtocolText -----------------------------
(***************************************************************************)
(* A protocol text as a sequence of tokens, and what the engine's surfaces *)
(* hold after the messages that were taken from it.  A token carries its   *)
(* position in its document (at) and text is a sequence of such positions, *)
(* so that a piece that is lost, repeated or put elsewhere is told from    *)
(* every other piece.                                                      *)
(*                                                                         *)
(* Kinds of token (field k):                                               *)
(*   open                 the brace of an event, with its version          *)
(*   create, components, data, append, delete                              *)
(*                        the key of the event and its inner brace, with   *)
(*                        the surface (on) and, for data, the path         *)
(*   list                 "components":[                                   *)
(*   component            the brace of a component with its id and type    *)
(*                        (of) and, if bound to data, that path            *)
(*   attr                 another attribute of the component               *)
(*   str, quote           the opening (with the key of an inline text) and *)
(*                        the closing quote of a string                    *)
(*   ch, bs, u, x         a character; a backslash; the u of an escape, in *)
(*                        which digits follow; the last of these digits    *)
(*   key                  the name of a member                             *)
(*   object, array, num   how a value begins: {, [, a digit                *)
(*   endobj, endarr, ws   }, ], white space between events                 *)
(***************************************************************************)
EXTENDS Integers, SequencesExt, FiniteSetsExt

EventKeys == {"create", "components", "data", "append", "delete"}
Heads     == {"open", "component", "object"}     \* begin with their brace
Braces    == EventKeys \cup Heads
Inline    == {"Text", "Markdown"}

Least(S) == IF S = {} THEN 0 ELSE Min(S)

\* How many braces are open at j of those opened from i on.
Opened(d, i, j) ==
    Cardinality({k \in i..j : d[k].k \in Braces}) - Cardinality({k \in i..j : d[k].k = "endobj"})

\* Where the object that begins at i ends, 0 if it does not.
ObjectEnd(d, i) == Least({j \in i..Len(d) : d[j].k = "endobj" /\ Opened(d, i, j) = 0})

\* The closing quote of the string that begins at i, 0 if there is none.
StringEnd(d, i) == Least({j \in i..Len(d) : d[j].k = "quote"})
-----------------------------------------------------------------------------
(* What a message does to the surfaces (world). *)

NoSurface  == [live |-> FALSE, components |-> <<>>, data |-> <<>>]
NewSurface == [NoSurface EXCEPT !.live = TRUE]

\* A string that ends inside an escape makes its message unreadable.  (A
\* negative position is a backslash that was escaped once more: no escape.)
Broken(d, text) == text # <<>> /\ Last(text) > 0 /\ d[Last(text)].k \in {"bs", "u"}

\* The text in the tokens lo..hi of d.
Piece(d, lo, hi) == [i \in 1..(hi - lo + 1) |-> d[lo + i - 1].at]

Content(d, p) == IF d[p].k = "num" THEN <<d[p].at>>
                 ELSE Piece(d, p + 1, StringEnd(d, p) - 1)

\* SurfaceCoordinator::createSurface(): an identifier in use is refused.
CreateSurface(world, m) ==
    IF world[m.surface].live THEN world ELSE [world EXCEPT ![m.surface] = NewSurface]

DeleteSurface(world, m) == [world EXCEPT ![m.surface] = NoSurface]

\* One component of an updateComponents message: the text it brings replaces
\* or (a chunk) continues the text of the component.
PutComponent(components, m) ==
    LET old == IF m.id \in DOMAIN components THEN components[m.id]
               ELSE [text |-> <<>>, attr |-> FALSE]
    IN  (m.id :> [text |-> IF m.kind = "chunk" THEN old.text \o m.text
                           ELSE IF m.hasText THEN m.text ELSE old.text,
                  attr |-> old.attr \/ m.attr]) @@ components

\* updateComponents() with a batch of components of one surface: a message
\* that does not parse, or whose surface is not there, is refused as a whole.
UpdateComponents(d, world, batch) ==
    LET s == batch[1].surface
    IN  IF ~world[s].live \/ \E i \in DOMAIN batch : Broken(d, batch[i].text)
        THEN world
        ELSE [world EXCEPT ![s].components =
                 FoldLeft(PutComponent, @, batch)]

\* updateDataModel() and appendDataModel(), as what a listener holds that
\* continues appended text (what DataModel makes of an append is in
\* DataBinding).  A value for a path other than the root takes the place of
\* all that was below it.
UpdateDataModel(d, world, m) ==
    LET data == world[m.surface].data
        kept == IF m.kind = "append" \/ m.path = <<>> THEN data
                ELSE [p \in {q \in DOMAIN data : ~IsPrefix(m.path, q)} |-> data[p]]
        new(p) == IF m.kind = "append" /\ p \in DOMAIN data THEN data[p] \o m.leaves[p]
                  ELSE m.leaves[p]
    IN  IF ~world[m.surface].live \/ \E p \in DOMAIN m.leaves : Broken(d, m.leaves[p])
        THEN world
        ELSE [world EXCEPT ![m.surface].data =
                 [p \in DOMAIN m.leaves |-> new(p)] @@ kept]

\* The call the coordinator makes for a batch: components of one surface, or
\* a single other message.
Apply(d, world, batch) ==
    LET m == batch[1]
    IN  CASE m.kind \in {"component", "chunk"} -> UpdateComponents(d, world, batch)
          [] m.kind = "create" -> CreateSurface(world, m)
          [] m.kind = "delete" -> DeleteSurface(world, m)
          [] m.kind = "unreadable" -> world
          [] OTHER -> UpdateDataModel(d, world, m)
-----------------------------------------------------------------------------
(* Messages taken from the text.  at is the position they were taken from. *)

\* A component whose tokens are the positions lo..hi, complete or cut inside
\* its inline text.
ComponentMessage(d, surface, lo, hi) ==
    LET str == Least({i \in lo..hi : d[i].k = "str"})
        end == StringEnd(d, str + 1)
    IN  [kind |-> "component", at |-> d[lo].at, surface |-> surface, id |-> d[lo].id,
         hasText |-> str # 0,
         text |-> IF str = 0 THEN <<>>
                  ELSE Piece(d, str + 1, IF end \in lo..hi THEN end - 1 ELSE hi),
         attr |-> \E i \in lo..hi : d[i].k = "attr"]

ChunkMessage(surface, at, id, text) ==
    [kind |-> "chunk", at |-> at, surface |-> surface, id |-> id,
     hasText |-> TRUE, text |-> text, attr |-> FALSE]

LeafMessage(kind, surface, at, path, text) ==
    [kind |-> kind, at |-> at, surface |-> surface, path |-> path, leaves |-> (path :> text)]

\* A whole event other than updateComponents.
EventMessage(d, lo, hi) ==
    LET key   == d[lo + 1]
        leafs == {p \in lo..hi : d[p].k \in {"num", "str"}}
    IN  [kind |-> key.k, at |-> d[lo].at, surface |-> key.on, path |-> key.path,
         leaves |-> [q \in {d[p].path : p \in leafs} |->
                        Content(d, CHOOSE p \in leafs : d[p].path = q)]]
-----------------------------------------------------------------------------
(* The reference: every event of the document, taken as a whole. *)

EventsOf(d) == {i \in DOMAIN d : d[i].k = "open"}
EventEnd(d, i) == ObjectEnd(d, i)

BatchesOf(d, e) ==
    IF d[e + 1].k # "components" THEN <<<<EventMessage(d, e, EventEnd(d, e))>>>>
    ELSE LET starts == SetToSortSeq({i \in e..EventEnd(d, e) : d[i].k = "component"}, <)
         IN  [i \in DOMAIN starts |->
                 <<ComponentMessage(d, d[e + 1].on, starts[i], ObjectEnd(d, starts[i]))>>]

Expected(d, world) ==
    FoldLeft(LAMBDA w, batch : Apply(d, w, batch), world,
             FlattenSeq([i \in 1..Cardinality(EventsOf(d)) |->
                            BatchesOf(d, SetToSortSeq(EventsOf(d), <)[i])]))
=============================================================================
