------------------------ MODULE SurfacePipelineProofs ------------------------
(***************************************************************************)
(* Proofs about SurfacePipeline, for any number of children and items, any *)
(* cap on the passes of a flush and any number of changes.                  *)
(*                                                                         *)
(* The first part fixes what the call stack can look like: for each kind of *)
(* call on its top, which calls are below it, which batches are open, which *)
(* flush is running and what may be waiting for one.                        *)
(***************************************************************************)
EXTENDS SurfacePipeline, FiniteSetTheorems, SequenceTheorems,
        WellFoundedInduction, TLAPS

Kinds    == {"add", "update", "remove"}
Messages == [kind : Kinds, id : Ids, ver : Nat]
Points   == {"body", "end", "close", "flush", "flushed", "collect", "components", "request",
             "layout", "emit", "take", "dispatch"}
Frames   == [at : Points, guard : Guards, pass : Nat, todo : Seq(Ids) \cup Seq(Messages)]

DepthOK   == depth \in [Guards -> Nat]
PendingOK == pending \in [Guards -> BOOLEAN] /\ flushing \in [Guards -> BOOLEAN]
QueueOK   == /\ dirtyOrder \in Seq(Ids) /\ dirtyIndex \subseteq Ids /\ dirty \subseteq components
             /\ \A c \in dirtyIndex : \E i \in DOMAIN dirtyOrder : dirtyOrder[i] = c
CountOK   == layouts \in Nat /\ bursts \in Nat /\ capped \in BOOLEAN /\ overdue \in BOOLEAN
DomOK     == /\ nodes \in Seq(Ids) /\ listed \in Seq(Ids) /\ components \subseteq Ids
             /\ newLayout \subseteq Ids /\ shown \subseteq Ids
             /\ version \in [Ids -> Nat] /\ snap \in [Ids -> Nat] /\ orphan \in [Ids -> Nat]
             /\ bound => Root \in components \/ gone
SentOK    == pendingDispatches \in Seq(Messages) /\ platform \in [Ids -> Nat]

Types == /\ DepthOK /\ PendingOK /\ QueueOK /\ CountOK /\ DomOK /\ SentOK
         /\ gone \in BOOLEAN /\ bound \in BOOLEAN /\ changes \in Nat /\ lost \subseteq Ids

\* The calls below the one on top, from the body of an operation to its last
\* batch.
EndDispatch     == Cons(Call("end", "dispatch"), <<>>)
EndLayout       == Cons(Call("end", "layout"), EndDispatch)
CloseDispatch   == Cons(Call("close", "dispatch"), <<>>)
EndLayoutLast   == Cons(Call("end", "layout"), CloseDispatch)
CloseLayout     == Cons(Call("close", "layout"), CloseDispatch)
EndComponents   == Cons(Call("end", "components"), CloseLayout)
CloseComponents == Cons(Call("close", "components"), CloseLayout)

Pass(at, g, n) == [at |-> at, guard |-> g, pass |-> n, todo |-> <<>>]
Pending(g)     == pending[g] = TRUE
Flushes(g)     == flushing[g] = TRUE

Depths(d, l, c) == depth["dispatch"] = d /\ depth["layout"] = l /\ depth["components"] = c

\* What waits for a flush of the components, of the layout, of the messages.
Undone    == (newLayout \cap Visited) \cup (Visited \ shown)
Collected == Pending("components") \/ (dirtyOrder = <<>> /\ dirtyIndex = {})
LaidOut   == Pending("layout") \/ Undone = {}
Sent      == Pending("dispatch") \/ pendingDispatches = <<>>
Noticed   == dirty \subseteq dirtyIndex
NoticedBut(todo) == \A c \in dirty : c \in dirtyIndex \/ \E i \in DOMAIN todo : todo[i] = c

\* The batches are open and nothing was flushed yet.
Opened == /\ ~gone /\ bursts = 0 /\ \A g \in Guards : ~Flushes(g)
          /\ Noticed /\ Collected /\ ~Pending("layout") /\ Undone = {} /\ Sent
          /\ layouts = 0 \/ layouts = 1
          /\ layouts = 1 /\ Pending("components") => overdue
\* The components are being flushed, by a flush that is in its pass.
InComponents == /\ ~gone /\ bursts = 0 /\ ~Flushes("dispatch") /\ ~Flushes("layout")
                /\ Depths(1, 1, 0) /\ Sent /\ (layouts = 0 \/ overdue)
InPass       == InComponents /\ Flushes("components")
\* The components were flushed.
AfterComponents == Noticed /\ Collected /\ (Pending("components") => capped)
OneLayout       == layouts <= 1 \/ overdue
InLayout        == /\ AfterComponents /\ ~gone /\ bursts = 0 /\ Sent
                   /\ ~Flushes("dispatch") /\ ~Flushes("components")
\* The messages are being dispatched, in a batch or by the destructor.
InDispatch(rest) == /\ AfterComponents /\ ~Pending("layout") /\ Undone = {}
                    /\ ~Flushes("layout") /\ ~Flushes("components") /\ Depths(0, 0, 0)
                    /\ gone \/ (rest = <<>> /\ OneLayout)
                    /\ ~gone \/ \E m \in Seq(Messages) : rest = Cons(CallOn("emit", m), <<>>)

AtBody == /\ stack = Cons(Call("body", "layout"), EndLayout)
          /\ Opened /\ Depths(1, 2, 1) /\ layouts = 0

AtLayout ==
    \/ /\ stack = Cons(Call("layout", "layout"), EndLayout)
       /\ Opened /\ Depths(1, 2, 1) /\ layouts = 0 /\ (Pending("components") => overdue)
    \/ \E n \in Nat :
       /\ stack = Cons(Call("layout", "layout"), Cons(Pass("flushed", "layout", n), CloseDispatch))
       /\ InLayout /\ Depths(1, 0, 0) /\ Flushes("layout") /\ ~Pending("layout")
       /\ layouts = 0 \/ overdue

InComponentsStack(n, todo) ==
    Cons(CallOn("components", todo), Cons(Pass("flushed", "components", n), CloseLayout))
RequestStack(n, todo) == Cons(Call("request", "layout"), InComponentsStack(n, todo))

AtEmit == \E m \in Seq(Messages) :
    \/ /\ stack = Cons(CallOn("emit", m), EndLayout)
       /\ Opened /\ Depths(1, 2, 1)
    \/ \E n \in Nat, todo \in Seq(Ids) :
       /\ stack = Cons(CallOn("emit", m), RequestStack(n, todo))
       /\ InPass /\ Collected /\ NoticedBut(todo)
    \/ \E n \in Nat :
       /\ stack = Cons(CallOn("emit", m), Cons(Pass("flushed", "layout", n), CloseDispatch))
       /\ InLayout /\ Depths(1, 0, 0) /\ Flushes("layout") /\ ~Pending("layout")
       /\ OneLayout /\ Undone = {}
    \/ /\ stack = Cons(CallOn("emit", m), <<>>)
       /\ gone /\ Depths(0, 0, 0) /\ AfterComponents /\ ~Pending("layout") /\ Undone = {}
       /\ ~Pending("dispatch") /\ pendingDispatches = <<>> /\ \A g \in Guards : ~Flushes(g)

AtEnd == /\ Opened
         /\ \/ stack = EndLayout /\ Depths(1, 2, 1)
            \/ stack = EndDispatch /\ Depths(1, 1, 1)
            \/ stack = EndLayoutLast /\ Depths(1, 1, 1)
            \/ stack = EndComponents /\ Depths(1, 1, 1)

AtClose ==
    \/ stack = CloseComponents /\ Opened /\ Depths(1, 1, 1)
    \/ /\ stack = CloseLayout
       /\ InLayout /\ Depths(1, 1, 0) /\ ~Flushes("layout") /\ LaidOut /\ OneLayout
       /\ Pending("layout") => layouts = 0 \/ overdue
    \/ /\ stack = CloseDispatch
       /\ InLayout /\ Depths(1, 0, 0) /\ ~Flushes("layout") /\ ~Pending("layout")
       /\ OneLayout /\ Undone = {}

AtFlush == \E n \in Nat :
    \/ /\ stack = Cons(Pass("flush", "components", n), CloseLayout)
       /\ InComponents /\ Noticed /\ LaidOut
    \/ /\ stack = Cons(Pass("flush", "layout", n), CloseDispatch)
       /\ InLayout /\ Depths(1, 0, 0) /\ (layouts = 0 \/ overdue)
    \/ \E rest \in Seq(Frames) :
       /\ stack = Cons(Pass("flush", "dispatch", n), rest)
       /\ InDispatch(rest) /\ (gone \/ bursts = 0)

AtFlushed == \E n \in Nat :
    \/ /\ stack = Cons(Pass("flushed", "components", n), CloseLayout)
       /\ InPass /\ Noticed /\ Collected /\ LaidOut
    \/ /\ stack = Cons(Pass("flushed", "layout", n), CloseDispatch)
       /\ InLayout /\ Depths(1, 0, 0) /\ Flushes("layout") /\ ~Pending("layout")
       /\ OneLayout /\ Undone = {}
    \/ \E rest \in Seq(Frames) :
       /\ stack = Cons(Pass("flushed", "dispatch", n), rest)
       /\ InDispatch(rest) /\ Flushes("dispatch") /\ ~Pending("dispatch")
       /\ pendingDispatches = <<>> /\ (gone \/ bursts <= 1)

AtCollect == \E n \in Nat :
    /\ stack = Cons(Call("collect", "components"), Cons(Pass("flushed", "components", n), CloseLayout))
    /\ InPass /\ Noticed /\ LaidOut /\ ~Pending("components")

AtComponents == \E n \in Nat, todo \in Seq(Ids) :
    /\ stack = InComponentsStack(n, todo)
    /\ InPass /\ Collected /\ NoticedBut(todo) /\ LaidOut

AtRequest == \E n \in Nat, todo \in Seq(Ids) :
    /\ stack = RequestStack(n, todo)
    /\ InPass /\ Collected /\ NoticedBut(todo)

AtTake == \E n \in Nat, rest \in Seq(Frames) :
    /\ stack = Cons(Call("take", "dispatch"), Cons(Pass("flushed", "dispatch", n), rest))
    /\ InDispatch(rest) /\ Flushes("dispatch") /\ ~Pending("dispatch") /\ (gone \/ bursts = 0)

AtDispatch == \E n \in Nat, rest \in Seq(Frames), m \in Seq(Messages) :
    /\ stack = Cons(CallOn("dispatch", m), Cons(Pass("flushed", "dispatch", n), rest))
    /\ InDispatch(rest) /\ Flushes("dispatch") /\ ~Pending("dispatch")
    /\ pendingDispatches = <<>> /\ (gone \/ bursts <= 1)

AtRest == /\ stack = <<>> /\ Depths(0, 0, 0) /\ \A g \in Guards : ~Flushes(g)
          /\ AfterComponents /\ ~Pending("layout") /\ Undone = {}
          /\ ~Pending("dispatch") /\ pendingDispatches = <<>>
          /\ gone \/ (OneLayout /\ bursts <= 1)

Control == \/ AtBody \/ AtLayout \/ AtEmit \/ AtEnd \/ AtClose \/ AtFlush \/ AtFlushed
           \/ AtCollect \/ AtComponents \/ AtRequest \/ AtTake \/ AtDispatch \/ AtRest
-----------------------------------------------------------------------------
(* The stack. *)

\* A call put on a stack is its head, and the stack is below it.
LEMMA OnTop ==
    ASSUME NEW f \in Frames, NEW s \in Seq(Frames)
    PROVE  /\ Cons(f, s) \in Seq(Frames)
           /\ Cons(f, s) # <<>>
           /\ Head(Cons(f, s)) = f
           /\ Tail(Cons(f, s)) = s
<1>1. <<f>> \in Seq(Frames) /\ Len(<<f>>) = 1 /\ <<f>>[1] = f
    OBVIOUS
<1>2. /\ Cons(f, s) \in Seq(Frames)
      /\ Len(Cons(f, s)) = 1 + Len(s)
      /\ \A i \in 1..1 + Len(s) : Cons(f, s)[i] = IF i <= 1 THEN <<f>>[i] ELSE s[i - 1]
    BY <1>1, ConcatProperties DEF Cons
<1>3. Len(s) \in Nat
    OBVIOUS
<1>4. Cons(f, s) # <<>> /\ Head(Cons(f, s)) = f
    BY <1>1, <1>2, <1>3
<1>5. Tail(Cons(f, s)) \in Seq(Frames) /\ Len(Tail(Cons(f, s))) = Len(s)
    BY <1>2, <1>3, <1>4, HeadTailProperties
<1>6. \A i \in 1..Len(s) : Tail(Cons(f, s))[i] = s[i]
    BY <1>2, <1>3, <1>4
<1>7. Tail(Cons(f, s)) = s
    BY <1>5, <1>6, SeqEqual
<1> QED
    BY <1>2, <1>4, <1>7

\* The calls of the model are frames.
LEMMA CallsAreFrames ==
    /\ \A g \in Guards : /\ Call("body", g) \in Frames /\ Call("end", g) \in Frames
                        /\ Call("close", g) \in Frames /\ Call("collect", g) \in Frames
                        /\ Call("layout", g) \in Frames /\ Call("request", g) \in Frames
                        /\ Call("take", g) \in Frames /\ Call("flush", g) \in Frames
    /\ \A m \in Seq(Messages) : CallOn("emit", m) \in Frames /\ CallOn("dispatch", m) \in Frames
    /\ \A todo \in Seq(Ids) : CallOn("components", todo) \in Frames
    /\ \A g \in Guards, n \in Nat : /\ Pass("flush", g, n) \in Frames
                                  /\ Pass("flushed", g, n) \in Frames
<1>1. <<>> \in Seq(Ids)
    OBVIOUS
<1> QED
    BY <1>1 DEF Call, CallOn, Pass, Frames, Points, Guards

LEMMA BasesAreStacks ==
    /\ <<>> \in Seq(Frames)
    /\ EndDispatch \in Seq(Frames) /\ EndLayout \in Seq(Frames)
    /\ CloseDispatch \in Seq(Frames) /\ EndLayoutLast \in Seq(Frames)
    /\ CloseLayout \in Seq(Frames) /\ EndComponents \in Seq(Frames)
    /\ CloseComponents \in Seq(Frames)
<1>1. <<>> \in Seq(Frames)
    OBVIOUS
<1>2. \A g \in Guards : Call("end", g) \in Frames /\ Call("close", g) \in Frames
    BY CallsAreFrames
<1>3. "dispatch" \in Guards /\ "layout" \in Guards /\ "components" \in Guards
    BY DEF Guards
<1>4. \A f \in Frames, s \in Seq(Frames) : Cons(f, s) \in Seq(Frames)
    BY OnTop
<1>5. EndDispatch \in Seq(Frames) /\ CloseDispatch \in Seq(Frames)
    BY <1>4, <1>1, <1>2, <1>3 DEF EndDispatch, CloseDispatch
<1>6. EndLayout \in Seq(Frames) /\ EndLayoutLast \in Seq(Frames) /\ CloseLayout \in Seq(Frames)
    BY <1>4, <1>2, <1>3, <1>5 DEF EndLayout, EndLayoutLast, CloseLayout
<1>7. EndComponents \in Seq(Frames) /\ CloseComponents \in Seq(Frames)
    BY <1>4, <1>2, <1>3, <1>6 DEF EndComponents, CloseComponents
<1> QED
    BY <1>1, <1>5, <1>6, <1>7

\* A call on top of a stack, as the actions look at it.
LEMMA Calling ==
    ASSUME NEW f \in Frames, NEW s \in Seq(Frames), stack = Cons(f, s)
    PROVE  /\ Head(stack) = f /\ Caller = s
           /\ \A at \in Points : At(at) <=> f.at = at
BY OnTop DEF At, Caller

LEMMA FlushesAreStacks ==
    ASSUME NEW n \in Nat
    PROVE  /\ Cons(Pass("flushed", "components", n), CloseLayout) \in Seq(Frames)
           /\ Cons(Pass("flushed", "layout", n), CloseDispatch) \in Seq(Frames)
           /\ \A rest \in Seq(Frames) : Cons(Pass("flushed", "dispatch", n), rest) \in Seq(Frames)
           /\ \A todo \in Seq(Ids) : /\ InComponentsStack(n, todo) \in Seq(Frames)
                                     /\ RequestStack(n, todo) \in Seq(Frames)
<1>1. \A f \in Frames, s \in Seq(Frames) : Cons(f, s) \in Seq(Frames)
    BY OnTop
<1>2. "dispatch" \in Guards /\ "layout" \in Guards /\ "components" \in Guards
    BY DEF Guards
<1>3. /\ \A g \in Guards : Pass("flushed", g, n) \in Frames
      /\ Call("request", "layout") \in Frames
      /\ \A todo \in Seq(Ids) : CallOn("components", todo) \in Frames
    BY <1>2, CallsAreFrames
<1>4. /\ Cons(Pass("flushed", "components", n), CloseLayout) \in Seq(Frames)
      /\ Cons(Pass("flushed", "layout", n), CloseDispatch) \in Seq(Frames)
      /\ \A rest \in Seq(Frames) : Cons(Pass("flushed", "dispatch", n), rest) \in Seq(Frames)
    BY <1>1, <1>2, <1>3, BasesAreStacks
<1>5. \A todo \in Seq(Ids) : InComponentsStack(n, todo) \in Seq(Frames)
    BY <1>1, <1>3, <1>4 DEF InComponentsStack
<1> QED
    BY <1>1, <1>3, <1>4, <1>5 DEF RequestStack

\* What is below the call on top, as far as it decides what comes next.
LEMMA Tops ==
    /\ AtBody => At("body")
    /\ AtLayout => At("layout")
    /\ AtEmit => At("emit")
    /\ AtEnd => At("end")
    /\ AtClose => At("close")
    /\ AtFlush => At("flush")
    /\ AtFlushed => At("flushed")
    /\ AtCollect => At("collect")
    /\ AtComponents => At("components")
    /\ AtRequest => At("request")
    /\ AtTake => At("take")
    /\ AtDispatch => At("dispatch")
    /\ AtRest => stack = <<>>
<1>1. \A f \in Frames, s \in Seq(Frames) : stack = Cons(f, s) => At(f.at)
    BY OnTop DEF At
<1>2. "dispatch" \in Guards /\ "layout" \in Guards /\ "components" \in Guards
    BY DEF Guards
<1>3. /\ \A at, g : Call(at, g).at = at
      /\ \A at, todo : CallOn(at, todo).at = at
      /\ \A at, g, n : Pass(at, g, n).at = at
    BY DEF Call, CallOn, Pass
<1> USE <1>1, <1>2, <1>3, CallsAreFrames, BasesAreStacks
<1>4. AtBody => At("body")
    BY DEF AtBody
<1>5. AtLayout => At("layout")
    BY FlushesAreStacks DEF AtLayout
<1>6. AtEmit => At("emit")
    BY FlushesAreStacks DEF AtEmit
<1>7. AtEnd => At("end")
    <2>1. \A g \in Guards, s \in Seq(Frames) : stack = Cons(Call("end", g), s) => At("end")
        OBVIOUS
    <2> QED
        BY ONLY <2>1, <1>2, BasesAreStacks DEF AtEnd, EndLayout, EndDispatch, EndLayoutLast, EndComponents
<1>8. AtClose => At("close")
    <2>1. \A g \in Guards, s \in Seq(Frames) : stack = Cons(Call("close", g), s) => At("close")
        OBVIOUS
    <2> QED
        BY ONLY <2>1, <1>2, BasesAreStacks DEF AtClose, CloseComponents, CloseLayout, CloseDispatch
<1>9. AtFlush => At("flush")
    <2>1. ASSUME NEW n \in Nat, NEW g \in Guards, NEW s \in Seq(Frames),
                 stack = Cons(Pass("flush", g, n), s)
          PROVE  At("flush")
        <3>1. Pass("flush", g, n) \in Frames /\ Pass("flush", g, n).at = "flush"
            OBVIOUS
        <3>2. At(Pass("flush", g, n).at)
            BY <3>1, <2>1
        <3> QED
            BY <3>1, <3>2
    <2> QED
        BY ONLY <2>1, <1>2, BasesAreStacks DEF AtFlush
<1>10. AtFlushed => At("flushed")
    <2>1. ASSUME NEW n \in Nat, NEW g \in Guards, NEW s \in Seq(Frames),
                 stack = Cons(Pass("flushed", g, n), s)
          PROVE  At("flushed")
        <3>1. Pass("flushed", g, n) \in Frames /\ Pass("flushed", g, n).at = "flushed"
            OBVIOUS
        <3>2. At(Pass("flushed", g, n).at)
            BY <3>1, <2>1
        <3> QED
            BY <3>1, <3>2
    <2> QED
        BY ONLY <2>1, <1>2, BasesAreStacks DEF AtFlushed
<1>11. AtCollect => At("collect")
    BY FlushesAreStacks DEF AtCollect
<1>12. AtComponents => At("components")
    <2>1. \A m \in Seq(Ids), s \in Seq(Frames) :
             stack = Cons(CallOn("components", m), s) => At("components")
        OBVIOUS
    <2> QED
        BY ONLY <2>1, FlushesAreStacks DEF AtComponents, InComponentsStack
<1>13. AtRequest => At("request")
    BY FlushesAreStacks DEF AtRequest, RequestStack
<1>14. AtTake => At("take")
    BY FlushesAreStacks DEF AtTake
<1>15. AtDispatch => At("dispatch")
    <2>1. \A m \in Seq(Messages), s \in Seq(Frames) :
             stack = Cons(CallOn("dispatch", m), s) => At("dispatch")
        OBVIOUS
    <2> QED
        BY ONLY <2>1, FlushesAreStacks DEF AtDispatch
<1>16. AtRest => stack = <<>>
    BY DEF AtRest
<1> QED
    BY <1>4, <1>5, <1>6, <1>7, <1>8, <1>9, <1>10, <1>11, <1>12, <1>13, <1>14, <1>15, <1>16

\* The call on top decides which of the cases of Control it is.
LEMMA TopDecides ==
    ASSUME Control
    PROVE  /\ At("body") => AtBody
           /\ At("layout") => AtLayout
           /\ At("emit") => AtEmit
           /\ At("end") => AtEnd
           /\ At("close") => AtClose
           /\ At("flush") => AtFlush
           /\ At("flushed") => AtFlushed
           /\ At("collect") => AtCollect
           /\ At("components") => AtComponents
           /\ At("request") => AtRequest
           /\ At("take") => AtTake
           /\ At("dispatch") => AtDispatch
           /\ stack = <<>> => AtRest
BY Tops DEF Control, At
-----------------------------------------------------------------------------
(* The steps. *)

LEMMA Tuples ==
    ASSUME NEW a \in Frames, NEW b \in Frames, NEW c \in Frames
    PROVE  /\ <<a>> = Cons(a, <<>>)
           /\ <<a, b, c>> = Cons(a, Cons(b, Cons(c, <<>>)))
<1>1. <<a>> = Cons(a, <<>>)
    BY DEF Cons
<1>2. <<c>> \in Seq(Frames) /\ Cons(c, <<>>) = <<c>>
    BY DEF Cons
<1>3. /\ Cons(b, <<c>>) \in Seq(Frames) /\ Len(Cons(b, <<c>>)) = 2
      /\ Cons(b, <<c>>)[1] = b /\ Cons(b, <<c>>)[2] = c
    BY DEF Cons
<1>4. /\ Cons(a, Cons(b, <<c>>)) \in Seq(Frames) /\ Len(Cons(a, Cons(b, <<c>>))) = 3
      /\ Cons(a, Cons(b, <<c>>))[1] = a /\ Cons(a, Cons(b, <<c>>))[2] = b
      /\ Cons(a, Cons(b, <<c>>))[3] = c
    BY <1>3 DEF Cons
<1>5. <<a, b, c>> \in Seq(Frames) /\ Len(<<a, b, c>>) = 3
    OBVIOUS
<1>6. \A i \in 1..3 : <<a, b, c>>[i] = Cons(a, Cons(b, <<c>>))[i]
    BY <1>4
<1>7. <<a, b, c>> = Cons(a, Cons(b, <<c>>))
    BY <1>4, <1>5, <1>6, SeqEqual
<1> QED
    BY <1>1, <1>2, <1>7

\* beginBatch() of the outermost guard opens all three.
LEMMA Beginnings ==
    ASSUME DepthOK, Depths(0, 0, 0)
    PROVE  LET d == Begin(depth, "dispatch")
               e == Begin(d, "layout")
           IN  /\ d \in [Guards -> Nat] /\ e \in [Guards -> Nat]
               /\ d["dispatch"] = 1 /\ d["layout"] = 1 /\ d["components"] = 1
               /\ e["dispatch"] = 1 /\ e["layout"] = 2 /\ e["components"] = 1
<1>1. LET d == Begin(depth, "dispatch")
      IN  /\ d \in [Guards -> Nat]
          /\ d["dispatch"] = 1 /\ d["layout"] = 1 /\ d["components"] = 1
    BY DEF DepthOK, Depths, Begin, Cascades, Inner, HasInner, Guards
<1>2. ASSUME NEW d \in [Guards -> Nat], d["dispatch"] = 1, d["layout"] = 1, d["components"] = 1
      PROVE  LET e == Begin(d, "layout")
             IN  /\ e \in [Guards -> Nat]
                 /\ e["dispatch"] = 1 /\ e["layout"] = 2 /\ e["components"] = 1
    BY <1>2 DEF Begin, Cascades, Inner, HasInner, Guards
<1> QED
    BY <1>1, <1>2

LEMMA OperationsStart ==
    ASSUME Types, Control, BeginUpdate \/ BeginNoUpdate \/ BeginLayoutNow
    PROVE  Control'
<1>1. AtRest /\ ~gone
    BY TopDecides DEF BeginUpdate, BeginNoUpdate, BeginLayoutNow, StartOperation
<1>2. /\ overdue' = capped /\ layouts' = 0 /\ bursts' = 0
      /\ UNCHANGED <<model, queue, dom, pendingDispatches, pending, flushing, gone, platform>>
    BY DEF BeginUpdate, BeginNoUpdate, BeginLayoutNow, StartOperation
<1>3. Opened' /\ layouts' = 0 /\ (Pending("components")' => overdue')
    BY <1>1, <1>2 DEF Opened, AtRest, AfterComponents, Noticed, Collected, Sent, Undone, Visited, Nodes,
       Pending, Flushes, Types, CountOK, queue, dom, model
<1>4. CASE BeginUpdate
    <2>1. depth' = Begin(Begin(depth, "dispatch"), "layout")
        BY <1>4 DEF BeginUpdate, StartOperation
    <2>2. Depths(1, 2, 1)'
        BY <1>1, <2>1, Beginnings DEF Depths, AtRest, Types
    <2>3. stack' = <<Call("body", "layout"), Call("end", "layout"), Call("end", "dispatch")>>
        BY <1>4 DEF BeginUpdate, StartOperation
    <2>4. /\ Call("body", "layout") \in Frames /\ Call("end", "layout") \in Frames
          /\ Call("end", "dispatch") \in Frames
        BY CallsAreFrames DEF Guards
    <2>5. stack' = Cons(Call("body", "layout"), EndLayout)
        BY <2>3, <2>4, Tuples DEF EndLayout, EndDispatch
    <2> QED
        BY <1>3, <2>2, <2>5 DEF Control, AtBody
<1>5. CASE BeginNoUpdate
    <2>1. depth' = Begin(depth, "dispatch")
        BY <1>5 DEF BeginNoUpdate, StartOperation
    <2>2. Depths(1, 1, 1)'
        BY <1>1, <2>1, Beginnings DEF Depths, AtRest, Types
    <2>3. stack' = <<Call("end", "dispatch")>>
        BY <1>5 DEF BeginNoUpdate, StartOperation
    <2>4. stack' = EndDispatch
        BY <2>3, Tuples, CallsAreFrames DEF EndDispatch, Guards
    <2> QED
        BY <1>3, <2>2, <2>4 DEF Control, AtEnd
<1>6. CASE BeginLayoutNow
    <2>1. depth' = Begin(Begin(depth, "dispatch"), "layout")
        BY <1>6 DEF BeginLayoutNow, StartOperation
    <2>2. Depths(1, 2, 1)'
        BY <1>1, <2>1, Beginnings DEF Depths, AtRest, Types
    <2>3. stack' = <<Call("layout", "layout"), Call("end", "layout"), Call("end", "dispatch")>>
        BY <1>6 DEF BeginLayoutNow, StartOperation
    <2>4. /\ Call("layout", "layout") \in Frames /\ Call("end", "layout") \in Frames
          /\ Call("end", "dispatch") \in Frames
        BY CallsAreFrames DEF Guards
    <2>5. stack' = Cons(Call("layout", "layout"), EndLayout)
        BY <2>3, <2>4, Tuples DEF EndLayout, EndDispatch
    <2> QED
        BY <1>3, <2>2, <2>5 DEF Control, AtLayout
<1> QED
    BY <1>4, <1>5, <1>6

\* The body of an update marks components dirty and asks for a flush that must
\* wait for the end of the batch.
LEMMA BodySteps ==
    ASSUME Types, Control, Change \/ BodyEnd
    PROVE  Control'
<1>1. At("body")
    BY DEF Change, BodyEnd, Define, DefineRoot, DefineListRoot, Grow, Shrink, Touch, Changing
<1>2. AtBody
    BY <1>1, TopDecides
<1>3. stack = Cons(Call("body", "layout"), EndLayout) /\ Opened /\ Depths(1, 2, 1) /\ layouts = 0
    BY <1>2 DEF AtBody
<1>4. CASE Change
    <2>1. UNCHANGED <<dom, pendingDispatches, gone, platform, history>>
        BY <1>4 DEF Change, Define, DefineRoot, DefineListRoot, Grow, Shrink, Touch, Changing
    <2>2. RequestFlush("components", stack)
        BY <1>4 DEF Change, Define, DefineRoot, DefineListRoot, Grow, Shrink, Touch, MarkDirty
    <2>3. /\ pending' = [pending EXCEPT !["components"] = TRUE]
          /\ stack' = stack /\ UNCHANGED <<depth, flushing>>
        BY <2>2, <1>3 DEF RequestFlush, Depths
    <2>4. Noticed'
        BY <1>3, <1>4 DEF Opened, Noticed, Change, Define, DefineRoot, DefineListRoot, Grow, Shrink,
           Touch, MarkDirty, Enqueue
    <2>5. Pending("components")' /\ UNCHANGED <<pending["layout"], pending["dispatch"]>>
        BY <2>3 DEF Types, PendingOK, Guards, Pending
    <2>6. Opened' /\ Depths(1, 2, 1)' /\ layouts' = 0
        BY <1>3, <2>1, <2>3, <2>4, <2>5 DEF Opened, Depths, Collected, Sent, Undone, Visited, Nodes, Flushes,
           Pending, dom, history
    <2> QED
        BY <1>3, <2>3, <2>6 DEF Control, AtBody
<1>5. CASE BodyEnd
    <2>1. stack' = EndLayout
        BY <1>3, <1>5, Calling, CallsAreFrames, BasesAreStacks DEF BodyEnd, Guards
    <2>2. Opened' /\ Depths(1, 2, 1)'
        BY <1>3, <1>5 DEF BodyEnd, Opened, Depths, Noticed, Collected, Sent, Undone, Visited, Nodes, Flushes,
           Pending, dom, history, guards, queue, model
    <2> QED
        BY <2>1, <2>2 DEF Control, AtEnd
<1> QED
    BY <1>4, <1>5

\* Nothing of what the batches wait for changes when a call only changes the
\* stack and the depths.
LEMMA EndSteps ==
    ASSUME Types, Control, EndBatch
    PROVE  Control'
<1>1. AtEnd /\ At("end")
    BY TopDecides DEF EndBatch
<1>2. UNCHANGED <<model, queue, dom, pendingDispatches, pending, flushing, gone, platform, history>>
    BY DEF EndBatch
<1>3. Opened'
    BY <1>1, <1>2 DEF AtEnd, Opened, Noticed, Collected, Sent, Undone, Visited, Nodes, Flushes,
       Pending, dom, history, queue, model
<1>4. "dispatch" \in Guards /\ "layout" \in Guards /\ "components" \in Guards
    BY DEF Guards
<1>5. CASE stack = EndLayout /\ Depths(1, 2, 1)
    <2>1. Head(stack) = Call("end", "layout") /\ Caller = EndDispatch
        BY <1>4, <1>5, Calling, CallsAreFrames, BasesAreStacks DEF EndLayout
    <2>2. depth' = [depth EXCEPT !["layout"] = 1] /\ stack' = EndDispatch
        BY <1>5, <2>1 DEF EndBatch, Call, Depths
    <2>3. Depths(1, 1, 1)'
        BY <1>4, <1>5, <2>2 DEF Depths, Types, DepthOK
    <2> QED
        BY <1>3, <2>2, <2>3 DEF Control, AtEnd
<1>6. CASE stack = EndDispatch /\ Depths(1, 1, 1)
    <2>1. Head(stack) = Call("end", "dispatch") /\ Caller = <<>>
        BY <1>4, <1>6, Calling, CallsAreFrames, BasesAreStacks DEF EndDispatch
    <2>2. depth' = depth /\ stack' = Closing("dispatch")
        BY <1>6, <2>1 DEF EndBatch, Call, Depths
    <2>3. stack' = EndLayoutLast
        BY <2>1, <2>2 DEF Closing, HasInner, Inner, EndLayoutLast, CloseDispatch
    <2>4. Depths(1, 1, 1)'
        BY <1>6, <2>2 DEF Depths
    <2> QED
        BY <1>3, <2>3, <2>4 DEF Control, AtEnd
<1>7. CASE stack = EndLayoutLast /\ Depths(1, 1, 1)
    <2>1. Head(stack) = Call("end", "layout") /\ Caller = CloseDispatch
        BY <1>4, <1>7, Calling, CallsAreFrames, BasesAreStacks DEF EndLayoutLast
    <2>2. depth' = depth /\ stack' = Closing("layout")
        BY <1>7, <2>1 DEF EndBatch, Call, Depths
    <2>3. stack' = EndComponents
        BY <2>1, <2>2 DEF Closing, HasInner, Inner, EndComponents, CloseLayout
    <2>4. Depths(1, 1, 1)'
        BY <1>7, <2>2 DEF Depths
    <2> QED
        BY <1>3, <2>3, <2>4 DEF Control, AtEnd
<1>8. CASE stack = EndComponents /\ Depths(1, 1, 1)
    <2>1. Head(stack) = Call("end", "components") /\ Caller = CloseLayout
        BY <1>4, <1>8, Calling, CallsAreFrames, BasesAreStacks DEF EndComponents
    <2>2. depth' = depth /\ stack' = Closing("components")
        BY <1>8, <2>1 DEF EndBatch, Call, Depths
    <2>3. stack' = CloseComponents
        BY <2>1, <2>2 DEF Closing, HasInner, CloseComponents
    <2>4. Depths(1, 1, 1)'
        BY <1>8, <2>2 DEF Depths
    <2> QED
        BY <1>3, <2>3, <2>4 DEF Control, AtClose
<1> QED
    BY <1>1, <1>5, <1>6, <1>7, <1>8 DEF AtEnd

LEMMA CloseSteps ==
    ASSUME Types, Control, CloseBatch
    PROVE  Control'
<1>1. AtClose /\ At("close")
    BY TopDecides DEF CloseBatch
<1>2. UNCHANGED <<model, queue, dom, pendingDispatches, pending, flushing, gone, platform, history>>
    BY DEF CloseBatch
<1>3. "dispatch" \in Guards /\ "layout" \in Guards /\ "components" \in Guards
    BY DEF Guards
<1>4. /\ Noticed' = Noticed /\ Collected' = Collected /\ Sent' = Sent /\ Undone' = Undone
      /\ LaidOut' = LaidOut /\ \A g \in Guards : Flushes(g)' = Flushes(g) /\ Pending(g)' = Pending(g)
    BY <1>2 DEF Noticed, Collected, Sent, Undone, LaidOut, Visited, Nodes, Flushes, Pending, dom, queue, model
<1>5. CASE stack = CloseComponents /\ Opened /\ Depths(1, 1, 1)
    <2>1. Head(stack) = Call("close", "components") /\ Caller = CloseLayout
        BY <1>3, <1>5, Calling, CallsAreFrames, BasesAreStacks DEF CloseComponents
    <2>2. Head(stack).guard = "components"
        BY <2>1 DEF Call
    <2>3. /\ depth' = [depth EXCEPT !["components"] = IF @ = 0 THEN 0 ELSE @ - 1]
          /\ stack' = IF pending["components"] THEN Cons(Call("flush", "components"), Caller) ELSE Caller
        BY <2>2 DEF CloseBatch
    <2>4. /\ depth' = [depth EXCEPT !["components"] = 0]
          /\ stack' = IF pending["components"] THEN Cons(Call("flush", "components"), CloseLayout)
                                        ELSE CloseLayout
        BY <2>1, <2>3, <1>5 DEF Depths
    <2>5. Depths(1, 1, 0)'
        BY <1>3, <1>5, <2>4 DEF Depths, Types, DepthOK
    <2>6. CASE Pending("components")
        <3>1. stack' = Cons(Pass("flush", "components", 0), CloseLayout)
            BY <2>4, <2>6 DEF Pending, Call, Pass
        <3>2. InComponents' /\ Noticed' /\ LaidOut'
            BY <1>2, <1>3, <1>4, <1>5, <2>5, <2>6 DEF InComponents, Opened, LaidOut, history
        <3> QED
            BY <3>1, <3>2 DEF Control, AtFlush
    <2>7. CASE ~Pending("components")
        <3>1. stack' = CloseLayout
            BY <1>3, <2>4, <2>7 DEF Pending, Types, PendingOK
        <3>2. InLayout' /\ ~Flushes("layout")' /\ LaidOut' /\ ~Pending("layout")' /\ OneLayout'
            BY <1>2, <1>3, <1>4, <1>5, <2>5, <2>7
               DEF InLayout, AfterComponents, Opened, LaidOut, OneLayout, history, Types, CountOK
        <3> QED
            BY <2>5, <3>1, <3>2 DEF Control, AtClose
    <2> QED
        BY <2>6, <2>7
<1>6. CASE /\ stack = CloseLayout
           /\ InLayout /\ Depths(1, 1, 0) /\ ~Flushes("layout") /\ LaidOut /\ OneLayout
           /\ Pending("layout") => layouts = 0 \/ overdue
    <2>1. Head(stack) = Call("close", "layout") /\ Caller = CloseDispatch
        BY <1>3, <1>6, Calling, CallsAreFrames, BasesAreStacks DEF CloseLayout
    <2>2. Head(stack).guard = "layout"
        BY <2>1 DEF Call
    <2>3. /\ depth' = [depth EXCEPT !["layout"] = IF @ = 0 THEN 0 ELSE @ - 1]
          /\ stack' = IF pending["layout"] THEN Cons(Call("flush", "layout"), Caller) ELSE Caller
        BY <2>2 DEF CloseBatch
    <2>4. /\ depth' = [depth EXCEPT !["layout"] = 0]
          /\ stack' = IF pending["layout"] THEN Cons(Call("flush", "layout"), CloseDispatch)
                                        ELSE CloseDispatch
        BY <2>1, <2>3, <1>6 DEF Depths
    <2>5. Depths(1, 0, 0)'
        BY <1>3, <1>6, <2>4 DEF Depths, Types, DepthOK
    <2>6. InLayout'
        BY <1>2, <1>3, <1>4, <1>6 DEF InLayout, AfterComponents, history
    <2>7. CASE Pending("layout")
        <3>1. stack' = Cons(Pass("flush", "layout", 0), CloseDispatch)
            BY <2>4, <2>7 DEF Pending, Call, Pass
        <3>2. (layouts = 0 \/ overdue)'
            BY <1>2, <1>6, <2>7 DEF history
        <3> QED
            BY <2>5, <2>6, <3>1, <3>2 DEF Control, AtFlush
    <2>8. CASE ~Pending("layout")
        <3>1. stack' = CloseDispatch
            BY <1>3, <2>4, <2>8 DEF Pending, Types, PendingOK
        <3>2. ~Flushes("layout")' /\ ~Pending("layout")' /\ OneLayout' /\ Undone' = {}
            BY <1>2, <1>3, <1>4, <1>6, <2>8 DEF LaidOut, OneLayout, history
        <3> QED
            BY <2>5, <2>6, <3>1, <3>2 DEF Control, AtClose
    <2> QED
        BY <2>7, <2>8
<1>7. CASE /\ stack = CloseDispatch
           /\ InLayout /\ Depths(1, 0, 0) /\ ~Flushes("layout") /\ ~Pending("layout")
           /\ OneLayout /\ Undone = {}
    <2>1. Head(stack) = Call("close", "dispatch") /\ Caller = <<>>
        BY <1>3, <1>7, Calling, CallsAreFrames, BasesAreStacks DEF CloseDispatch
    <2>2. Head(stack).guard = "dispatch"
        BY <2>1 DEF Call
    <2>3. /\ depth' = [depth EXCEPT !["dispatch"] = IF @ = 0 THEN 0 ELSE @ - 1]
          /\ stack' = IF pending["dispatch"] THEN Cons(Call("flush", "dispatch"), Caller) ELSE Caller
        BY <2>2 DEF CloseBatch
    <2>4. /\ depth' = [depth EXCEPT !["dispatch"] = 0]
          /\ stack' = IF pending["dispatch"] THEN Cons(Call("flush", "dispatch"), <<>>)
                                        ELSE <<>>
        BY <2>1, <2>3, <1>7 DEF Depths
    <2>5. Depths(0, 0, 0)'
        BY <1>3, <1>7, <2>4 DEF Depths, Types, DepthOK
    <2>6. /\ AfterComponents' /\ ~Pending("layout")' /\ Undone' = {} /\ ~gone' /\ (bursts = 0)'
          /\ OneLayout' /\ \A g \in Guards : ~Flushes(g)'
        BY <1>2, <1>3, <1>4, <1>7 DEF InLayout, AfterComponents, OneLayout, history, Guards
    <2>7. CASE Pending("dispatch")
        <3>1. stack' = Cons(Pass("flush", "dispatch", 0), <<>>)
            BY <2>4, <2>7 DEF Pending, Call, Pass
        <3>2. InDispatch(<<>>)'
            BY <1>3, <2>5, <2>6 DEF InDispatch
        <3> QED
            BY <2>6, <3>1, <3>2, BasesAreStacks DEF Control, AtFlush
    <2>8. CASE ~Pending("dispatch")
        <3>1. stack' = <<>>
            BY <1>3, <2>4, <2>8 DEF Pending, Types, PendingOK
        <3>2. ~Pending("dispatch")' /\ pendingDispatches' = <<>>
            BY <1>2, <1>3, <1>4, <1>7, <2>8 DEF InLayout, Sent
        <3> QED
            BY <2>5, <2>6, <3>1, <3>2 DEF Control, AtRest
    <2> QED
        BY <2>7, <2>8
<1> QED
    BY <1>1, <1>5, <1>6, <1>7 DEF AtClose

LEMMA FlushSteps ==
    ASSUME Types, Control, Flush
    PROVE  Control'
<1>1. AtFlush /\ At("flush")
    BY TopDecides DEF Flush
<1>2. UNCHANGED <<model, queue, dom, pendingDispatches, depth, gone, platform, history>>
    BY DEF Flush
<1>3. "dispatch" \in Guards /\ "layout" \in Guards /\ "components" \in Guards
    BY DEF Guards
<1>4. Noticed' = Noticed /\ Undone' = Undone
    BY <1>2 DEF Noticed, Undone, Visited, Nodes, dom, queue, model
<1>5. ASSUME NEW n \in Nat, NEW g \in Guards, NEW s \in Seq(Frames),
             stack = Cons(Pass("flush", g, n), s)
      PROVE  /\ stack' = Cons(Call(Callback(g), g), Cons(Pass("flushed", g, n), s))
             /\ ~Pending(g)' /\ Flushes(g)'
             /\ \A h \in Guards \ {g} : Pending(h)' = Pending(h) /\ Flushes(h)' = Flushes(h)
    <2>1. Pass("flush", g, n) \in Frames
        BY CallsAreFrames
    <2>2. Head(stack) = Pass("flush", g, n) /\ Caller = s
        BY <1>5, <2>1, Calling
    <2>3. [Pass("flush", g, n) EXCEPT !.at = "flushed"] = Pass("flushed", g, n)
        BY DEF Pass
    <2>4. /\ pending' = [pending EXCEPT ![g] = FALSE] /\ flushing' = [flushing EXCEPT ![g] = TRUE]
          /\ stack' = Cons(Call(Callback(g), g), Cons(Pass("flushed", g, n), s))
        BY <2>2, <2>3 DEF Flush, Pass
    <2> QED
        BY <2>4 DEF Types, PendingOK, Pending, Flushes
<1>6. ASSUME NEW n \in Nat, stack = Cons(Pass("flush", "components", n), CloseLayout),
             InComponents, Noticed, LaidOut
      PROVE  Control'
    <2>1. /\ stack' = Cons(Call("collect", "components"),
                           Cons(Pass("flushed", "components", n), CloseLayout))
          /\ ~Pending("components")' /\ Flushes("components")'
          /\ \A h \in Guards \ {"components"} : Pending(h)' = Pending(h) /\ Flushes(h)' = Flushes(h)
        BY <1>3, <1>5, <1>6, BasesAreStacks DEF Callback
    <2>2. InPass' /\ Noticed' /\ LaidOut'
        BY <1>2, <1>3, <1>4, <1>6, <2>1 DEF InPass, InComponents, LaidOut, Depths, Sent, history, Guards
    <2> QED
        BY <2>1, <2>2 DEF Control, AtCollect
<1>7. ASSUME NEW n \in Nat, stack = Cons(Pass("flush", "layout", n), CloseDispatch),
             InLayout, Depths(1, 0, 0), layouts = 0 \/ overdue
      PROVE  Control'
    <2>1. /\ stack' = Cons(Call("layout", "layout"),
                           Cons(Pass("flushed", "layout", n), CloseDispatch))
          /\ ~Pending("layout")' /\ Flushes("layout")'
          /\ \A h \in Guards \ {"layout"} : Pending(h)' = Pending(h) /\ Flushes(h)' = Flushes(h)
        BY <1>3, <1>5, <1>7, BasesAreStacks DEF Callback
    <2>2. InLayout' /\ Depths(1, 0, 0)' /\ (layouts = 0 \/ overdue)'
        BY <1>2, <1>3, <1>4, <1>7, <2>1
           DEF InLayout, AfterComponents, Collected, Depths, Sent, history, Guards, queue
    <2> QED
        BY <2>1, <2>2 DEF Control, AtLayout
<1>8. ASSUME NEW n \in Nat, NEW rest \in Seq(Frames),
             stack = Cons(Pass("flush", "dispatch", n), rest), InDispatch(rest), gone \/ bursts = 0
      PROVE  Control'
    <2>1. /\ stack' = Cons(Call("take", "dispatch"), Cons(Pass("flushed", "dispatch", n), rest))
          /\ ~Pending("dispatch")' /\ Flushes("dispatch")'
          /\ \A h \in Guards \ {"dispatch"} : Pending(h)' = Pending(h) /\ Flushes(h)' = Flushes(h)
        BY <1>3, <1>5, <1>8 DEF Callback
    <2>2. InDispatch(rest)' /\ (gone \/ bursts = 0)'
        BY <1>2, <1>3, <1>4, <1>8, <2>1
           DEF InDispatch, AfterComponents, Collected, OneLayout, Depths, history, Guards, queue
    <2> QED
        BY <2>1, <2>2 DEF Control, AtTake
<1> QED
    BY <1>1, <1>6, <1>7, <1>8 DEF AtFlush

LEMMA FlushedSteps ==
    ASSUME Types, Control, Flushed
    PROVE  Control'
<1>1. AtFlushed /\ At("flushed")
    BY TopDecides DEF Flushed
<1>2. UNCHANGED <<model, queue, dom, pendingDispatches, depth, pending, gone, platform, overdue,
                  layouts, bursts>>
    BY DEF Flushed
<1>3. "dispatch" \in Guards /\ "layout" \in Guards /\ "components" \in Guards
    BY DEF Guards
<1>4. /\ Noticed' = Noticed /\ Undone' = Undone /\ Collected' = Collected /\ Sent' = Sent
      /\ LaidOut' = LaidOut /\ \A g \in Guards : Pending(g)' = Pending(g)
    BY <1>2 DEF Noticed, Undone, Collected, Sent, LaidOut, Visited, Nodes, Pending, dom, queue, model
\* A flush goes on with another pass or ends.
<1>5. ASSUME NEW n \in Nat, NEW g \in Guards, NEW s \in Seq(Frames),
             stack = Cons(Pass("flushed", g, n), s)
      PROVE  \/ /\ Pending(g) /\ stack' = Cons(Pass("flush", g, n + 1), s)
                /\ UNCHANGED <<flushing, capped>>
             \/ /\ stack' = s /\ ~Flushes(g)'
                /\ \A h \in Guards \ {g} : Flushes(h)' = Flushes(h)
                /\ (capped \/ Pending(g)) => capped'
    <2>1. Pass("flushed", g, n) \in Frames
        BY CallsAreFrames
    <2>2. Head(stack) = Pass("flushed", g, n) /\ Caller = s
        BY <1>5, <2>1, Calling
    <2>3. /\ Pass("flushed", g, n).guard = g /\ Pass("flushed", g, n).pass = n
          /\ [Call("flush", g) EXCEPT !.pass = n + 1] = Pass("flush", g, n + 1)
        BY DEF Pass, Call
    <2>4. \/ /\ pending[g] /\ stack' = Cons(Pass("flush", g, n + 1), s)
             /\ UNCHANGED <<flushing, capped>>
          \/ /\ stack' = s /\ flushing' = [flushing EXCEPT ![g] = FALSE]
             /\ capped' = (capped \/ pending[g])
        BY <2>2, <2>3 DEF Flushed
    <2> QED
        BY <2>4 DEF Types, PendingOK, CountOK, Pending, Flushes
<1>6. ASSUME NEW n \in Nat, stack = Cons(Pass("flushed", "components", n), CloseLayout),
             InPass, Noticed, Collected, LaidOut
      PROVE  Control'
    <2>1. \/ /\ stack' = Cons(Pass("flush", "components", n + 1), CloseLayout)
             /\ UNCHANGED <<flushing, capped>>
          \/ /\ stack' = CloseLayout /\ ~Flushes("components")'
             /\ \A h \in Guards \ {"components"} : Flushes(h)' = Flushes(h)
             /\ (capped \/ Pending("components")) => capped'
        BY <1>3, <1>5, <1>6, BasesAreStacks
    <2>2. CASE /\ stack' = Cons(Pass("flush", "components", n + 1), CloseLayout)
               /\ UNCHANGED <<flushing, capped>>
        <3>1. InComponents' /\ Noticed' /\ LaidOut'
            BY <1>2, <1>3, <1>4, <1>6, <2>2 DEF InPass, InComponents, Depths, Flushes
        <3>2. n + 1 \in Nat
            OBVIOUS
        <3> QED
            BY <2>2, <3>1, <3>2 DEF Control, AtFlush
    <2>3. CASE /\ stack' = CloseLayout /\ ~Flushes("components")'
               /\ \A h \in Guards \ {"components"} : Flushes(h)' = Flushes(h)
               /\ (capped \/ Pending("components")) => capped'
        <3>1. /\ InLayout' /\ Depths(1, 1, 0)' /\ ~Flushes("layout")' /\ LaidOut' /\ OneLayout'
              /\ (layouts = 0 \/ overdue)'
            BY <1>2, <1>3, <1>4, <1>6, <2>3
               DEF InPass, InComponents, InLayout, AfterComponents, OneLayout, Depths, Guards, Types,
                   CountOK
        <3> QED
            BY <2>3, <3>1 DEF Control, AtClose
    <2> QED
        BY <2>1, <2>2, <2>3
<1>7. ASSUME NEW n \in Nat, stack = Cons(Pass("flushed", "layout", n), CloseDispatch),
             InLayout, Depths(1, 0, 0), ~Pending("layout"), OneLayout, Undone = {}
      PROVE  Control'
    <2>1. /\ stack' = CloseDispatch /\ ~Flushes("layout")'
          /\ \A h \in Guards \ {"layout"} : Flushes(h)' = Flushes(h)
          /\ capped => capped'
        BY <1>3, <1>5, <1>7, BasesAreStacks
    <2>2. /\ InLayout' /\ Depths(1, 0, 0)' /\ ~Pending("layout")' /\ OneLayout' /\ Undone' = {}
        BY <1>2, <1>3, <1>4, <1>7, <2>1 DEF InLayout, AfterComponents, OneLayout, Depths, Guards
    <2> QED
        BY <2>1, <2>2 DEF Control, AtClose
<1>8. ASSUME NEW n \in Nat, NEW rest \in Seq(Frames),
             stack = Cons(Pass("flushed", "dispatch", n), rest),
             InDispatch(rest), ~Pending("dispatch"), pendingDispatches = <<>>, gone \/ bursts <= 1
      PROVE  Control'
    <2>1. /\ stack' = rest /\ ~Flushes("dispatch")'
          /\ \A h \in Guards \ {"dispatch"} : Flushes(h)' = Flushes(h)
          /\ capped => capped'
        BY <1>3, <1>5, <1>8
    <2>2. /\ AfterComponents' /\ ~Pending("layout")' /\ Undone' = {} /\ Depths(0, 0, 0)'
          /\ \A g \in Guards : ~Flushes(g)'
          /\ ~Pending("dispatch")' /\ pendingDispatches' = <<>>
        BY <1>2, <1>3, <1>4, <1>8, <2>1 DEF InDispatch, AfterComponents, Depths, Guards
    <2>3. CASE gone
        <3>1. PICK m \in Seq(Messages) : stack' = Cons(CallOn("emit", m), <<>>)
            BY <1>8, <2>1, <2>3 DEF InDispatch
        <3> QED
            BY <1>2, <2>2, <2>3, <3>1 DEF Control, AtEmit
    <2>4. CASE ~gone
        BY <1>2, <1>8, <2>1, <2>2, <2>4 DEF InDispatch, OneLayout, Control, AtRest
    <2> QED
        BY <2>3, <2>4
<1> QED
    BY <1>1, <1>6, <1>7, <1>8 DEF AtFlushed

\* An enumeration of a set of ids.
LEMMA Enumerations ==
    ASSUME NEW S \in SUBSET Ids, NEW s \in SetToSeqs(S)
    PROVE  /\ s \in Seq(Ids) /\ s \in Seq(S) /\ DOMAIN s = 1..Len(s)
           /\ \A i, j \in 1..Len(s) : s[i] = s[j] => i = j
           /\ \A c \in S : \E i \in 1..Len(s) : s[i] = c
<1>1. IsFiniteSet(S) /\ Cardinality(S) \in Nat
    BY FS_Subset, FS_CardinalityType, PipelineAssumption
<1> DEFINE D == 1..Cardinality(S)
<1>2. s \in [D -> S] /\ \A i, j \in D : i # j => s[i] # s[j]
    BY DEF SetToSeqs
<1>3. s \in Seq(S) /\ Len(s) = Cardinality(S)
    BY <1>1, <1>2
<1>4. s \in Seq(Ids)
    BY <1>3, SeqMonotonic
<1>5. IsFiniteSet(D) /\ Cardinality(D) = Cardinality(S)
    BY <1>1, FS_Interval
<1>6. s \in Injection(D, S)
    BY <1>2 DEF Injection, IsInjective
<1>7. s \in Surjection(D, S)
    BY <1>1, <1>5, <1>6, FS_Injection
<1>8. \A c \in S : \E i \in D : s[i] = c
    BY <1>7 DEF Surjection
<1> QED
    BY <1>2, <1>3, <1>4, <1>8

\* The members of a sequence of ids that enumerates a set, or that is another
\* one with that behind it.
LEMMA ListOf ==
    ASSUME NEW S \in SUBSET Ids, NEW s \in SetToSeqs(S)
    PROVE  s \in Seq(Ids) /\ ToSet(s) = S
<1>1. /\ s \in Seq(Ids) /\ s \in Seq(S) /\ DOMAIN s = 1..Len(s)
      /\ \A c \in S : \E i \in 1..Len(s) : s[i] = c
    BY Enumerations
<1>2. \A i \in 1..Len(s) : s[i] \in S
    BY <1>1
<1> QED
    BY <1>1, <1>2 DEF ToSet

LEMMA MembersOfBoth ==
    ASSUME NEW s \in Seq(Ids), NEW t \in Seq(Ids)
    PROVE  s \o t \in Seq(Ids) /\ ToSet(s \o t) = ToSet(s) \cup ToSet(t)
<1>1. /\ s \o t \in Seq(Ids) /\ Len(s \o t) = Len(s) + Len(t)
      /\ \A i \in 1..Len(s) + Len(t) : (s \o t)[i] = IF i <= Len(s) THEN s[i] ELSE t[i - Len(s)]
    BY ConcatProperties
<1>2. /\ Len(s) \in Nat /\ Len(t) \in Nat
      /\ DOMAIN s = 1..Len(s) /\ DOMAIN t = 1..Len(t) /\ DOMAIN (s \o t) = 1..Len(s) + Len(t)
    BY <1>1
<1>3. PICK u \in Seq(Ids) : u = s \o t
    BY <1>1
<1>4. \A i \in 1..Len(s) : i \in 1..Len(s) + Len(t) /\ u[i] = s[i]
    BY <1>1, <1>2, <1>3
<1>5. ASSUME NEW i \in 1..Len(t)
      PROVE  \E j \in 1..Len(s) + Len(t) : u[j] = t[i]
    <2>1. /\ Len(s) + i \in 1..Len(s) + Len(t) /\ ~(Len(s) + i <= Len(s))
          /\ (Len(s) + i) - Len(s) = i
        BY <1>2
    <2>2. u[Len(s) + i] = t[i]
        BY <1>1, <1>3, <2>1
    <2> QED
        BY <2>1, <2>2
<1>6. ASSUME NEW i \in 1..Len(s) + Len(t)
      PROVE  u[i] \in ToSet(s) \cup ToSet(t)
    <2>1. CASE i <= Len(s)
        <3>1. i \in 1..Len(s) /\ u[i] = s[i]
            BY <1>2, <1>4, <2>1
        <3> QED
            BY <1>2, <3>1 DEF ToSet
    <2>2. CASE ~(i <= Len(s))
        <3>1. i - Len(s) \in 1..Len(t) /\ u[i] = t[i - Len(s)]
            BY <1>1, <1>2, <1>3, <2>2
        <3> QED
            BY <1>2, <3>1 DEF ToSet
    <2> QED
        BY <2>1, <2>2
<1>7. ASSUME NEW c \in ToSet(s) \cup ToSet(t)
      PROVE  c \in ToSet(u)
    <2>1. CASE c \in ToSet(s)
        BY <1>2, <1>3, <1>4, <2>1 DEF ToSet
    <2>2. CASE c \in ToSet(t)
        <3>1. PICK i \in 1..Len(t) : t[i] = c
            BY <1>2, <2>2 DEF ToSet
        <3>2. PICK j \in 1..Len(s) + Len(t) : u[j] = c
            BY <1>5, <3>1
        <3> QED
            BY <1>2, <1>3, <3>2 DEF ToSet
    <2> QED
        BY <1>7, <2>1, <2>2
<1>8. \A c \in ToSet(u) : c \in ToSet(s) \cup ToSet(t)
    <2>1. \A c \in ToSet(u) : \E i \in 1..Len(s) + Len(t) : u[i] = c
        BY <1>2, <1>3 DEF ToSet
    <2> QED
        BY <1>6, <2>1
<1>9. ToSet(u) = ToSet(s) \cup ToSet(t)
    BY ONLY <1>7, <1>8
<1> QED
    BY <1>1, <1>3, <1>9

\* The children in the tree and those listed are ids; those that stay are both.
LEMMA Tree ==
    ASSUME Types
    PROVE  /\ Nodes \subseteq Ids /\ Listed \subseteq Ids
           /\ Stay \subseteq Nodes \cap Listed
<1>1. nodes \in Seq(Ids) /\ listed \in Seq(Ids)
    BY DEF Types, DomOK
<1>2. Nodes \subseteq Ids /\ Listed \subseteq Ids
    BY <1>1 DEF Nodes, Listed, ToSet
<1>3. DOMAIN listed = 1..Len(listed) /\ \A n \in DOMAIN listed : n \in 1..n /\ n \in Nat
    BY <1>1
<1>4. Stay \subseteq Nodes
    BY <1>3 DEF Stay
<1>5. Stay \subseteq Listed
    BY DEF Stay, Listed, ToSet
<1> QED
    BY <1>2, <1>4, <1>5

\* What is left of a sequence of ids after its first one.
LEMMA Rest ==
    ASSUME NEW s \in Seq(Ids), s # <<>>
    PROVE  /\ Tail(s) \in Seq(Ids) /\ Head(s) \in Ids
           /\ \A c : (\E i \in DOMAIN s : s[i] = c) /\ c # Head(s)
                        => \E i \in DOMAIN Tail(s) : Tail(s)[i] = c
<1>1. /\ Tail(s) \in Seq(Ids) /\ Len(Tail(s)) = Len(s) - 1 /\ Head(s) = s[1]
      /\ \A i \in 1..Len(s) - 1 : Tail(s)[i] = s[i + 1]
      /\ DOMAIN s = 1..Len(s) /\ DOMAIN Tail(s) = 1..Len(s) - 1 /\ Len(s) \in Nat
      /\ Head(s) \in Ids
    OBVIOUS
<1>2. ASSUME NEW c, NEW i \in DOMAIN s, s[i] = c, c # Head(s)
      PROVE  \E j \in DOMAIN Tail(s) : Tail(s)[j] = c
    <2>1. i - 1 \in 1..Len(s) - 1 /\ (i - 1) + 1 = i
        BY <1>1, <1>2
    <2>2. Tail(s)[i - 1] = c
        BY <1>1, <1>2, <2>1
    <2> QED
        BY <1>1, <2>1, <2>2
<1> QED
    BY <1>1, <1>2

LEMMA CollectSteps ==
    ASSUME Types, Control, CollectDirty
    PROVE  Control'
<1>1. AtCollect
    BY TopDecides DEF CollectDirty
<1>2. PICK n \in Nat :
        /\ stack = Cons(Call("collect", "components"),
                        Cons(Pass("flushed", "components", n), CloseLayout))
        /\ InPass /\ Noticed /\ LaidOut /\ ~Pending("components")
    BY <1>1 DEF AtCollect
<1>3. Caller = Cons(Pass("flushed", "components", n), CloseLayout)
    BY <1>2, Calling, CallsAreFrames, FlushesAreStacks DEF Guards
<1>4. PICK todo \in Seq(Ids) : todo = dirtyOrder
    BY DEF Types, QueueOK
<1>5. stack' = InComponentsStack(n, todo) /\ dirtyOrder' = <<>> /\ dirtyIndex' = {}
    BY <1>3, <1>4 DEF CollectDirty, InComponentsStack
<1>6. UNCHANGED <<model, dom, pendingDispatches, guards, gone, platform, history>>
    BY DEF CollectDirty
<1>7. NoticedBut(todo)'
    BY <1>2, <1>4, <1>6 DEF NoticedBut, Noticed, model, Types, QueueOK
<1>8. InPass' /\ Collected' /\ LaidOut'
    BY <1>2, <1>5, <1>6 DEF InPass, InComponents, Collected, LaidOut, Depths, Sent, Undone, Visited, Nodes,
       Flushes, Pending, dom, guards, history
<1> QED
    BY <1>5, <1>7, <1>8 DEF Control, AtComponents

\* The frame on top without the first of what it has to do.
LEMMA NextTodos ==
    ASSUME NEW s \in Seq(Frames)
    PROVE  /\ \A todo \in Seq(Ids) :
                 stack = Cons(CallOn("components", todo), s)
                    => NextTodo = Cons(CallOn("components", Tail(todo)), s)
           /\ \A m \in Seq(Messages) :
                 stack = Cons(CallOn("emit", m), s)
                    => NextTodo = Cons(CallOn("emit", Tail(m)), s)
<1>1. ASSUME NEW todo \in Seq(Ids), stack = Cons(CallOn("components", todo), s)
      PROVE  NextTodo = Cons(CallOn("components", Tail(todo)), s)
    <2>1. Head(stack) = CallOn("components", todo) /\ Caller = s
        BY <1>1, Calling, CallsAreFrames
    <2>2. NextTodo = Cons([CallOn("components", todo) EXCEPT
                              !.todo = Tail(CallOn("components", todo).todo)], s)
        BY <2>1 DEF NextTodo
    <2>3. CallOn("components", todo).todo = todo
        BY DEF CallOn
    <2>4. \A t : [CallOn("components", todo) EXCEPT !.todo = t] = CallOn("components", t)
        BY DEF CallOn
    <2> QED
        BY <2>2, <2>3, <2>4
<1>2. ASSUME NEW m \in Seq(Messages), stack = Cons(CallOn("emit", m), s)
      PROVE  NextTodo = Cons(CallOn("emit", Tail(m)), s)
    <2>1. Head(stack) = CallOn("emit", m) /\ Caller = s
        BY <1>2, Calling, CallsAreFrames
    <2>2. NextTodo = Cons([CallOn("emit", m) EXCEPT
                              !.todo = Tail(CallOn("emit", m).todo)], s)
        BY <2>1 DEF NextTodo
    <2>3. CallOn("emit", m).todo = m
        BY DEF CallOn
    <2>4. \A t : [CallOn("emit", m) EXCEPT !.todo = t] = CallOn("emit", t)
        BY DEF CallOn
    <2> QED
        BY <2>2, <2>3, <2>4
<1> QED
    BY <1>1, <1>2

LEMMA SkipSteps ==
    ASSUME Types, Control, SkipComponent
    PROVE  Control'
<1>1. AtComponents
    BY TopDecides DEF SkipComponent
<1>2. PICK n \in Nat, todo \in Seq(Ids) :
        /\ stack = InComponentsStack(n, todo)
        /\ InPass /\ Collected /\ NoticedBut(todo) /\ LaidOut
    BY <1>1 DEF AtComponents
<1>3. Head(stack) = CallOn("components", todo)
    BY <1>2, Calling, CallsAreFrames, FlushesAreStacks DEF InComponentsStack
<1>4. todo # <<>> /\ Head(todo) \notin components \cap dirty
    BY <1>3 DEF SkipComponent, CallOn
<1>5. stack' = InComponentsStack(n, Tail(todo))
    BY <1>2, NextTodos, FlushesAreStacks DEF InComponentsStack, SkipComponent
<1>6. UNCHANGED <<model, queue, dom, pendingDispatches, guards, gone, platform, history>>
    BY DEF SkipComponent
<1>7. InPass' /\ Collected' /\ LaidOut'
    BY <1>2, <1>6 DEF InPass, InComponents, Collected, LaidOut, Depths, Sent, Undone, Visited, Nodes,
       Flushes, Pending, queue, dom, guards, history
<1>8. NoticedBut(Tail(todo))'
    <2>1. \A c \in dirty : c # Head(todo)
        BY <1>4 DEF Types, QueueOK
    <2> QED
        BY <1>2, <1>4, <1>6, <2>1, Rest DEF NoticedBut, model, queue
<1> QED
    BY <1>4, <1>5, <1>7, <1>8, Rest DEF Control, AtComponents

\* The messages made of an enumeration of ids.
LEMMA MessagesOf ==
    ASSUME Types, NEW s \in Seq(Ids)
    PROVE  /\ Removals(s) \in Seq(Messages) /\ Len(Removals(s)) = Len(s)
           /\ \A i \in 1..Len(s) : Removals(s)[i] = Message("remove", s[i], 0)
           /\ Changes(s) \in Seq(Messages) /\ Len(Changes(s)) = Len(s)
           /\ \A i \in 1..Len(s) :
                Changes(s)[i] = Message(IF s[i] \in shown THEN "update" ELSE "add", s[i], snap[s[i]])
<1>1. Len(s) \in Nat /\ DOMAIN s = 1..Len(s) /\ \A i \in 1..Len(s) : s[i] \in Ids
    OBVIOUS
<1>2. \A i \in 1..Len(s) : Message("remove", s[i], 0) \in Messages
    BY <1>1 DEF Message, Messages, Kinds
<1>3. \A i \in 1..Len(s) :
         Message(IF s[i] \in shown THEN "update" ELSE "add", s[i], snap[s[i]]) \in Messages
    BY <1>1 DEF Message, Messages, Kinds, Types, DomOK
<1>4. Removals(s) = [i \in 1..Len(s) |-> Message("remove", s[i], 0)]
    BY <1>1 DEF Removals
<1>5. Changes(s) = [i \in 1..Len(s) |->
                      Message(IF s[i] \in shown THEN "update" ELSE "add", s[i], snap[s[i]])]
    BY <1>1 DEF Changes
<1>6. Removals(s) \in [1..Len(s) -> Messages] /\ Changes(s) \in [1..Len(s) -> Messages]
    BY <1>2, <1>3, <1>4, <1>5
<1>7. /\ Removals(s) \in Seq(Messages) /\ Len(Removals(s)) = Len(s)
      /\ Changes(s) \in Seq(Messages) /\ Len(Changes(s)) = Len(s)
    BY <1>1, <1>6
<1> QED
    BY <1>1, <1>4, <1>5, <1>7

\* What flushing a component does to the stack and to the dirty components.
LEMMA FlushingOne ==
    ASSUME Types, Control, FlushComponent
    PROVE  \E n \in Nat, todo \in Seq(Ids) :
             /\ stack = InComponentsStack(n, todo)
             /\ InPass /\ Collected /\ NoticedBut(todo)
             /\ todo # <<>> /\ Head(todo) \in components \cap dirty
             /\ Rebuild(Head(todo)) /\ UpdateNode(Head(todo))
             /\ \E removed \in InOrder(IF Head(todo) = Root THEN shown \cap Destroyed
                                                               ELSE {}, nodes) :
                   stack' = Cons(CallOn("emit", Removals(removed)), RequestStack(n, Tail(todo)))
<1>1. AtComponents
    BY TopDecides DEF FlushComponent
<1>2. PICK n \in Nat, todo \in Seq(Ids) :
        /\ stack = InComponentsStack(n, todo)
        /\ InPass /\ Collected /\ NoticedBut(todo) /\ LaidOut
    BY <1>1 DEF AtComponents
<1>3. Head(stack) = CallOn("components", todo)
    BY <1>2, Calling, CallsAreFrames, FlushesAreStacks DEF InComponentsStack
<1>4. Head(stack).todo = todo
    BY <1>3 DEF CallOn
<1>5. /\ todo # <<>> /\ Head(todo) \in components \cap dirty
      /\ Rebuild(Head(todo)) /\ UpdateNode(Head(todo))
    BY <1>4 DEF FlushComponent
<1>6. NextTodo = InComponentsStack(n, Tail(todo))
    BY <1>2, NextTodos, FlushesAreStacks DEF InComponentsStack
<1>7. \E removed \in InOrder(IF Head(todo) = Root THEN shown \cap Destroyed ELSE {}, nodes) :
         stack' = Cons(CallOn("emit", Removals(removed)), RequestStack(n, Tail(todo)))
    BY <1>5, <1>6 DEF UpdateNode, RequestStack
<1> QED
    BY <1>2, <1>5, <1>7

LEMMA ComponentSteps ==
    ASSUME Types, Control, FlushComponent
    PROVE  Control'
<1>1. PICK n \in Nat, todo \in Seq(Ids) :
        /\ stack = InComponentsStack(n, todo)
        /\ InPass /\ Collected /\ NoticedBut(todo)
        /\ todo # <<>> /\ Head(todo) \in components \cap dirty
        /\ Rebuild(Head(todo)) /\ UpdateNode(Head(todo))
        /\ \E removed \in InOrder(IF Head(todo) = Root THEN shown \cap Destroyed ELSE {}, nodes) :
              stack' = Cons(CallOn("emit", Removals(removed)), RequestStack(n, Tail(todo)))
    BY FlushingOne
<1>2. \E m \in Seq(Messages) : stack' = Cons(CallOn("emit", m), RequestStack(n, Tail(todo)))
    <2>1. (IF Head(todo) = Root THEN shown \cap Destroyed ELSE {}) \in SUBSET Ids
        BY DEF Types, DomOK
    <2>2. PICK removed \in SetToSeqs(IF Head(todo) = Root THEN shown \cap Destroyed ELSE {}) :
             stack' = Cons(CallOn("emit", Removals(removed)), RequestStack(n, Tail(todo)))
        BY <1>1 DEF InOrder
    <2>3. removed \in Seq(Ids)
        BY <2>1, Enumerations
    <2> QED
        BY <2>2, <2>3, MessagesOf
<1>3. /\ UNCHANGED <<components, listed, bound, pendingDispatches, depth, flushing, gone, platform,
                     history>>
    BY DEF FlushComponent
<1>4. /\ UNCHANGED <<queue, pending>> /\ dirty' = dirty \ {Head(todo)}
      \/ /\ pending' = [pending EXCEPT !["components"] = TRUE]
         /\ \E e \in Ids : /\ dirty' = (dirty \ {Head(todo)}) \cup {e}
                           /\ dirtyIndex' = dirtyIndex \cup {} \cup {e}
    BY <1>1 DEF Rebuild, Enqueue, Types, DomOK
<1>5. /\ pending'["dispatch"] = pending["dispatch"] /\ pending'["layout"] = pending["layout"]
    BY <1>4 DEF Types, PendingOK, Guards
<1>6. InPass'
    BY <1>1, <1>3, <1>5 DEF InPass, InComponents, Depths, Sent, Flushes, Pending, history
<1>7. Collected'
    BY <1>1, <1>4 DEF Collected, Pending, Types, PendingOK, Guards, queue
<1>8. NoticedBut(Tail(todo))'
    BY <1>1, <1>4, Rest DEF NoticedBut, queue
<1> QED
    BY <1>1, <1>2, <1>6, <1>7, <1>8, Rest DEF Control, AtEmit

LEMMA RequestSteps ==
    ASSUME Types, Control, RequestLayout
    PROVE  Control'
<1>1. AtRequest
    BY TopDecides DEF RequestLayout
<1>2. PICK n \in Nat, todo \in Seq(Ids) :
        /\ stack = RequestStack(n, todo) /\ InPass /\ Collected /\ NoticedBut(todo)
    BY <1>1 DEF AtRequest
<1>3. Head(stack) = Call("request", "layout") /\ Caller = InComponentsStack(n, todo)
    BY <1>2, Calling, CallsAreFrames, FlushesAreStacks DEF RequestStack, Guards
<1>4. RequestFlush("layout", InComponentsStack(n, todo))
    BY <1>3 DEF RequestLayout, Call
<1>5. /\ pending' = [pending EXCEPT !["layout"] = TRUE]
      /\ stack' = InComponentsStack(n, todo) /\ UNCHANGED <<depth, flushing>>
    BY <1>2, <1>4 DEF RequestFlush, InPass, InComponents, Depths
<1>6. UNCHANGED <<model, queue, dom, pendingDispatches, gone, platform, history>>
    BY DEF RequestLayout
<1>7. /\ Pending("layout")' /\ Pending("components")' = Pending("components")
      /\ Pending("dispatch")' = Pending("dispatch")
    BY <1>5 DEF Pending, Types, PendingOK, Guards
<1>8. InPass' /\ Collected' /\ NoticedBut(todo)' /\ LaidOut'
    BY <1>2, <1>5, <1>6, <1>7 DEF InPass, InComponents, Depths, Sent, Flushes, Collected, NoticedBut,
       LaidOut, history, queue, model
<1> QED
    BY <1>5, <1>8 DEF Control, AtComponents

LEMMA RootFirstEnumerates ==
    ASSUME NEW S \in SUBSET Ids, NEW s \in RootFirst(S)
    PROVE  /\ s \in SetToSeqs(S) /\ s \in Seq(Ids)
           /\ Root \in S => s[1] = Root
BY Enumerations DEF RootFirst

\* The walk of the tree comes to the root first.
LEMMA WalkRootFirst ==
    ASSUME Types, Root \notin Nodes, NEW S \in SUBSET Ids, NEW s \in InOrder(S, Cons(Root, nodes))
    PROVE  s \in RootFirst(S)
<1>1. s \in SetToSeqs(S)
    BY DEF InOrder
<1>2. /\ s \in Seq(Ids) /\ DOMAIN s = 1..Len(s) /\ Len(s) \in Nat
      /\ \A c \in S : \E i \in 1..Len(s) : s[i] = c
    BY <1>1, Enumerations
<1>3. PICK t \in Seq(Ids) : t = Cons(Root, nodes)
    <2>1. <<Root>> \in Seq(Ids) /\ nodes \in Seq(Ids)
        BY DEF Types, DomOK, Ids
    <2>2. <<Root>> \o nodes \in Seq(Ids)
        BY ONLY <2>1, ConcatProperties
    <2> QED
        BY ONLY <2>2 DEF Cons
<1>4. /\ DOMAIN t = 1..1 + Len(nodes) /\ Len(nodes) \in Nat
      /\ \A i \in 1..1 + Len(nodes) : i # 1 => i - 1 \in DOMAIN nodes /\ t[i] = nodes[i - 1]
    BY <1>3 DEF Cons, Types, DomOK
<1>5. \A i, j \in DOMAIN s : i < j =>
         \E k, l \in DOMAIN t : k < l /\ t[k] = s[i] /\ t[l] = s[j]
    BY <1>3 DEF InOrder
<1>6. ASSUME NEW i \in 1..Len(s), s[i] = Root, i # 1
      PROVE  FALSE
    <2>1. 1 \in DOMAIN s /\ i \in DOMAIN s /\ 1 < i
        BY <1>2, <1>6
    <2>2. PICK k \in DOMAIN t, l \in DOMAIN t : k < l /\ t[l] = s[i]
        BY <1>5, <2>1
    <2>3. l \in 1..1 + Len(nodes) /\ l # 1
        BY <1>4, <2>2
    <2>4. l - 1 \in DOMAIN nodes /\ nodes[l - 1] = Root
        BY <1>4, <1>6, <2>2, <2>3
    <2> QED
        BY <2>4 DEF Nodes, ToSet
<1> QED
    BY <1>1, <1>2, <1>6 DEF RootFirst

\* What a layout pass reports, and that nothing is left to lay out after it.
LEMMA LayingOut ==
    ASSUME Types, Layout
    PROVE  /\ Undone' = {}
           /\ \E moved \in SUBSET (Visited \cap shown) :
                \E s \in InOrder((newLayout \cap Visited) \cup (Visited \ shown) \cup moved, Cons(Root, nodes)) :
                   /\ stack' = Cons(CallOn("emit", Changes(s)), Caller)
                   /\ s \in Seq(Ids) /\ Changes(s) \in Seq(Messages)
<1>1. Undone' = {}
    BY DEF Layout, Undone, Visited, Nodes
<1>2. PICK moved \in SUBSET (Visited \cap shown) :
        \E s \in InOrder((newLayout \cap Visited) \cup (Visited \ shown) \cup moved, Cons(Root, nodes)) :
           stack' = Cons(CallOn("emit", Changes(s)), Caller)
    BY DEF Layout
<1>3. (newLayout \cap Visited) \cup (Visited \ shown) \cup moved \in SUBSET Ids
    BY Tree DEF Visited, Types, DomOK, Ids
<1>4. PICK s \in InOrder((newLayout \cap Visited) \cup (Visited \ shown) \cup moved, Cons(Root, nodes)) :
        stack' = Cons(CallOn("emit", Changes(s)), Caller)
    BY <1>2
<1>5. s \in Seq(Ids)
    BY <1>3, <1>4, Enumerations DEF InOrder
<1> QED
    BY <1>1, <1>4, <1>5, MessagesOf

LEMMA LayoutSteps ==
    ASSUME Types, Control, Layout
    PROVE  Control'
<1>1. AtLayout
    BY TopDecides DEF Layout
<1>2. Undone' = {} /\ \E m \in Seq(Messages) : stack' = Cons(CallOn("emit", m), Caller)
    BY LayingOut
<1>3. /\ layouts' = layouts + 1
      /\ UNCHANGED <<model, queue, nodes, snap, orphan, lost, stripped, pendingDispatches, guards, gone,
                     platform, capped, overdue, bursts>>
    BY DEF Layout
<1>4. /\ Noticed' = Noticed /\ Collected' = Collected /\ Sent' = Sent
      /\ \A g \in Guards : Flushes(g)' = Flushes(g) /\ Pending(g)' = Pending(g)
    BY <1>3 DEF Noticed, Collected, Sent, Flushes, Pending, queue, model, guards
<1>5. "dispatch" \in Guards /\ "layout" \in Guards /\ "components" \in Guards
    BY DEF Guards
<1>6. CASE /\ stack = Cons(Call("layout", "layout"), EndLayout)
           /\ Opened /\ Depths(1, 2, 1) /\ layouts = 0 /\ (Pending("components") => overdue)
    <2>1. Caller = EndLayout
        BY <1>5, <1>6, Calling, CallsAreFrames, BasesAreStacks
    <2>2. Opened' /\ Depths(1, 2, 1)'
        BY <1>2, <1>3, <1>4, <1>5, <1>6 DEF Opened, Depths, guards
    <2> QED
        BY <1>2, <2>1, <2>2 DEF Control, AtEmit
<1>7. ASSUME NEW n \in Nat,
             stack = Cons(Call("layout", "layout"), Cons(Pass("flushed", "layout", n), CloseDispatch)),
             InLayout, Depths(1, 0, 0), Flushes("layout"), ~Pending("layout"), layouts = 0 \/ overdue
      PROVE  Control'
    <2>1. Caller = Cons(Pass("flushed", "layout", n), CloseDispatch)
        BY <1>5, <1>7, Calling, CallsAreFrames, FlushesAreStacks
    <2>2. /\ InLayout' /\ Depths(1, 0, 0)' /\ Flushes("layout")' /\ ~Pending("layout")' /\ OneLayout'
        BY <1>3, <1>4, <1>5, <1>7 DEF InLayout, AfterComponents, Depths, OneLayout, guards
    <2> QED
        BY <1>2, <2>1, <2>2 DEF Control, AtEmit
<1> QED
    BY <1>1, <1>6, <1>7 DEF AtLayout

LEMMA RestOfMessages ==
    ASSUME NEW m \in Seq(Messages), m # <<>>
    PROVE  Head(m) \in Messages /\ Tail(m) \in Seq(Messages)
OBVIOUS

\* Emitting in a batch, or in no batch at all.
LEMMA Emitting ==
    ASSUME Types, Emit, NEW m \in Seq(Messages), NEW s \in Seq(Frames),
           stack = Cons(CallOn("emit", m), s)
    PROVE  /\ m # <<>> /\ Tail(m) \in Seq(Messages)
           /\ UNCHANGED <<model, queue, dom, gone, platform, history, depth, flushing>>
           /\ pendingDispatches' = Append(pendingDispatches, Head(m))
           /\ depth["dispatch"] > 0 =>
                 /\ stack' = Cons(CallOn("emit", Tail(m)), s)
                 /\ pending' = [pending EXCEPT !["dispatch"] = TRUE]
           /\ depth["dispatch"] = 0 /\ ~Flushes("dispatch") =>
                 /\ stack' = Cons(Pass("flush", "dispatch", 0), Cons(CallOn("emit", Tail(m)), s))
                 /\ UNCHANGED pending
<1>1. Head(stack) = CallOn("emit", m) /\ NextTodo = Cons(CallOn("emit", Tail(m)), s)
    BY Calling, NextTodos, CallsAreFrames
<1>2. Head(stack).todo = m
    BY <1>1 DEF CallOn
<1>3. m # <<>> /\ pendingDispatches' = Append(pendingDispatches, Head(m))
    BY <1>2 DEF Emit
<1>4. RequestFlush("dispatch", Cons(CallOn("emit", Tail(m)), s))
    BY <1>1 DEF Emit
<1>5. flushing["dispatch"] = Flushes("dispatch")
    BY DEF Flushes, Types, PendingOK, Guards
<1>6. /\ depth["dispatch"] > 0 =>
            /\ stack' = Cons(CallOn("emit", Tail(m)), s)
            /\ pending' = [pending EXCEPT !["dispatch"] = TRUE]
      /\ depth["dispatch"] = 0 /\ ~Flushes("dispatch") =>
            /\ stack' = Cons(Pass("flush", "dispatch", 0), Cons(CallOn("emit", Tail(m)), s))
            /\ UNCHANGED pending
    BY <1>4, <1>5 DEF RequestFlush, Call, Pass
<1> QED
    BY <1>3, <1>4, <1>6, RestOfMessages DEF Emit, RequestFlush

LEMMA EmitSteps ==
    ASSUME Types, Control, Emit
    PROVE  Control'
<1>1. AtEmit
    BY TopDecides DEF Emit
<1>2. PICK m \in Seq(Messages) :
    \/ /\ stack = Cons(CallOn("emit", m), EndLayout)
       /\ Opened /\ Depths(1, 2, 1)
    \/ \E n \in Nat, todo \in Seq(Ids) :
       /\ stack = Cons(CallOn("emit", m), RequestStack(n, todo))
       /\ InPass /\ Collected /\ NoticedBut(todo)
    \/ \E n \in Nat :
       /\ stack = Cons(CallOn("emit", m), Cons(Pass("flushed", "layout", n), CloseDispatch))
       /\ InLayout /\ Depths(1, 0, 0) /\ Flushes("layout") /\ ~Pending("layout")
       /\ OneLayout /\ Undone = {}
    \/ /\ stack = Cons(CallOn("emit", m), <<>>)
       /\ gone /\ Depths(0, 0, 0) /\ AfterComponents /\ ~Pending("layout") /\ Undone = {}
       /\ ~Pending("dispatch") /\ pendingDispatches = <<>> /\ \A g \in Guards : ~Flushes(g)
    BY <1>1 DEF AtEmit
<1>3. "dispatch" \in Guards /\ "layout" \in Guards /\ "components" \in Guards
    BY DEF Guards
\* Below, the message is held back by the batch that is open.
<1>4. ASSUME NEW s \in Seq(Frames), stack = Cons(CallOn("emit", m), s), depth["dispatch"] > 0
      PROVE  /\ Tail(m) \in Seq(Messages) /\ stack' = Cons(CallOn("emit", Tail(m)), s)
             /\ UNCHANGED <<model, queue, dom, gone, platform, history, depth, flushing>>
             /\ Sent' /\ Noticed' = Noticed /\ Collected' = Collected /\ Undone' = Undone
             /\ \A g \in Guards : Flushes(g)' = Flushes(g)
             /\ \A g \in Guards \ {"dispatch"} : Pending(g)' = Pending(g)
    <2>1. /\ Tail(m) \in Seq(Messages) /\ stack' = Cons(CallOn("emit", Tail(m)), s)
          /\ UNCHANGED <<model, queue, dom, gone, platform, history, depth, flushing>>
          /\ pending' = [pending EXCEPT !["dispatch"] = TRUE]
        BY <1>4, Emitting
    <2>2. \A g \in Guards \ {"dispatch"} : pending'[g] = pending[g]
        BY <2>1 DEF Types, PendingOK
    <2>3. pending'["dispatch"] = TRUE
        BY <1>3, <2>1 DEF Types, PendingOK
    <2> QED
        BY <1>3, <2>1, <2>2, <2>3 DEF Sent, Noticed, Collected, Undone, Visited, Nodes, Flushes, Pending,
           queue, model, dom, Guards
<1>5. CASE stack = Cons(CallOn("emit", m), EndLayout) /\ Opened /\ Depths(1, 2, 1)
    <2>1. depth["dispatch"] > 0
        BY <1>5 DEF Depths
    <2>2. Opened' /\ Depths(1, 2, 1)'
        BY <1>3, <1>4, <1>5, <2>1, BasesAreStacks DEF Opened, Depths, history, Guards
    <2> QED
        BY <1>4, <1>5, <2>1, <2>2, BasesAreStacks DEF Control, AtEmit
<1>6. ASSUME NEW n \in Nat, NEW todo \in Seq(Ids),
             stack = Cons(CallOn("emit", m), RequestStack(n, todo)),
             InPass, Collected, NoticedBut(todo)
      PROVE  Control'
    <2>1. depth["dispatch"] > 0
        BY <1>6 DEF Depths, InPass, InComponents
    <2>2. InPass' /\ Collected' /\ NoticedBut(todo)'
        BY <1>3, <1>4, <1>6, <2>1, FlushesAreStacks
           DEF InPass, InComponents, NoticedBut, Depths, history, model, queue, Guards
    <2> QED
        BY <1>4, <1>6, <2>1, <2>2, FlushesAreStacks DEF Control, AtEmit
<1>7. ASSUME NEW n \in Nat,
             stack = Cons(CallOn("emit", m), Cons(Pass("flushed", "layout", n), CloseDispatch)),
             InLayout, Depths(1, 0, 0), Flushes("layout"), ~Pending("layout"), OneLayout, Undone = {}
      PROVE  Control'
    <2>1. depth["dispatch"] > 0
        BY <1>7 DEF Depths
    <2>2. /\ InLayout' /\ Depths(1, 0, 0)' /\ Flushes("layout")' /\ ~Pending("layout")'
          /\ OneLayout' /\ Undone' = {}
        BY <1>3, <1>4, <1>7, <2>1, FlushesAreStacks
           DEF InLayout, AfterComponents, OneLayout, Depths, history, Guards
    <2> QED
        BY <1>4, <1>7, <2>1, <2>2, FlushesAreStacks DEF Control, AtEmit
<1>8. CASE /\ stack = Cons(CallOn("emit", m), <<>>)
           /\ gone /\ Depths(0, 0, 0) /\ AfterComponents /\ ~Pending("layout") /\ Undone = {}
           /\ ~Pending("dispatch") /\ pendingDispatches = <<>> /\ \A g \in Guards : ~Flushes(g)
    <2>1. /\ Tail(m) \in Seq(Messages)
          /\ UNCHANGED <<model, queue, dom, gone, platform, history, depth, flushing, pending>>
          /\ stack' = Cons(Pass("flush", "dispatch", 0), Cons(CallOn("emit", Tail(m)), <<>>))
        BY <1>3, <1>8, Emitting, BasesAreStacks DEF Depths
    <2>2. PICK rest \in Seq(Frames) : rest = Cons(CallOn("emit", Tail(m)), <<>>)
        BY <2>1, OnTop, CallsAreFrames, BasesAreStacks
    <2>3. InDispatch(rest)' /\ gone'
        BY <1>3, <1>8, <2>1, <2>2 DEF InDispatch, AfterComponents, Noticed, Collected, Undone, Visited, Nodes,
           Depths, Flushes, Pending, history, queue, model, dom
    <2> QED
        BY <2>1, <2>2, <2>3 DEF Control, AtFlush
<1> QED
    BY <1>2, <1>5, <1>6, <1>7, <1>8

LEMMA TakeSteps ==
    ASSUME Types, Control, TakeDispatches
    PROVE  Control'
<1>1. AtTake
    BY TopDecides DEF TakeDispatches
<1>2. PICK n \in Nat, rest \in Seq(Frames) :
        /\ stack = Cons(Call("take", "dispatch"), Cons(Pass("flushed", "dispatch", n), rest))
        /\ InDispatch(rest) /\ Flushes("dispatch") /\ ~Pending("dispatch") /\ (gone \/ bursts = 0)
    BY <1>1 DEF AtTake
<1>3. Caller = Cons(Pass("flushed", "dispatch", n), rest)
    BY <1>2, Calling, CallsAreFrames, FlushesAreStacks DEF Guards
<1>4. PICK m \in Seq(Messages) : m = pendingDispatches
    BY DEF Types, SentOK
<1>5. /\ stack' = Cons(CallOn("dispatch", m), Cons(Pass("flushed", "dispatch", n), rest))
      /\ pendingDispatches' = <<>>
      /\ bursts' = bursts \/ bursts' = bursts + 1
      /\ UNCHANGED <<model, queue, dom, guards, gone, platform, capped, overdue, layouts>>
    BY <1>3, <1>4 DEF TakeDispatches
<1>6. /\ InDispatch(rest)' /\ Flushes("dispatch")' /\ ~Pending("dispatch")' /\ (gone \/ bursts <= 1)'
    BY <1>2, <1>5 DEF InDispatch, AfterComponents, Noticed, Collected, Undone, Visited, Nodes, OneLayout,
       Depths, Flushes, Pending, guards, queue, model, dom, Types, CountOK
<1> QED
    BY <1>5, <1>6 DEF Control, AtDispatch

\* The run of messages that one listener call takes.
LEMMA Dispatching ==
    ASSUME Types, DispatchRun, NEW m \in Seq(Messages), NEW s \in Seq(Frames),
           stack = Cons(CallOn("dispatch", m), s)
    PROVE  \E n \in 1..Len(m) :
             /\ platform' = Applied(platform, SubSeq(m, 1, n))
             /\ SubSeq(m, n + 1, Len(m)) \in Seq(Messages)
             /\ stack' = Cons(CallOn("dispatch", SubSeq(m, n + 1, Len(m))), s)
<1>1. Head(stack) = CallOn("dispatch", m) /\ Caller = s
    BY Calling, CallsAreFrames
<1>2. CallOn("dispatch", m).todo = m
    BY DEF CallOn
<1>3. PICK n \in 1..Len(m) :
        /\ platform' = Applied(platform, SubSeq(m, 1, n))
        /\ stack' = Cons([CallOn("dispatch", m) EXCEPT !.todo = SubSeq(m, n + 1, Len(m))], s)
    BY <1>1, <1>2 DEF DispatchRun
<1>4. \A t : [CallOn("dispatch", m) EXCEPT !.todo = t] = CallOn("dispatch", t)
    BY DEF CallOn
<1>5. SubSeq(m, n + 1, Len(m)) \in Seq(Messages)
    OBVIOUS
<1> QED
    BY <1>3, <1>4, <1>5

LEMMA DispatchSteps ==
    ASSUME Types, Control, DispatchRun
    PROVE  Control'
<1>1. AtDispatch
    BY TopDecides DEF DispatchRun
<1>2. PICK n \in Nat, rest \in Seq(Frames), m \in Seq(Messages) :
        /\ stack = Cons(CallOn("dispatch", m), Cons(Pass("flushed", "dispatch", n), rest))
        /\ InDispatch(rest) /\ Flushes("dispatch") /\ ~Pending("dispatch")
        /\ pendingDispatches = <<>> /\ (gone \/ bursts <= 1)
    BY <1>1 DEF AtDispatch
<1>3. \E t \in Seq(Messages) :
         stack' = Cons(CallOn("dispatch", t), Cons(Pass("flushed", "dispatch", n), rest))
    BY <1>2, Dispatching, FlushesAreStacks
<1>4. UNCHANGED <<model, queue, dom, pendingDispatches, guards, gone, history>>
    BY DEF DispatchRun
<1>5. /\ InDispatch(rest)' /\ Flushes("dispatch")' /\ ~Pending("dispatch")'
      /\ pendingDispatches' = <<>> /\ (gone \/ bursts <= 1)'
    BY <1>2, <1>4 DEF InDispatch, AfterComponents, Noticed, Collected, Undone, Visited, Nodes, OneLayout,
       Depths, Flushes, Pending, guards, queue, model, dom, history
<1> QED
    BY <1>3, <1>5 DEF Control, AtDispatch

LEMMA ReturnSteps ==
    ASSUME Types, Control, Return
    PROVE  Control'
<1>1. UNCHANGED <<model, queue, dom, pendingDispatches, guards, gone, platform, history>>
    BY DEF Return
<1>2. stack' = Caller /\ Head(stack).todo = <<>>
    BY DEF Return
<1> USE DEF InDispatch, AfterComponents, Noticed, NoticedBut, Collected, Undone, Visited, Nodes, OneLayout,
            LaidOut, Depths, Flushes, Pending, Sent, InLayout, InComponents, InPass, Opened,
            guards, queue, model, dom, history
<1>3. CASE At("components")
    <2>1. PICK n \in Nat, todo \in Seq(Ids) :
            /\ stack = InComponentsStack(n, todo)
            /\ InPass /\ Collected /\ NoticedBut(todo) /\ LaidOut
        BY ONLY <1>3, Control, TopDecides DEF AtComponents
    <2>2. /\ Head(stack) = CallOn("components", todo)
          /\ Caller = Cons(Pass("flushed", "components", n), CloseLayout)
        BY ONLY <2>1, Calling, CallsAreFrames, FlushesAreStacks DEF InComponentsStack
    <2>3. todo = <<>>
        BY ONLY <1>2, <2>2 DEF CallOn
    <2>4. InPass' /\ Noticed' /\ Collected' /\ LaidOut'
        BY <1>1, <2>1, <2>3
    <2> QED
        BY ONLY <1>2, <2>2, <2>4 DEF Control, AtFlushed
<1>4. CASE At("dispatch")
    <2>1. PICK n \in Nat, rest \in Seq(Frames), m \in Seq(Messages) :
            /\ stack = Cons(CallOn("dispatch", m), Cons(Pass("flushed", "dispatch", n), rest))
            /\ InDispatch(rest) /\ Flushes("dispatch") /\ ~Pending("dispatch")
            /\ pendingDispatches = <<>> /\ (gone \/ bursts <= 1)
        BY ONLY <1>4, Control, TopDecides DEF AtDispatch
    <2>2. Caller = Cons(Pass("flushed", "dispatch", n), rest)
        BY ONLY <2>1, Calling, CallsAreFrames, FlushesAreStacks
    <2>3. /\ InDispatch(rest)' /\ Flushes("dispatch")' /\ ~Pending("dispatch")'
          /\ pendingDispatches' = <<>> /\ (gone \/ bursts <= 1)'
        BY <1>1, <2>1
    <2> QED
        BY ONLY <1>2, <2>2, <2>3 DEF Control, AtFlushed
<1>5. CASE At("emit")
    <2>1. PICK m \in Seq(Messages) :
        \/ /\ stack = Cons(CallOn("emit", m), EndLayout)
           /\ Opened /\ Depths(1, 2, 1)
        \/ \E n \in Nat, todo \in Seq(Ids) :
           /\ stack = Cons(CallOn("emit", m), RequestStack(n, todo))
           /\ InPass /\ Collected /\ NoticedBut(todo)
        \/ \E n \in Nat :
           /\ stack = Cons(CallOn("emit", m), Cons(Pass("flushed", "layout", n), CloseDispatch))
           /\ InLayout /\ Depths(1, 0, 0) /\ Flushes("layout") /\ ~Pending("layout")
           /\ OneLayout /\ Undone = {}
        \/ /\ stack = Cons(CallOn("emit", m), <<>>)
           /\ gone /\ Depths(0, 0, 0) /\ AfterComponents /\ ~Pending("layout") /\ Undone = {}
           /\ ~Pending("dispatch") /\ pendingDispatches = <<>> /\ \A g \in Guards : ~Flushes(g)
        BY ONLY <1>5, Control, TopDecides DEF AtEmit
    <2>2. \A s \in Seq(Frames) : stack = Cons(CallOn("emit", m), s) => stack' = s
        BY ONLY <1>2, Calling, CallsAreFrames
    <2>3. CASE stack = Cons(CallOn("emit", m), EndLayout) /\ Opened /\ Depths(1, 2, 1)
        <3>1. Opened' /\ Depths(1, 2, 1)'
            BY <1>1, <2>3
        <3> QED
            BY ONLY <2>2, <2>3, <3>1, BasesAreStacks DEF Control, AtEnd
    <2>4. ASSUME NEW n \in Nat, NEW todo \in Seq(Ids),
                 stack = Cons(CallOn("emit", m), RequestStack(n, todo)),
                 InPass, Collected, NoticedBut(todo)
          PROVE  Control'
        <3>1. InPass' /\ Collected' /\ NoticedBut(todo)'
            BY <1>1, <2>4
        <3> QED
            BY ONLY <2>2, <2>4, <3>1, FlushesAreStacks DEF Control, AtRequest
    <2>5. ASSUME NEW n \in Nat,
                 stack = Cons(CallOn("emit", m), Cons(Pass("flushed", "layout", n), CloseDispatch)),
                 InLayout, Depths(1, 0, 0), Flushes("layout"), ~Pending("layout"), OneLayout,
                 Undone = {}
          PROVE  Control'
        <3>1. /\ InLayout' /\ Depths(1, 0, 0)' /\ Flushes("layout")' /\ ~Pending("layout")'
              /\ OneLayout' /\ Undone' = {}
            BY <1>1, <2>5
        <3> QED
            BY ONLY <2>2, <2>5, <3>1, FlushesAreStacks DEF Control, AtFlushed
    <2>6. CASE /\ stack = Cons(CallOn("emit", m), <<>>)
               /\ gone /\ Depths(0, 0, 0) /\ AfterComponents /\ ~Pending("layout") /\ Undone = {}
               /\ ~Pending("dispatch") /\ pendingDispatches = <<>> /\ \A g \in Guards : ~Flushes(g)
        <3>1. stack' = <<>>
            BY ONLY <2>2, <2>6, BasesAreStacks
        <3> QED
            BY <1>1, <2>6, <3>1 DEF Control, AtRest
    <2> QED
        BY ONLY <2>1, <2>3, <2>4, <2>5, <2>6
<1> QED
    BY ONLY <1>3, <1>4, <1>5, Return DEF Return

LEMMA DestroySteps ==
    ASSUME Types, Control, DestroySurface
    PROVE  Control'
<1>1. AtRest /\ ~gone
    BY TopDecides DEF DestroySurface
<1>2. PICK s \in RootFirst(shown) : stack' = <<CallOn("emit", Removals(s))>>
    BY DEF DestroySurface
<1>3. Removals(s) \in Seq(Messages)
    BY RootFirstEnumerates, MessagesOf DEF Types, DomOK
<1>4. stack' = Cons(CallOn("emit", Removals(s)), <<>>)
    BY <1>2, <1>3, Tuples, CallsAreFrames
<1>5. /\ gone' /\ dirty' = {} /\ dirtyOrder' = <<>> /\ dirtyIndex' = {} /\ newLayout' = {}
      /\ nodes' = <<>> /\ snap' = None
      /\ UNCHANGED <<pendingDispatches, guards, platform, history>>
    BY DEF DestroySurface
<1>6. Undone' = {}
    BY <1>5 DEF Undone, Visited, Nodes, None, Ids
<1>7. /\ Depths(0, 0, 0)' /\ AfterComponents' /\ ~Pending("layout")' /\ gone'
      /\ ~Pending("dispatch")' /\ pendingDispatches' = <<>> /\ \A g \in Guards : ~Flushes(g)'
    BY <1>1, <1>5 DEF AtRest, Depths, AfterComponents, Noticed, Collected, Flushes, Pending, guards,
       history
<1> QED
    BY <1>3, <1>4, <1>6, <1>7 DEF Control, AtEmit

\* Every step of the model leads to a stack of the same kind.
LEMMA ControlSteps ==
    ASSUME Types, Control, Next
    PROVE  Control'
BY OperationsStart, BodySteps, EndSteps, CloseSteps, FlushSteps, FlushedSteps, CollectSteps,
   SkipSteps, ComponentSteps, RequestSteps, LayoutSteps, EmitSteps, TakeSteps, DispatchSteps,
   ReturnSteps, DestroySteps DEF Next, Run
-----------------------------------------------------------------------------
(* The types. *)

\* A set of natural numbers that is not empty has a least element.
LEMMA NatMinimum ==
    ASSUME NEW S \in SUBSET Nat, S # {}
    PROVE  \E n \in S : \A m \in S : n <= m
<1> DEFINE R == OpToRel(<, Nat)
<1>1. \A n, m \in Nat : n < m => <<n, m>> \in R
    BY DEF OpToRel
<1>2. IsWellFoundedOn(R, Nat)
    BY NatLessThanWellFounded
<1> HIDE DEF R
<1>3. PICK n \in S : \A m \in S : ~(<<m, n>> \in R)
    BY <1>2, WFMin
<1>4. \A m \in S : ~(m < n)
    BY <1>1, <1>3
<1> QED
    BY <1>4

\* The last of some positions of a sequence.
LEMMA LastPosition ==
    ASSUME NEW n \in Nat, NEW S \in SUBSET (1..n), S # {}
    PROVE  Max(S) \in S /\ \A i \in S : i <= Max(S)
<1> DEFINE T == {k \in Nat : \A i \in S : i <= k}
<1>1. n \in T
    OBVIOUS
<1>2. PICK k \in T : \A j \in T : k <= j
    BY <1>1, NatMinimum
<1>3. k \in S
    <2>1. SUFFICES ASSUME k \notin S PROVE FALSE
        OBVIOUS
    <2>2. \A i \in S : i \in Nat /\ i <= k /\ i # k /\ i >= 1
        BY <2>1
    <2>3. \A i \in S : i <= k - 1
        BY <2>2
    <2>4. PICK i \in S : i <= k /\ i >= 1
        BY <2>2
    <2>5. k - 1 \in Nat
        BY <2>2, <2>4
    <2>6. k - 1 \in T
        BY <2>3, <2>5
    <2> QED
        BY <1>2, <2>6
<1>4. \E x \in S : \A y \in S : x >= y
    BY <1>3
<1>5. Max(S) \in S /\ \A y \in S : Max(S) >= y
    BY <1>4 DEF Max
<1> QED
    BY <1>5

\* The platform keeps a version for every id.
LEMMA AppliedType ==
    ASSUME NEW p \in [Ids -> Nat], NEW run \in Seq(Messages)
    PROVE  Applied(p, run) \in [Ids -> Nat]
<1> SUFFICES ASSUME NEW c \in Ids
             PROVE  (LET about == {i \in DOMAIN run : run[i].id = c}
                     IN  IF about = {} THEN p[c] ELSE run[Max(about)].ver) \in Nat
    BY DEF Applied
<1> DEFINE about == {i \in DOMAIN run : run[i].id = c}
<1>1. Len(run) \in Nat /\ about \in SUBSET (1..Len(run))
    OBVIOUS
<1>2. about # {} => Max(about) \in DOMAIN run
    BY <1>1, LastPosition
<1>3. \A i \in DOMAIN run : run[i].ver \in Nat
    <2>1. \A i \in DOMAIN run : run[i] \in Messages
        OBVIOUS
    <2> QED
        BY <2>1 DEF Messages
<1> QED
    BY <1>2, <1>3

Holds(s, c) == \E i \in DOMAIN s : s[i] = c

\* What is in a part of a concatenation is in it.
LEMMA InConcat ==
    \A s, t \in Seq(Ids), c \in Ids :
        Holds(s, c) \/ Holds(t, c) => Holds(s \o t, c)
<1> TAKE s, t \in Seq(Ids), c \in Ids
<1>1. /\ s \o t \in Seq(Ids) /\ Len(s \o t) = Len(s) + Len(t)
      /\ \A i \in 1..Len(s) + Len(t) :
            (s \o t)[i] = IF i <= Len(s) THEN s[i] ELSE t[i - Len(s)]
    BY ConcatProperties
<1>2. /\ Len(s) \in Nat /\ Len(t) \in Nat /\ DOMAIN s = 1..Len(s) /\ DOMAIN t = 1..Len(t)
      /\ DOMAIN (s \o t) = 1..Len(s) + Len(t)
    BY <1>1
<1>3. ASSUME NEW i \in DOMAIN s, s[i] = c PROVE \E j \in DOMAIN (s \o t) : (s \o t)[j] = c
    <2>1. i \in 1..Len(s) + Len(t) /\ i <= Len(s)
        BY <1>2
    <2> QED
        BY <1>1, <1>2, <1>3, <2>1
<1>4. ASSUME NEW i \in DOMAIN t, t[i] = c PROVE \E j \in DOMAIN (s \o t) : (s \o t)[j] = c
    <2>1. /\ Len(s) + i \in 1..Len(s) + Len(t) /\ ~(Len(s) + i <= Len(s))
          /\ (Len(s) + i) - Len(s) = i
        BY <1>2
    <2>2. (s \o t)[Len(s) + i] = t[i]
        BY <1>1, <2>1
    <2> QED
        BY <1>2, <1>4, <2>1, <2>2
<1> QED
    BY <1>3, <1>4 DEF Holds

\* _dirtyOrder holds whatever _dirtyIndex does.
LEMMA Enqueued ==
    ASSUME Types, NEW K \in SUBSET Ids, NEW c \in Ids, Enqueue(K, c)
    PROVE  /\ dirtyOrder' \in Seq(Ids) /\ dirtyIndex' \subseteq Ids
           /\ \A d \in dirtyIndex' : \E i \in DOMAIN dirtyOrder' : dirtyOrder'[i] = d
<1> DEFINE last == IF c \in dirtyIndex THEN <<>> ELSE <<c>>
<1>1. PICK items \in SetToSeqs(K \ dirtyIndex) : dirtyOrder' = (dirtyOrder \o items) \o last
    BY DEF Enqueue
<1>2. /\ items \in Seq(Ids)
      /\ \A d \in K \ dirtyIndex : \E i \in DOMAIN items : items[i] = d
    <2>1. PICK fresh \in SUBSET Ids : fresh = K \ dirtyIndex
        OBVIOUS
    <2>2. items \in SetToSeqs(fresh)
        BY <1>1, <2>1
    <2>3. /\ items \in Seq(Ids) /\ DOMAIN items = 1..Len(items)
          /\ \A d \in fresh : \E i \in 1..Len(items) : items[i] = d
        BY ONLY <2>2, Enumerations
    <2> QED
        BY ONLY <2>1, <2>3
<1>3. dirtyOrder \in Seq(Ids) /\ last \in Seq(Ids)
    BY DEF Types, QueueOK
<1>4. dirtyOrder \o items \in Seq(Ids)
    BY <1>2, <1>3, ConcatProperties
<1>5. dirtyOrder' \in Seq(Ids)
    BY <1>1, <1>3, <1>4, ConcatProperties
<1>6. c \in dirtyIndex \/ \E i \in DOMAIN last : last[i] = c
    <2>1. <<c>>[1] = c /\ 1 \in DOMAIN <<c>>
        OBVIOUS
    <2> QED
        BY <2>1
<1>7. ASSUME NEW d \in dirtyIndex \cup K \cup {c}
      PROVE  \E i \in DOMAIN dirtyOrder' : dirtyOrder'[i] = d
    <2>1. Holds(dirtyOrder, d) \/ Holds(items, d) \/ Holds(last, d)
        BY <1>2, <1>6 DEF Types, QueueOK, Holds
    <2> HIDE DEF last
    <2>2. d \in Ids
        BY DEF Types, QueueOK
    <2>3. Holds(dirtyOrder \o items, d) \/ Holds(last, d)
        BY ONLY <1>2, <1>3, <2>1, <2>2, InConcat
    <2>4. Holds((dirtyOrder \o items) \o last, d)
        BY ONLY <1>3, <1>4, <2>2, <2>3, InConcat
    <2> QED
        BY ONLY <1>1, <2>4 DEF Holds, last
<1>8. dirtyIndex' = dirtyIndex \cup K \cup {c}
    BY DEF Enqueue
<1> QED
    BY <1>5, <1>7, <1>8 DEF Types, QueueOK

LEMMA RequestTypes ==
    ASSUME PendingOK, NEW g \in Guards, NEW rest, RequestFlush(g, rest)
    PROVE  PendingOK' /\ UNCHANGED depth
BY DEF PendingOK, RequestFlush

LEMMA ChangeTypes ==
    ASSUME Types, Control, Change
    PROVE  Types'
<1>1. /\ At("body") /\ changes' = changes + 1
      /\ UNCHANGED <<dom, pendingDispatches, gone, platform, history>>
    BY DEF Change, Define, DefineRoot, DefineListRoot, Grow, Shrink, Touch, Changing
<1>2. RequestFlush("components", stack)
    BY DEF Change, Define, DefineRoot, DefineListRoot, Grow, Shrink, Touch, MarkDirty
<1>3. ~gone
    BY <1>1, TopDecides DEF AtBody, Opened
<1>4. DepthOK' /\ PendingOK'
    BY <1>2, RequestTypes DEF Types, Guards, DepthOK
<1>5. CountOK' /\ SentOK' /\ changes' \in Nat /\ gone' \in BOOLEAN /\ lost' \subseteq Ids
    BY <1>1 DEF Types, CountOK, SentOK, history, dom
<1>6. /\ Root \in Ids /\ Children \subseteq Ids /\ Items \subseteq Ids /\ Root \notin Items
    BY PipelineAssumption DEF Ids
<1>7. nodes' = nodes /\ newLayout' = newLayout /\ shown' = shown /\ snap' = snap /\ orphan' = orphan
    BY <1>1 DEF dom
\* The components K and c change.
<1>8. ASSUME NEW K \in SUBSET Ids, NEW c \in Ids, MarkDirty(K, c),
             components' \in SUBSET Ids, components \cup K \cup {c} \subseteq components',
             listed' \in Seq(Ids), bound' \in BOOLEAN, bound' => Root \in components'
      PROVE  Types'
    <2>1. /\ dirtyOrder' \in Seq(Ids) /\ dirtyIndex' \subseteq Ids
          /\ \A d \in dirtyIndex' : \E i \in DOMAIN dirtyOrder' : dirtyOrder'[i] = d
        BY <1>8, Enqueued DEF MarkDirty
    <2>2. dirty' \subseteq components' /\ version' \in [Ids -> Nat]
        BY <1>8 DEF MarkDirty, Types, QueueOK, DomOK
    <2> QED
        BY <1>4, <1>5, <1>7, <1>8, <2>1, <2>2 DEF Types, QueueOK, DomOK
<1>9. ASSUME NEW c \in Children, Define(c)
      PROVE  Types'
    <2>1. MarkDirty({}, c) /\ components' = components \cup {c} /\ UNCHANGED <<listed, bound>>
        BY <1>9 DEF Define
    <2> QED
        BY <1>3, <1>6, <1>8, <2>1 DEF Types, DomOK
<1>10. ASSUME NEW K \in SUBSET Children, DefineRoot(K)
       PROVE  Types'
    <2>1. MarkDirty({}, Root) /\ components' = components \cup {Root} /\ listed' \in Seq(Ids) /\ bound' = FALSE
        BY <1>6, <1>10, ListOf DEF DefineRoot
    <2> QED
        BY <1>6, <1>8, <2>1 DEF Types, DomOK
<1>11. ASSUME NEW K \in SUBSET Items, DefineListRoot(K)
       PROVE  Types'
    <2>1. /\ MarkDirty(K, Root) /\ components' = components \cup {Root} \cup K
          /\ listed' \in Seq(Ids) /\ bound' = TRUE
        BY <1>6, <1>11, ListOf DEF DefineListRoot
    <2> QED
        BY <1>6, <1>8, <2>1 DEF Types, DomOK
<1>12. ASSUME NEW K \in SUBSET Items, Grow(K)
       PROVE  Types'
    <2>1. /\ MarkDirty(K, Root) /\ components' = components \cup K /\ bound = TRUE
          /\ listed' \in Seq(Ids) /\ bound' = bound
        <3>1. PICK items \in SetToSeqs(K) : listed' = listed \o items
            BY <1>12 DEF Grow
        <3>2. items \in Seq(Ids) /\ listed \in Seq(Ids)
            BY <1>6, <3>1, ListOf DEF Types, DomOK
        <3>3. listed' \in Seq(Ids)
            BY <3>1, <3>2, MembersOfBoth
        <3> QED
            BY <1>12, <3>3 DEF Grow, Types
    <2> QED
        BY <1>3, <1>6, <1>8, <2>1 DEF Types, DomOK
<1>13. ASSUME NEW K \in SUBSET Items, Shrink(K)
       PROVE  Types'
    <2>1. /\ components' = components \ K /\ bound' = bound /\ bound = TRUE
          /\ version' = [version EXCEPT ![Root] = @ + 1]
          /\ dirty' = (dirty \ K) \cup {Root}
          /\ dirtyOrder' = IF Root \in dirtyIndex THEN dirtyOrder ELSE Append(dirtyOrder, Root)
          /\ dirtyIndex' = (dirtyIndex \ K) \cup {Root}
        BY <1>13 DEF Shrink, Types
    <2>2. Root \in components /\ Root \in components'
        BY <1>3, <1>6, <2>1 DEF Types, DomOK
    <2>3. version' \in [Ids -> Nat]
        BY <1>6, <2>1 DEF Types, DomOK
    <2>4. dirty' \subseteq components' /\ components' \subseteq Ids /\ listed' \in Seq(Ids)
        <3>1. Listed \ K \in SUBSET Ids
            BY Tree
        <3>2. listed' \in SetToSeqs(Listed \ K)
            BY <1>13 DEF Shrink, InOrder
        <3> QED
            BY <2>1, <2>2, <3>1, <3>2, ListOf DEF Types, DomOK, QueueOK
    <2>5. DomOK' /\ dirty' \subseteq components'
        BY <1>7, <2>2, <2>3, <2>4 DEF Types, DomOK
    <2>6. CASE Root \in dirtyIndex
        BY <1>4, <1>5, <1>6, <2>1, <2>5, <2>6 DEF Types, QueueOK
    <2>7. CASE Root \notin dirtyIndex
        <3>1. dirtyOrder \in Seq(Ids)
            BY DEF Types, QueueOK
        <3>2. /\ dirtyOrder' \in Seq(Ids) /\ DOMAIN dirtyOrder' = 1..Len(dirtyOrder) + 1
              /\ DOMAIN dirtyOrder = 1..Len(dirtyOrder) /\ Len(dirtyOrder) \in Nat
              /\ \A i \in 1..Len(dirtyOrder) : dirtyOrder'[i] = dirtyOrder[i]
              /\ dirtyOrder'[Len(dirtyOrder) + 1] = Root
            BY <1>6, <2>1, <2>7, <3>1
        <3>3. \A d \in dirtyIndex' : \E i \in DOMAIN dirtyOrder' : dirtyOrder'[i] = d
            BY <2>1, <3>2 DEF Types, QueueOK
        <3> QED
            BY <1>4, <1>5, <1>6, <2>1, <2>5, <3>2, <3>3 DEF Types, QueueOK
    <2> QED
        BY <2>6, <2>7
<1>14. ASSUME NEW c \in Ids, Touch(c)
       PROVE  Types'
    <2>1. MarkDirty({}, c) /\ c \in components /\ UNCHANGED <<components, listed, bound>>
        BY <1>14 DEF Touch
    <2> QED
        BY <1>3, <1>8, <2>1 DEF Types, DomOK
<1> QED
    BY <1>9, <1>10, <1>11, <1>12, <1>13, <1>14 DEF Change

LEMMA ComponentTypes ==
    ASSUME Types, Control, FlushComponent
    PROVE  Types'
<1>1. PICK n \in Nat, todo \in Seq(Ids) :
        /\ Head(todo) \in components \cap dirty /\ Rebuild(Head(todo)) /\ UpdateNode(Head(todo))
    BY FlushingOne
<1> DEFINE c == Head(todo)
<1>2. c \in Ids /\ c \in components
    BY <1>1 DEF Types, DomOK
<1>3. UNCHANGED <<components, listed, bound, pendingDispatches, depth, flushing, gone, platform,
                  history>>
    BY DEF FlushComponent
<1> HIDE DEF c
<1>4. QueueOK' /\ PendingOK' /\ version' \in [Ids -> Nat] /\ changes' \in Nat
    <2>1. Rebuild(c)
        BY <1>1 DEF c
    <2>2. CASE dirty' = dirty \ {c} /\ UNCHANGED <<queue, pending, version, changes>>
        BY <1>3, <2>2 DEF Types, QueueOK, PendingOK, DomOK, queue
    <2>3. ASSUME NEW e \in components, dirty' = (dirty \ {c}) \cup {e}, Enqueue({}, e),
                 pending' = [pending EXCEPT !["components"] = TRUE],
                 \/ changes' = changes + 1 /\ version' = [version EXCEPT ![e] = @ + 1]
                 \/ UNCHANGED <<changes, version>>
          PROVE  QueueOK' /\ PendingOK' /\ version' \in [Ids -> Nat] /\ changes' \in Nat
        <3>1. e \in Ids /\ {} \in SUBSET Ids
            BY DEF Types, DomOK
        <3>2. /\ dirtyOrder' \in Seq(Ids) /\ dirtyIndex' \subseteq Ids
              /\ \A d \in dirtyIndex' : \E i \in DOMAIN dirtyOrder' : dirtyOrder'[i] = d
            BY <2>3, <3>1, Enqueued
        <3>3. version \in [Ids -> Nat] /\ changes \in Nat
            BY DEF Types, DomOK
        <3>4. [version EXCEPT ![e] = @ + 1] \in [Ids -> Nat] /\ changes + 1 \in Nat
            BY <3>1, <3>3
        <3>5. version' \in [Ids -> Nat] /\ changes' \in Nat
            BY <2>3, <3>3, <3>4
        <3>6. PendingOK'
            BY <1>3, <2>3 DEF Types, PendingOK
        <3> QED
            BY <1>3, <2>3, <3>2, <3>5, <3>6 DEF Types, QueueOK
    <2> QED
        BY <2>1, <2>2, <2>3 DEF Rebuild
<1>5. /\ nodes' \in Seq(Ids) /\ newLayout' \subseteq Ids /\ shown' \subseteq Ids
      /\ snap' \in [Ids -> Nat] /\ orphan' \in [Ids -> Nat] /\ lost' \subseteq Ids
    <2>1. UpdateNode(c)
        BY <1>1 DEF c
    <2>2. CASE c = Root
        <3>1. UpdateRootNode
            BY <2>1, <2>2 DEF UpdateNode
        <3>2. snap' \in [Ids -> Nat]
            BY <1>2, <2>2, <3>1 DEF UpdateRootNode, Types, DomOK
        <3>3. orphan' \in [Ids -> Nat]
            BY <3>1 DEF UpdateRootNode, Types, DomOK
        <3>4. Taken \subseteq Ids /\ Restored \subseteq Ids /\ Nodes \subseteq Ids
            BY Tree DEF Taken, Restored
        <3>5. /\ nodes' \in Seq(Ids) /\ newLayout' \subseteq Ids /\ shown' \subseteq Ids
              /\ lost' \subseteq Ids
            BY <1>2, <2>2, <3>1, <3>4 DEF UpdateRootNode, Types, DomOK
        <3> QED
            BY <3>2, <3>3, <3>5
    <2>3. CASE c # Root
        BY <1>2, <2>1, <2>3 DEF UpdateNode, UpdateChildNode, Types, DomOK
    <2> QED
        BY <2>2, <2>3
<1> QED
    BY <1>3, <1>4, <1>5 DEF Types, DepthOK, CountOK, DomOK, SentOK, history

LEMMA TypeSteps ==
    ASSUME Types, Control, Next
    PROVE  Types'
<1> USE DEF Types, DepthOK, PendingOK, QueueOK, CountOK, DomOK, SentOK,
            model, queue, dom, guards, history
<1>1. CASE BeginUpdate \/ BeginNoUpdate \/ BeginLayoutNow
    <2>1. AtRest
        BY ONLY <1>1, Control, TopDecides
           DEF BeginUpdate, BeginNoUpdate, BeginLayoutNow, StartOperation
    <2>2. Depths(0, 0, 0)
        BY ONLY <2>1 DEF AtRest
    <2>3. depth' = Begin(depth, "dispatch") \/ depth' = Begin(Begin(depth, "dispatch"), "layout")
        BY ONLY <1>1 DEF BeginUpdate, BeginNoUpdate, BeginLayoutNow, StartOperation
    <2>4. depth' \in [Guards -> Nat]
        BY ONLY Types, <2>2, <2>3, Beginnings DEF Types
    <2>5. /\ overdue' = capped /\ capped' = FALSE /\ layouts' = 0 /\ bursts' = 0
          /\ UNCHANGED <<model, queue, dom, pendingDispatches, pending, flushing, gone, platform>>
        BY <1>1 DEF BeginUpdate, BeginNoUpdate, BeginLayoutNow, StartOperation
    <2> QED
        BY <2>4, <2>5
<1>2. CASE DestroySurface
    <2>1. /\ gone' = TRUE
          /\ components' = {} /\ listed' = <<>> /\ dirty' = {} /\ dirtyOrder' = <<>>
          /\ dirtyIndex' = {} /\ nodes' = <<>> /\ snap' = None /\ orphan' = None /\ newLayout' = {}
          /\ shown' = {}
          /\ UNCHANGED <<version, bound, changes, lost, stripped, pendingDispatches, guards, platform, history>>
        BY ONLY <1>2 DEF DestroySurface
    <2> QED
        BY <2>1 DEF None
<1>3. CASE Change
    BY ONLY <1>3, Types, Control, ChangeTypes
<1>4. CASE BodyEnd \/ Return \/ SkipComponent
    <2>1. UNCHANGED <<model, queue, dom, pendingDispatches, guards, gone, platform, history>>
        BY ONLY <1>4 DEF BodyEnd, Return, SkipComponent
    <2> QED
        BY <2>1
<1>5. CASE EndBatch \/ CloseBatch
    <2>1. UNCHANGED <<model, queue, dom, pendingDispatches, pending, flushing, gone, platform, history>>
        BY ONLY <1>5 DEF EndBatch, CloseBatch
    <2>2. depth' \in [Guards -> Nat]
        BY <1>5 DEF EndBatch, CloseBatch
    <2> QED
        BY <2>1, <2>2
<1>6. CASE Flush
    BY <1>6 DEF Flush
<1>7. CASE Flushed
    BY <1>7 DEF Flushed
<1>8. CASE CollectDirty
    <2>1. <<>> \in Seq(Ids)
        OBVIOUS
    <2> QED
        BY <1>8, <2>1 DEF CollectDirty
<1>9. CASE FlushComponent
    BY ONLY <1>9, Types, Control, ComponentTypes
<1>10. CASE RequestLayout
    <2>1. PendingOK' /\ UNCHANGED depth
        BY <1>10 DEF RequestLayout, RequestFlush
    <2> QED
        BY <1>10, <2>1 DEF RequestLayout
<1>11. CASE Layout
    BY <1>11, Tree DEF Layout, Visited, Ids
<1>12. CASE Emit
    <2>1. AtEmit
        BY ONLY <1>12, Control, TopDecides DEF Emit
    <2>2. PICK m \in Seq(Messages), s \in Seq(Frames) : stack = Cons(CallOn("emit", m), s)
        BY ONLY <2>1, BasesAreStacks, FlushesAreStacks DEF AtEmit
    <2>3. /\ m # <<>>
          /\ UNCHANGED <<model, queue, dom, gone, platform, history, depth, flushing>>
          /\ pendingDispatches' = Append(pendingDispatches, Head(m))
        BY ONLY Types, <1>12, <2>2, Emitting
    <2>4. Head(m) \in Messages
        BY ONLY <2>3, RestOfMessages
    <2>5. PendingOK'
        BY <1>12 DEF Emit, RequestFlush
    <2> QED
        BY <2>3, <2>4, <2>5
<1>13. CASE TakeDispatches
    <2>1. <<>> \in Seq(Messages)
        OBVIOUS
    <2> QED
        BY <1>13, <2>1 DEF TakeDispatches
<1>14. CASE DispatchRun
    <2>1. AtDispatch
        BY ONLY <1>14, Control, TopDecides DEF DispatchRun
    <2>2. PICK m \in Seq(Messages), s \in Seq(Frames) : stack = Cons(CallOn("dispatch", m), s)
        BY ONLY <2>1, FlushesAreStacks DEF AtDispatch
    <2>3. PICK n \in 1..Len(m) : platform' = Applied(platform, SubSeq(m, 1, n))
        BY ONLY Types, <1>14, <2>2, Dispatching
    <2>4. SubSeq(m, 1, n) \in Seq(Messages)
        OBVIOUS
    <2>5. platform' \in [Ids -> Nat]
        BY <2>3, <2>4, AppliedType
    <2>6. UNCHANGED <<model, queue, dom, pendingDispatches, guards, gone, history>>
        BY ONLY <1>14 DEF DispatchRun
    <2> QED
        BY <2>5, <2>6
<1> QED
    BY ONLY Next, <1>1, <1>2, <1>3, <1>4, <1>5, <1>6, <1>7, <1>8, <1>9, <1>10, <1>11, <1>12, <1>13,
       <1>14 DEF Next, Run
-----------------------------------------------------------------------------
(* What the call stack shows. *)

LEMMA InitialStack == Init => Types /\ Control
<1> SUFFICES ASSUME Init PROVE Types /\ Control
    OBVIOUS
<1>1. <<>> \in Seq(Ids) /\ <<>> \in Seq(Messages)
    OBVIOUS
<1>2. Types
    <2>1. DepthOK /\ PendingOK /\ CountOK
        BY DEF Init, DepthOK, PendingOK, CountOK
    <2>2. QueueOK /\ DomOK
        BY <1>1 DEF Init, None, QueueOK, DomOK
    <2>3. SentOK
        BY <1>1 DEF Init, None, SentOK
    <2> QED
        BY <2>1, <2>2, <2>3 DEF Init, Types
<1>3. AtRest
    <2>1. Depths(0, 0, 0) /\ \A g \in Guards : ~Flushes(g) /\ ~Pending(g)
        BY DEF Init, Depths, Flushes, Pending, Guards
    <2>2. Undone = {}
        BY DEF Init, None, Undone, Visited, Nodes, Ids
    <2>3. AfterComponents /\ OneLayout
        BY <2>1 DEF Init, AfterComponents, Noticed, Collected, OneLayout, Guards
    <2> QED
        BY <2>1, <2>2, <2>3 DEF Init, AtRest, Guards
<1> QED
    BY <1>2, <1>3 DEF Control

LEMMA StackStutters ==
    ASSUME Types, Control, UNCHANGED vars
    PROVE  Types' /\ Control'
<1>1. Types'
    BY DEF vars, model, queue, dom, guards, history, Types, DepthOK, PendingOK, QueueOK, CountOK,
       DomOK, SentOK
<1>2. /\ stack' = stack /\ Opened' = Opened /\ InComponents' = InComponents /\ InPass' = InPass
      /\ AfterComponents' = AfterComponents /\ OneLayout' = OneLayout /\ InLayout' = InLayout
      /\ Undone' = Undone /\ LaidOut' = LaidOut /\ Collected' = Collected /\ Sent' = Sent
      /\ Noticed' = Noticed
      /\ \A d, l, c : Depths(d, l, c)' = Depths(d, l, c)
      /\ \A g : Flushes(g)' = Flushes(g) /\ Pending(g)' = Pending(g)
      /\ \A rest : InDispatch(rest)' = InDispatch(rest)
      /\ \A todo : NoticedBut(todo)' = NoticedBut(todo)
      /\ UNCHANGED <<gone, overdue, layouts, bursts, pendingDispatches>>
    BY DEF vars, model, queue, dom, guards, history, Opened, InComponents, InPass, AfterComponents,
       OneLayout, InLayout, Undone, LaidOut, Collected, Sent, Noticed, Visited, Nodes, Depths, Flushes,
       Pending, InDispatch, NoticedBut
<1>3. /\ AtBody' = AtBody /\ AtLayout' = AtLayout /\ AtEmit' = AtEmit /\ AtEnd' = AtEnd
      /\ AtClose' = AtClose /\ AtFlush' = AtFlush /\ AtFlushed' = AtFlushed
      /\ AtCollect' = AtCollect /\ AtComponents' = AtComponents /\ AtRequest' = AtRequest
      /\ AtTake' = AtTake /\ AtDispatch' = AtDispatch /\ AtRest' = AtRest
    BY <1>2 DEF AtBody, AtLayout, AtEmit, AtEnd, AtClose, AtFlush, AtFlushed, AtCollect,
       AtComponents, AtRequest, AtTake, AtDispatch, AtRest
<1> QED
    BY <1>1, <1>3 DEF Control

\* The call stack is always one of the stacks that Control lists: the batches
\* open under a call, the flush it belongs to and what waits for a flush are
\* determined by the call, whatever the operation and however often a flush
\* asks for another one (BatchGuard and BatchScope).
THEOREM StacksAreKnown == Spec => [](Types /\ Control)
<1>1. Init => Types /\ Control
    BY InitialStack
<1>2. Types /\ Control /\ [Next]_vars => (Types /\ Control)'
    BY ControlSteps, TypeSteps, StackStutters
<1> QED
    BY <1>1, <1>2, PTL DEF Spec

LEMMA DepthsOfStacks ==
    ASSUME Control
    PROVE  /\ depth["dispatch"] \in 0..1 /\ depth["layout"] \in 0..2
           /\ depth["components"] \in 0..1
<1>1. Depths(1, 2, 1) \/ Depths(1, 1, 1) \/ Depths(1, 1, 0) \/ Depths(1, 0, 0) \/ Depths(0, 0, 0)
    BY DEF Control, AtBody, AtLayout, AtEmit, AtEnd, AtClose, AtFlush, AtFlushed, AtCollect,
       AtComponents, AtRequest, AtTake, AtDispatch, AtRest, InPass, InComponents, InDispatch
<1> QED
    BY <1>1 DEF Depths

\* When an operation of the coordinator has returned, no batch is open and
\* nothing waits for a flush, unless a flush ended at its cap; and no batch is
\* ever nested deeper than Surface and its coordinator nest it.
THEOREM OperationsSettle == Spec => []Settled
<1>1. Types /\ Control => Settled
    <2> SUFFICES ASSUME Types, Control PROVE Settled
        OBVIOUS
    <2>1. \A g \in Guards : depth[g] \in 0..2 /\ (g = "components" => depth[g] <= 1)
        BY DepthsOfStacks DEF Guards
    <2>2. ASSUME Idle
          PROVE  /\ \A g \in Guards : depth[g] = 0 /\ ~flushing[g]
                 /\ capped \/ /\ \A g \in Guards : ~pending[g]
                              /\ dirty = {} /\ dirtyOrder = <<>> /\ dirtyIndex = {}
                              /\ newLayout \cap Visited = {}
                              /\ pendingDispatches = <<>>
        <3>1. AtRest
            BY <2>2, TopDecides DEF Idle
        <3>2. \A g \in Guards : flushing[g] = Flushes(g) /\ pending[g] = Pending(g)
            BY DEF Types, PendingOK, Flushes, Pending
        <3> QED
            BY <3>1, <3>2 DEF AtRest, Depths, AfterComponents, Noticed, Collected, Undone, Guards
    <2> QED
        BY <2>1, <2>2 DEF Settled
<1> QED
    BY <1>1, StacksAreKnown, PTL

\* One operation lays the surface out at most once, unless work was left over
\* by an operation that hit the cap, and sends its messages in one burst.
THEOREM LayoutsAndBurstsAreFew == Spec => []OneLayoutOneBurst
<1>1. Types /\ Control => OneLayoutOneBurst
    <2> SUFFICES ASSUME Types, Control, ~gone PROVE (layouts <= 1 \/ overdue) /\ bursts <= 1
        BY DEF OneLayoutOneBurst
    <2>1. layouts = 0 \/ layouts = 1 \/ OneLayout \/ overdue
        BY DEF Control, AtBody, AtLayout, AtEmit, AtEnd, AtClose, AtFlush, AtFlushed, AtCollect,
           AtComponents, AtRequest, AtTake, AtDispatch, AtRest, InPass, InComponents, InDispatch,
           Opened
    <2>2. bursts = 0 \/ bursts <= 1
        BY DEF Control, AtBody, AtLayout, AtEmit, AtEnd, AtClose, AtFlush, AtFlushed, AtCollect,
           AtComponents, AtRequest, AtTake, AtDispatch, AtRest, InPass, InComponents, InLayout, Opened
    <2> QED
        BY <2>1, <2>2 DEF OneLayout
<1> QED
    BY <1>1, StacksAreKnown, PTL

\* The platform is told nothing before every dirty component was flushed and
\* laid out and every batch is closed, unless a flush hit the cap.
THEOREM DispatchIsLast == Spec => DispatchComesLast
<1>1. ASSUME Types, Control, [Next]_vars
      PROVE  platform' # platform /\ ~gone =>
                /\ \A g \in Guards : depth[g] = 0
                /\ capped \/ (dirty = {} /\ ~pending["components"] /\ ~pending["layout"])
    <2>1. CASE DispatchRun
        <3>1. AtDispatch
            BY <2>1, <1>1, TopDecides DEF DispatchRun
        <3>2. PICK rest \in Seq(Frames) : InDispatch(rest)
            BY <3>1 DEF AtDispatch
        <3>3. \A g \in Guards : pending[g] = Pending(g)
            BY <1>1 DEF Types, PendingOK, Pending
        <3> QED
            BY <3>2, <3>3 DEF InDispatch, Depths, AfterComponents, Noticed, Collected, Guards
    <2>2. CASE Next /\ ~DispatchRun
        BY <2>2 DEF Next, Run, Change, BeginUpdate, BeginNoUpdate, BeginLayoutNow, StartOperation,
           DestroySurface, Define, DefineRoot, DefineListRoot, Grow, Shrink, Touch, Changing, BodyEnd,
           EndBatch, CloseBatch, Flush, Flushed, CollectDirty, SkipComponent, FlushComponent,
           RequestLayout, Layout, Emit, TakeDispatches, Return
    <2>3. CASE UNCHANGED vars
        BY <2>3 DEF vars
    <2> QED
        BY <1>1, <2>1, <2>2, <2>3
<1> QED
    BY <1>1, StacksAreKnown, PTL DEF Spec, DispatchComesLast
-----------------------------------------------------------------------------
(* The components, the nodes and their snapshots. *)

Known == \* what holds of components and nodes, dirty or not
    /\ \A c \in components : version[c] > 0
    /\ Root \notin Listed /\ Root \notin Nodes /\ orphan[Root] = 0
    /\ Listed \ components \subseteq Children
    /\ \A c \in Children \ components : snap[c] = 0 /\ orphan[c] = 0
    /\ \A c \in Nodes : orphan[c] = 0
    /\ \A c \in Ids \ Nodes : c # Root => snap[c] = 0
    /\ Root \notin components => snap[Root] = 0
    /\ shown \subseteq Visited

\* A component that is not dirty has its content in its node, or set aside
\* for the node it is to get, or lost both.
UpToDate(c) ==
    /\ c \in Nodes    => snap[c] = version[c] \/ (snap[c] = 0 /\ c \in lost)
    /\ c \notin Nodes => orphan[c] = version[c] \/ (orphan[c] = 0 /\ c \in lost)

Kept == /\ \A c \in components \ dirty : c # Root => UpToDate(c)
        /\ Root \notin dirty => Nodes = Listed /\ (Root \in components => snap[Root] = version[Root])

(* The messages. *)

\* A platform that shows p can do what m says.
Valid(p, m) ==
    /\ m.ver = 0 <=> m.kind = "remove"
    /\ m.kind = "add" => p[m.id] = 0 /\ (m.id = Root \/ p[Root] # 0)
    /\ m.kind # "add" => p[m.id] # 0

Sensible(p, q) == \A i \in 1..Len(q) : Valid(Applied(p, SubSeq(q, 1, i - 1)), q[i])

\* What the platform will show when it has seen every message: the nodes that
\* reported themselves, with the snapshot they reported unless a new one waits
\* for the next layout pass.
Promised(p) == /\ \A c \in Ids : p[c] # 0 <=> c \in shown
               /\ \A c \in shown \ newLayout : p[c] = snap[c]

Told == Sensible(platform, InFlight) /\ Promised(Applied(platform, InFlight))

\* A new version of the components K and of c, which become dirty: nothing
\* that is not dirty has changed.
LEMMA MarkingDirty ==
    ASSUME Types, Known, Kept, NEW K \in SUBSET Ids, NEW c \in Ids, MarkDirty(K, c), UNCHANGED dom,
           components' = components \cup K \cup {c},
           Root \notin Listed', Listed' \ components' \subseteq Children,
           Listed' = Listed \/ Root \in dirty'
    PROVE  Known' /\ Kept'
<1>1. /\ version' = [d \in Ids |-> IF d \in K \cup {c} THEN version[d] + 1 ELSE version[d]]
      /\ dirty' = dirty \cup K \cup {c}
    BY DEF MarkDirty
<1>2. /\ \A d \in K \cup {c} : version'[d] = version[d] + 1 /\ version[d] \in Nat
      /\ \A d \in Ids \ (K \cup {c}) : version'[d] = version[d]
    BY <1>1 DEF Types, DomOK
<1>3. Visited' = Visited
    BY DEF dom, Visited, Nodes
<1>4. Known'
    <2>1. \A d \in components' : version'[d] > 0
        BY <1>2 DEF Known, Types, DomOK
    <2> QED
        BY <2>1, <1>3 DEF Known, dom, Nodes
<1>5. \A d \in components' \ dirty' : d \in components \ dirty /\ version'[d] = version[d]
    BY <1>1, <1>2 DEF Types, DomOK
<1>6. \A d \in components' \ dirty' : d # Root => UpToDate(d)'
    BY <1>5 DEF Kept, UpToDate, dom, Nodes
<1>7. Root \notin dirty' => Nodes' = Listed' /\ (Root \in components' => snap'[Root] = version'[Root])
    BY <1>1, <1>5 DEF Kept, dom, Nodes
<1> QED
    BY <1>4, <1>6, <1>7 DEF Kept

LEMMA ChangesKeep ==
    ASSUME Types, Control, Known, Kept, Change
    PROVE  Known' /\ Kept'
<1>1. UNCHANGED dom
    BY DEF Change, Define, DefineRoot, DefineListRoot, Grow, Shrink, Touch, Changing
<1>2. /\ Root \in Ids /\ Children \subseteq Ids /\ Items \subseteq Ids /\ Root \notin Items
      /\ Root \notin Children /\ Children \cap Items = {}
    BY PipelineAssumption DEF Ids
<1>3. ~gone
    <2>1. At("body")
        BY DEF Change, Define, DefineRoot, DefineListRoot, Grow, Shrink, Touch, Changing
    <2> QED
        BY <2>1, TopDecides DEF AtBody, Opened
<1>4. /\ Root \notin Listed /\ Listed \ components \subseteq Children
      /\ bound => Root \in components
    BY <1>3 DEF Known, Types, DomOK
<1>5. CASE \E c \in Children : Define(c)
    <2>1. PICK c \in Children : Define(c)
        BY <1>5
    <2>2. MarkDirty({}, c) /\ components' = components \cup {c} /\ Listed' = Listed
        BY <2>1 DEF Define, Listed
    <2>3. components' = components \cup {} \cup {c} /\ Listed' \ components' \subseteq Children
        BY <1>4, <2>2
    <2> QED
        BY <1>1, <1>2, <1>4, <2>2, <2>3, MarkingDirty
<1>6. CASE \E K \in SUBSET Children : DefineRoot(K)
    <2>1. PICK K \in SUBSET Children : DefineRoot(K)
        BY <1>6
    <2>2. MarkDirty({}, Root) /\ components' = components \cup {Root} /\ Listed' = K
        BY <1>2, <2>1, ListOf DEF DefineRoot, Listed
    <2>3. components' = components \cup {} \cup {Root} /\ Root \in dirty'
        BY <2>2 DEF MarkDirty
    <2>4. Root \notin Listed' /\ Listed' \ components' \subseteq Children
        BY <1>2, <2>2
    <2> QED
        BY <1>1, <1>2, <2>2, <2>3, <2>4, MarkingDirty
<1>7. CASE \E K \in SUBSET Items : DefineListRoot(K) \/ Grow(K)
    <2>1. PICK K \in SUBSET Items : DefineListRoot(K) \/ Grow(K)
        BY <1>7
    <2>2. /\ MarkDirty(K, Root) /\ components' = components \cup K \cup {Root}
          /\ Listed' = K \/ Listed' = Listed \cup K
        <3>1. CASE DefineListRoot(K)
            BY <1>2, <3>1, ListOf DEF DefineListRoot, Listed
        <3>2. CASE Grow(K)
            <4>1. PICK items \in SetToSeqs(K) : listed' = listed \o items
                BY <3>2 DEF Grow
            <4>2. items \in Seq(Ids) /\ ToSet(items) = K /\ listed \in Seq(Ids)
                BY <1>2, <4>1, ListOf DEF Types, DomOK
            <4>3. Listed' = Listed \cup K
                BY <4>1, <4>2, MembersOfBoth DEF Listed
            <4> QED
                BY <1>3, <1>4, <3>2, <4>3 DEF Grow, Types
        <3> QED
            BY <2>1, <3>1, <3>2
    <2>3. Root \in dirty'
        BY <2>2 DEF MarkDirty
    <2>4. Root \notin Listed' /\ Listed' \ components' \subseteq Children
        BY <1>2, <1>4, <2>2
    <2>5. K \in SUBSET Ids
        BY <1>2
    <2> QED
        BY <1>1, <1>2, <2>2, <2>3, <2>4, <2>5, MarkingDirty
<1>8. CASE \E K \in SUBSET Items : Shrink(K)
    <2>1. PICK K \in SUBSET Items : Shrink(K)
        BY <1>8
    <2>2. /\ components' = components \ K /\ Listed' = Listed \ K
          /\ version' = [version EXCEPT ![Root] = @ + 1]
          /\ dirty' = (dirty \ K) \cup {Root}
        <3>1. Listed \ K \in SUBSET Ids
            BY Tree
        <3>2. listed' \in SetToSeqs(Listed \ K)
            BY <2>1 DEF Shrink, InOrder
        <3>3. Listed' = Listed \ K
            BY <3>1, <3>2, ListOf DEF Listed
        <3> QED
            BY <2>1, <3>3 DEF Shrink
    <2>3. /\ \A d \in Ids : d # Root => version'[d] = version[d]
          /\ \A d \in components' : version'[d] > 0
        BY <1>2, <2>2 DEF Known, Types, DomOK
    <2>4. Visited' = Visited
        BY <1>1 DEF dom, Visited, Nodes
    <2>5. Known'
        BY <1>1, <1>2, <1>4, <2>1, <2>2, <2>3, <2>4 DEF Known, dom, Nodes, Types, Shrink
    <2>6. \A d \in components' \ dirty' : d # Root => UpToDate(d)'
        BY <1>1, <2>2, <2>3 DEF Kept, UpToDate, dom, Nodes, Types, DomOK
    <2> QED
        BY <2>2, <2>5, <2>6 DEF Kept
<1>9. CASE \E c \in Ids : Touch(c)
    <2>1. PICK c \in Ids : Touch(c)
        BY <1>9
    <2>2. MarkDirty({}, c) /\ components' = components \cup {} \cup {c} /\ Listed' = Listed
        BY <2>1 DEF Touch, Listed
    <2>3. Listed' \ components' \subseteq Children
        BY <1>4, <2>2
    <2> QED
        BY <1>1, <1>4, <2>2, <2>3, MarkingDirty
<1> QED
    BY <1>5, <1>6, <1>7, <1>8, <1>9 DEF Change

\* Rebuilding a component changes no other one that is not marked dirty.
LEMMA Rebuilding ==
    ASSUME Types, NEW c \in components, Rebuild(c), UNCHANGED components
    PROVE  /\ \A d \in components' \ dirty' : (d \notin dirty \/ d = c) /\ version'[d] = version[d]
           /\ version'[c] = version[c]
           /\ \A d \in Ids : version'[d] >= version[d]
<1>1. CASE dirty' = dirty \ {c} /\ version' = version
    BY <1>1 DEF Types, DomOK
<1>2. ASSUME NEW e \in components \ {c}, dirty' = (dirty \ {c}) \cup {e},
             version' = [version EXCEPT ![e] = @ + 1] \/ version' = version
      PROVE  /\ \A d \in components' \ dirty' : (d \notin dirty \/ d = c) /\ version'[d] = version[d]
             /\ version'[c] = version[c]
             /\ \A d \in Ids : version'[d] >= version[d]
    <2>1. \A d \in Ids : d # e => version'[d] = version[d]
        BY <1>2 DEF Types, DomOK
    <2>2. version'[e] >= version[e]
        BY <1>2 DEF Types, DomOK
    <2>3. components \subseteq Ids /\ \A d \in Ids : version[d] \in Nat
        BY DEF Types, DomOK
    <2>4. \A d \in Ids : version'[d] >= version[d]
        BY ONLY <2>1, <2>2, <2>3
    <2>5. \A d \in components' \ dirty' : (d \notin dirty \/ d = c) /\ d \in Ids /\ d # e
        BY <1>2, <2>3
    <2>6. c \in Ids /\ c # e
        BY <2>3
    <2> QED
        BY ONLY <2>1, <2>4, <2>5, <2>6
<1> QED
    BY <1>1, <1>2 DEF Rebuild

LEMMA FlushesKeep ==
    ASSUME Types, Control, Known, Kept, FlushComponent
    PROVE  Known' /\ Kept'
<1>1. PICK n \in Nat, todo \in Seq(Ids) :
        /\ Head(todo) \in components \cap dirty /\ Rebuild(Head(todo)) /\ UpdateNode(Head(todo))
    BY FlushingOne
<1>2. PICK c \in components \cap dirty : Rebuild(c) /\ UpdateNode(c)
    BY <1>1
<1>3. UNCHANGED <<components, listed>>
    BY DEF FlushComponent
<1>4. /\ \A d \in components' \ dirty' : (d \notin dirty \/ d = c) /\ version'[d] = version[d]
      /\ version'[c] = version[c]
      /\ \A d \in Ids : version'[d] >= version[d]
    BY <1>2, <1>3, Rebuilding
<1>5. \A d \in components : version[d] \in Nat /\ version[d] > 0 /\ version'[d] > 0
    <2>1. \A d \in components : version[d] \in Nat /\ version'[d] \in Nat
        BY TypeSteps, ComponentTypes DEF Types, DomOK
    <2> QED
        BY <1>4, <2>1 DEF Known, Types, DomOK
<1>6. c \in Ids /\ Root \in Ids
    BY DEF Types, DomOK, Ids
<1>7. CASE c = Root
    <2>1. UpdateRootNode
        BY <1>2, <1>7 DEF UpdateNode
    <2>2. /\ Nodes' = Listed
          /\ snap' = [d \in Ids |-> IF d = Root THEN version[Root]
                                    ELSE IF d \in Taken THEN orphan[d]
                                    ELSE IF d \in Stay \cup Restored THEN snap[d] ELSE 0]
          /\ orphan' = [d \in Ids |-> IF d \in Taken THEN 0 ELSE orphan[d]]
          /\ shown' = shown \ Destroyed
          /\ lost' = lost \cup (Nodes \ Listed)
        BY <2>1 DEF UpdateRootNode, Nodes, Listed
    <2>3. /\ Taken \subseteq Listed \ Nodes /\ Listed \subseteq Ids /\ Nodes \subseteq Ids
          /\ \A d \in Listed \ Nodes : d \notin Taken => orphan[d] = 0
          /\ Root \notin Listed /\ Root \notin Nodes
          /\ Stay \subseteq Nodes \cap Listed /\ Restored \subseteq Nodes \cap Listed
          /\ \A d \in Listed \cap Nodes : d \in Stay \cup Restored \/ snap[d] = 0
        BY Tree DEF Known, Taken, Restored, Destroyed
    <2>4. /\ snap'[Root] = version[Root]
          /\ \A d \in Listed \cap Nodes : snap'[d] = snap[d] /\ orphan'[d] = orphan[d]
          /\ \A d \in Listed \ Nodes : snap'[d] = orphan[d] /\ orphan'[d] = 0
          /\ \A d \in Ids \ Listed : orphan'[d] = orphan[d] /\ (d # Root => snap'[d] = 0)
        BY <1>6, <2>2, <2>3
    <2>5. Visited' = {Root} \cup {d \in Listed : snap'[d] # 0}
        BY <1>5, <1>7, <2>2, <2>4 DEF Visited
    <2>6. Known'
        <3>1. shown' \subseteq Visited'
            <4>1. \A d \in shown : d = Root \/ (d \in Nodes /\ snap[d] # 0)
                BY DEF Known, Visited
            <4>2. ASSUME NEW d \in shown', d # Root
                  PROVE  d \in Listed /\ snap'[d] # 0
                <5>1. d \in Nodes /\ snap[d] # 0 /\ d \in Listed
                    BY <2>2, <2>3, <4>1, <4>2 DEF Destroyed
                <5> QED
                    BY <2>4, <5>1
            <4> QED
                BY <2>5, <4>2
        <3>2. \A d \in Children \ components : snap'[d] = 0 /\ orphan'[d] = 0
            BY <1>6, <1>7, <2>3, <2>4 DEF Known, Ids
        <3>3. \A d \in Nodes' : orphan'[d] = 0
            BY <2>2, <2>4 DEF Known
        <3>4. \A d \in Ids \ Nodes' : d # Root => snap'[d] = 0
            BY <2>2, <2>4
        <3>5. orphan'[Root] = 0
            BY <1>6, <2>3, <2>4 DEF Known
        <3> QED
            BY <1>2, <1>3, <1>5, <1>7, <2>2, <3>1, <3>2, <3>3, <3>4, <3>5 DEF Known, Listed
    <2>7. ASSUME NEW d \in components' \ dirty', d # Root
          PROVE  UpToDate(d)'
        <3>1. d \in components \ dirty /\ version'[d] = version[d] /\ UpToDate(d) /\ d \in Ids
            BY <1>3, <1>4, <1>7, <2>7 DEF Kept, Types, DomOK
        <3>2. d \in Nodes => orphan[d] = 0
            BY DEF Known
        <3> QED
            BY <2>2, <2>4, <3>1, <3>2 DEF UpToDate
    <2> QED
        BY <1>3, <1>4, <1>7, <2>2, <2>4, <2>6, <2>7 DEF Kept, Listed
<1>8. CASE c # Root
    <2>1. UpdateChildNode(c)
        BY <1>2, <1>8 DEF UpdateNode
    <2>2. /\ Nodes' = Nodes /\ shown' = shown /\ lost' = lost \ {c}
          /\ \A d \in Ids \ {c} : snap'[d] = snap[d] /\ orphan'[d] = orphan[d]
          /\ c \in Nodes => snap'[c] = version[c] /\ orphan'[c] = orphan[c]
          /\ c \notin Nodes => orphan'[c] = version[c] /\ snap'[c] = snap[c]
        BY <1>6, <2>1 DEF UpdateChildNode, Nodes, Types, DomOK
    <2>3. /\ snap'[Root] = snap[Root] /\ orphan'[Root] = orphan[Root]
        BY <1>6, <1>8, <2>2
    <2>4. Visited \subseteq Visited'
        BY <1>2, <1>5, <2>2, <2>3, Tree DEF Visited, Types, DomOK
    <2>5. Known'
        <3>1. shown' \subseteq Visited'
            BY <2>2, <2>4 DEF Known
        <3>2. \A d \in Children \ components : snap'[d] = 0 /\ orphan'[d] = 0
            BY <1>2, <2>2 DEF Known, Ids
        <3>3. \A d \in Nodes' : orphan'[d] = 0
            BY <1>2, <1>6, <2>2, Tree DEF Known, Types, DomOK
        <3>4. \A d \in Ids \ Nodes' : d # Root => snap'[d] = 0
            BY <1>2, <2>2 DEF Known
        <3>5. orphan'[Root] = 0 /\ (Root \notin components => snap'[Root] = 0)
            BY <2>3 DEF Known
        <3> QED
            BY <1>3, <1>5, <2>2, <3>1, <3>2, <3>3, <3>4, <3>5 DEF Known, Listed
    <2>6. ASSUME NEW d \in components' \ dirty', d # Root
          PROVE  UpToDate(d)'
        <3>1. d \in components /\ version'[d] = version[d] /\ d \in Ids
              /\ (d # c => UpToDate(d))
            BY <1>3, <1>4, <2>6 DEF Kept, Types, DomOK
        <3> QED
            BY <2>2, <3>1 DEF UpToDate
    <2>7. Root \notin dirty' => Nodes' = Listed' /\ (Root \in components' => snap'[Root] = version'[Root])
        <3>1. ASSUME Root \notin dirty' PROVE Root \notin dirty
            BY <1>2, <1>8, <3>1 DEF Rebuild
        <3> QED
            BY <1>3, <1>4, <2>2, <2>3, <3>1 DEF Kept, Listed
    <2> QED
        BY <2>5, <2>6, <2>7 DEF Kept, Listed
<1> QED
    BY <1>7, <1>8

\* What a component has in its node, or set aside for it, is up to date unless
\* it is dirty.
LEMMA KeptSteps ==
    ASSUME Types, Control, Known, Kept, [Next]_vars
    PROVE  Known' /\ Kept'
<1>1. CASE Change
    BY <1>1, ChangesKeep
<1>2. CASE FlushComponent
    BY <1>2, FlushesKeep
<1>3. CASE Layout
    <2>1. /\ shown' = shown \cup Visited
          /\ UNCHANGED <<model, nodes, snap, orphan, lost>>
        BY <1>3 DEF Layout
    <2>2. Visited' = Visited
        BY <2>1 DEF Visited, Nodes
    <2> QED
        BY <2>1, <2>2 DEF Known, Kept, UpToDate, model, Nodes, Listed
<1>4. CASE DestroySurface
    <2>1. /\ components' = {} /\ listed' = <<>> /\ nodes' = <<>> /\ snap' = None /\ orphan' = None
          /\ shown' = {}
        BY <1>4 DEF DestroySurface
    <2>2. \A d \in Ids : snap'[d] = 0 /\ orphan'[d] = 0
        BY <2>1 DEF None
    <2>3. Root \in Ids /\ Children \subseteq Ids
        BY DEF Ids
    <2>4. Nodes' = {} /\ Listed' = {}
        BY <2>1 DEF Nodes, Listed, ToSet
    <2> QED
        BY <2>1, <2>2, <2>3, <2>4 DEF Known, Kept
<1>5. CASE UNCHANGED <<model, dom>>
    <2>1. Visited' = Visited
        BY <1>5 DEF Visited, Nodes, dom
    <2> QED
        BY <1>5, <2>1 DEF Known, Kept, UpToDate, model, dom, Nodes, Listed
<1> QED
    BY <1>1, <1>2, <1>3, <1>4, <1>5 DEF Next, Run, BeginUpdate, BeginNoUpdate, BeginLayoutNow,
       StartOperation, BodyEnd, EndBatch, CloseBatch, Flush, Flushed, CollectDirty, SkipComponent,
       RequestLayout, Emit, TakeDispatches, DispatchRun, Return, vars
-----------------------------------------------------------------------------
(* What a platform shows that applies messages. *)

NoneAbout(q, c)    == \A i \in 1..Len(q) : q[i].id # c
LastAbout(q, c, k) == q[k].id = c /\ \A i \in 1..Len(q) : i > k => q[i].id # c

\* The last message about a component decides what the platform shows of it.
LEMMA Applying ==
    \A p \in [Ids -> Nat], q \in Seq(Messages), c \in Ids :
        /\ NoneAbout(q, c) => Applied(p, q)[c] = p[c]
        /\ \A k \in 1..Len(q) : LastAbout(q, c, k) => Applied(p, q)[c] = q[k].ver
        /\ NoneAbout(q, c) \/ \E k \in 1..Len(q) : LastAbout(q, c, k)
<1> TAKE p \in [Ids -> Nat], q \in Seq(Messages), c \in Ids
<1> DEFINE about == {i \in DOMAIN q : q[i].id = c}
<1>1. /\ Len(q) \in Nat /\ DOMAIN q = 1..Len(q) /\ about \in SUBSET (1..Len(q))
      /\ \A i \in 1..Len(q) : i \in about <=> q[i].id = c
    OBVIOUS
<1>2. Applied(p, q)[c] = IF about = {} THEN p[c] ELSE q[Max(about)].ver
    BY DEF Applied
<1>3. about # {} => Max(about) \in about /\ \A i \in about : i <= Max(about)
    BY <1>1, LastPosition
<1> HIDE DEF about
<1>4. (\A i \in 1..Len(q) : q[i].id # c) => about = {}
    BY <1>1
<1>5. ASSUME NEW k \in 1..Len(q), q[k].id = c, \A i \in 1..Len(q) : i > k => q[i].id # c
      PROVE  about # {} /\ Max(about) = k
    <2>1. k \in about
        BY <1>1, <1>5
    <2>2. Max(about) \in 1..Len(q) /\ k <= Max(about) /\ q[Max(about)].id = c
        BY <1>1, <1>3, <2>1
    <2> QED
        BY <1>1, <1>5, <2>1, <2>2
<1>6. ASSUME about # {}
      PROVE  \E k \in 1..Len(q) : q[k].id = c /\ \A i \in 1..Len(q) : i > k => q[i].id # c
    <2>1. /\ Max(about) \in 1..Len(q) /\ q[Max(about)].id = c
          /\ \A i \in about : i <= Max(about)
        BY <1>1, <1>3, <1>6
    <2>2. \A i \in 1..Len(q) : i > Max(about) => q[i].id # c
        BY <1>1, <2>1
    <2> QED
        BY <2>1, <2>2
<1> QED
    BY <1>1, <1>2, <1>4, <1>5, <1>6 DEF NoneAbout, LastAbout

\* A component no message is about is shown as it was.
LEMMA NotTold ==
    \A p \in [Ids -> Nat], q \in Seq(Messages), c \in Ids :
        NoneAbout(q, c) => Applied(p, q)[c] = p[c]
<1> TAKE p \in [Ids -> Nat], q \in Seq(Messages), c \in Ids
<1> QED
    BY ONLY Applying

\* No message changes nothing.
LEMMA ApplyingNone ==
    ASSUME NEW p \in [Ids -> Nat]
    PROVE  Applied(p, <<>>) = p
<1>1. <<>> \in Seq(Messages) /\ Len(<<>>) = 0
    OBVIOUS
<1>2. Applied(p, <<>>) \in [Ids -> Nat]
    BY <1>1, AppliedType
<1>3. \A c \in Ids : NoneAbout(<<>>, c)
    BY <1>1 DEF NoneAbout
<1>4. \A c \in Ids : Applied(p, <<>>)[c] = p[c]
    BY ONLY <1>1, <1>3, NotTold
<1> QED
    BY <1>2, <1>4

\* Messages applied in two batches.
LEMMA ApplyingBoth ==
    ASSUME NEW p \in [Ids -> Nat], NEW q \in Seq(Messages), NEW s \in Seq(Messages)
    PROVE  Applied(p, q \o s) = Applied(Applied(p, q), s)
<1>1. PICK r \in [Ids -> Nat] : r = Applied(p, q)
    BY AppliedType
<1>2. /\ q \o s \in Seq(Messages) /\ Len(q \o s) = Len(q) + Len(s)
      /\ \A i \in 1..Len(q) + Len(s) : (q \o s)[i] = IF i <= Len(q) THEN q[i] ELSE s[i - Len(q)]
      /\ Len(q) \in Nat /\ Len(s) \in Nat
    BY ConcatProperties
<1>3. /\ \A i \in 1..Len(q) : i \in 1..Len(q \o s) /\ (q \o s)[i] = q[i]
      /\ \A i \in 1..Len(s) : Len(q) + i \in 1..Len(q \o s) /\ (q \o s)[Len(q) + i] = s[i]
      /\ \A i \in 1..Len(q \o s) : i > Len(q) => i - Len(q) \in 1..Len(s) /\ (q \o s)[i] = s[i - Len(q)]
      /\ \A i \in 1..Len(q \o s) : i <= Len(q) => i \in 1..Len(q)
    <2>1. \A i \in 1..Len(q) : i \in 1..Len(q \o s) /\ (q \o s)[i] = q[i]
        BY <1>2
    <2>2. ASSUME NEW i \in 1..Len(s)
          PROVE  Len(q) + i \in 1..Len(q \o s) /\ (q \o s)[Len(q) + i] = s[i]
        <3>1. /\ Len(q) + i \in 1..Len(q) + Len(s) /\ ~(Len(q) + i <= Len(q))
              /\ (Len(q) + i) - Len(q) = i
            BY <1>2
        <3> QED
            BY <1>2, <3>1
    <2>3. /\ \A i \in 1..Len(q \o s) : i > Len(q) => i - Len(q) \in 1..Len(s)
                                                      /\ (q \o s)[i] = s[i - Len(q)]
          /\ \A i \in 1..Len(q \o s) : i <= Len(q) => i \in 1..Len(q)
        BY <1>2
    <2> QED
        BY <2>1, <2>2, <2>3
<1>4. ASSUME NEW c \in Ids
      PROVE  Applied(p, q \o s)[c] = Applied(r, s)[c]
    <2>1. CASE \E k \in 1..Len(s) : LastAbout(s, c, k)
        <3>1. PICK k \in 1..Len(s) : LastAbout(s, c, k)
            BY <2>1
        <3>2. Applied(r, s)[c] = s[k].ver
            BY ONLY <3>1, Applying
        <3>3. Len(q) + k \in 1..Len(q \o s) /\ (q \o s)[Len(q) + k] = s[k]
            BY <1>3
        <3>4. ASSUME NEW i \in 1..Len(q \o s), i > Len(q) + k
              PROVE  (q \o s)[i].id # c
            <4>1. i > Len(q) /\ i - Len(q) > k
                BY <1>2, <3>4
            <4> QED
                BY <1>3, <3>1, <4>1 DEF LastAbout
        <3>5. LastAbout(q \o s, c, Len(q) + k)
            BY ONLY <3>1, <3>3, <3>4 DEF LastAbout
        <3>6. Applied(p, q \o s)[c] = (q \o s)[Len(q) + k].ver
            BY ONLY <1>2, <3>3, <3>5, Applying
        <3> QED
            BY <3>2, <3>3, <3>6
    <2>2. CASE NoneAbout(s, c)
        <3>1. Applied(r, s)[c] = r[c]
            BY ONLY <2>2, NotTold
        <3>2. CASE NoneAbout(q, c)
            <4>1. r[c] = p[c]
                BY ONLY <1>1, <3>2, NotTold
            <4>2. NoneAbout(q \o s, c)
                BY <1>2, <1>3, <2>2, <3>2 DEF NoneAbout
            <4>3. Applied(p, q \o s)[c] = p[c]
                <5>1. PICK b \in Seq(Messages) : b = q \o s
                    BY <1>2
                <5>2. Applied(p, b)[c] = p[c]
                    BY ONLY <4>2, <5>1, NotTold
                <5> QED
                    BY <5>1, <5>2
            <4> QED
                BY <3>1, <4>1, <4>3
        <3>3. CASE \E k \in 1..Len(q) : LastAbout(q, c, k)
            <4>1. PICK k \in 1..Len(q) : LastAbout(q, c, k)
                BY <3>3
            <4>2. r[c] = q[k].ver
                BY ONLY <1>1, <4>1, Applying
            <4>3. \A i \in 1..Len(q \o s) : i > k => (q \o s)[i].id # c
                BY <1>2, <1>3, <2>2, <4>1 DEF LastAbout, NoneAbout
            <4>4. k \in 1..Len(q \o s) /\ (q \o s)[k] = q[k]
                BY <1>3
            <4>5. LastAbout(q \o s, c, k)
                BY ONLY <4>1, <4>3, <4>4 DEF LastAbout
            <4>6. Applied(p, q \o s)[c] = (q \o s)[k].ver
                BY ONLY <1>2, <4>4, <4>5, Applying
            <4> QED
                BY <3>1, <4>2, <4>4, <4>6
        <3> QED
            BY ONLY <3>2, <3>3, Applying
    <2> QED
        BY ONLY <1>1, <2>1, <2>2, Applying
<1>5. Applied(p, q \o s) \in [Ids -> Nat] /\ Applied(r, s) \in [Ids -> Nat]
    BY <1>2, AppliedType
<1>6. Applied(p, q \o s) = Applied(r, s)
    BY <1>4, <1>5
<1> QED
    BY <1>1, <1>6

\* The messages before a position of two batches.
LEMMA Before ==
    ASSUME NEW q \in Seq(Messages), NEW s \in Seq(Messages)
    PROVE  /\ \A i \in 1..Len(q) : /\ SubSeq(q \o s, 1, i - 1) = SubSeq(q, 1, i - 1)
                                   /\ (q \o s)[i] = q[i]
           /\ \A i \in 1..Len(s) : /\ SubSeq(q \o s, 1, (Len(q) + i) - 1) = q \o SubSeq(s, 1, i - 1)
                                   /\ (q \o s)[Len(q) + i] = s[i]
           /\ \A i \in 1..Len(q) : SubSeq(q, 1, i - 1) \in Seq(Messages)
<1>1. /\ q \o s \in Seq(Messages) /\ Len(q \o s) = Len(q) + Len(s)
      /\ \A i \in 1..Len(q) + Len(s) : (q \o s)[i] = IF i <= Len(q) THEN q[i] ELSE s[i - Len(q)]
      /\ Len(q) \in Nat /\ Len(s) \in Nat
    BY ConcatProperties
<1>2. \A t \in Seq(Messages) : \A n \in 0..Len(t) :
         /\ SubSeq(t, 1, n) \in Seq(Messages) /\ Len(SubSeq(t, 1, n)) = n
         /\ \A i \in 1..n : SubSeq(t, 1, n)[i] = t[i]
    OBVIOUS
<1>3. ASSUME NEW i \in 1..Len(q)
      PROVE  /\ SubSeq(q \o s, 1, i - 1) = SubSeq(q, 1, i - 1) /\ (q \o s)[i] = q[i]
             /\ SubSeq(q, 1, i - 1) \in Seq(Messages)
    <2>1. i - 1 \in 0..Len(q) /\ i - 1 \in 0..Len(q \o s)
        BY <1>1
    <2>2. PICK a \in Seq(Messages), b \in Seq(Messages) :
             a = SubSeq(q \o s, 1, i - 1) /\ b = SubSeq(q, 1, i - 1)
        BY <1>1, <1>2, <2>1
    <2>3. /\ Len(a) = i - 1 /\ Len(b) = i - 1
          /\ \A j \in 1..i - 1 : a[j] = (q \o s)[j] /\ b[j] = q[j]
        BY <1>1, <1>2, <2>1, <2>2
    <2>4. \A j \in 1..Len(a) : a[j] = b[j]
        BY <1>1, <2>3
    <2>5. a = b
        BY <2>3, <2>4, SeqEqual
    <2> QED
        BY <1>1, <2>2, <2>5
<1>4. ASSUME NEW i \in 1..Len(s)
      PROVE  /\ SubSeq(q \o s, 1, (Len(q) + i) - 1) = q \o SubSeq(s, 1, i - 1)
             /\ (q \o s)[Len(q) + i] = s[i]
    <2>1. /\ (Len(q) + i) - 1 \in 0..Len(q \o s) /\ i - 1 \in 0..Len(s)
          /\ Len(q) + i \in 1..Len(q) + Len(s) /\ ~(Len(q) + i <= Len(q)) /\ (Len(q) + i) - Len(q) = i
          /\ (Len(q) + i) - 1 = Len(q) + (i - 1)
        BY <1>1
    <2>2. PICK a \in Seq(Messages), b \in Seq(Messages) :
             a = SubSeq(q \o s, 1, (Len(q) + i) - 1) /\ b = SubSeq(s, 1, i - 1)
        BY <1>1, <1>2, <2>1
    <2>3. /\ Len(a) = Len(q) + (i - 1) /\ Len(b) = i - 1
          /\ \A j \in 1..Len(q) + (i - 1) : a[j] = (q \o s)[j]
          /\ \A j \in 1..i - 1 : b[j] = s[j]
        BY <1>1, <1>2, <2>1, <2>2
    <2>4. /\ q \o b \in Seq(Messages) /\ Len(q \o b) = Len(q) + (i - 1)
          /\ \A j \in 1..Len(q) + (i - 1) : (q \o b)[j] = IF j <= Len(q) THEN q[j] ELSE b[j - Len(q)]
        BY <2>3, ConcatProperties
    <2>5. ASSUME NEW j \in 1..Len(q) + (i - 1)
          PROVE  a[j] = (q \o b)[j]
        <3>1. j \in 1..Len(q) + Len(s)
            BY <1>1
        <3>2. j > Len(q) => j - Len(q) \in 1..i - 1
            BY <1>1
        <3> QED
            BY <1>1, <2>3, <2>4, <3>1, <3>2
    <2>6. a = q \o b
        BY <2>3, <2>4, <2>5, SeqEqual
    <2> QED
        BY <1>1, <2>1, <2>2, <2>6
<1> QED
    BY <1>3, <1>4

\* Messages make sense when those before them do, and they to a platform that
\* has applied those before.
LEMMA SensibleBoth ==
    ASSUME NEW p \in [Ids -> Nat], NEW q \in Seq(Messages), NEW s \in Seq(Messages)
    PROVE  Sensible(p, q \o s) <=> Sensible(p, q) /\ Sensible(Applied(p, q), s)
<1>1. Len(q \o s) = Len(q) + Len(s) /\ Len(q) \in Nat /\ Len(s) \in Nat
    BY ConcatProperties
<1>2. ASSUME NEW i \in 1..Len(q)
      PROVE  Valid(Applied(p, SubSeq(q \o s, 1, i - 1)), (q \o s)[i])
                <=> Valid(Applied(p, SubSeq(q, 1, i - 1)), q[i])
    BY Before
<1>3. ASSUME NEW i \in 1..Len(s)
      PROVE  Valid(Applied(p, SubSeq(q \o s, 1, (Len(q) + i) - 1)), (q \o s)[Len(q) + i])
                <=> Valid(Applied(Applied(p, q), SubSeq(s, 1, i - 1)), s[i])
    <2>1. SubSeq(s, 1, i - 1) \in Seq(Messages)
        OBVIOUS
    <2>2. Applied(p, q \o SubSeq(s, 1, i - 1)) = Applied(Applied(p, q), SubSeq(s, 1, i - 1))
        BY <2>1, ApplyingBoth
    <2> QED
        BY <2>2, Before
<1>4. \A i \in 1..Len(q) : i \in 1..Len(q \o s)
    BY <1>1
<1>5. \A i \in 1..Len(s) : Len(q) + i \in 1..Len(q \o s)
    BY <1>1
<1>6. \A j \in 1..Len(q \o s) : j \in 1..Len(q) \/ \E i \in 1..Len(s) : j = Len(q) + i
    <2> TAKE j \in 1..Len(q \o s)
    <2>1. CASE j <= Len(q)
        BY <1>1, <2>1
    <2>2. CASE j > Len(q)
        <3>1. j - Len(q) \in 1..Len(s) /\ j = Len(q) + (j - Len(q))
            BY <1>1, <2>2
        <3> QED
            BY <3>1
    <2> QED
        BY <1>1, <2>1, <2>2
<1> QED
    BY <1>2, <1>3, <1>4, <1>5, <1>6 DEF Sensible

\* One message about each of some components: what the platform shows after
\* the first j of them.
LEMMA Reports ==
    ASSUME NEW S \in SUBSET Ids, NEW s \in SetToSeqs(S), NEW w \in Seq(Messages),
           NEW p \in [Ids -> Nat], Len(w) = Len(s), \A i \in 1..Len(s) : w[i].id = s[i]
    PROVE  \A j \in 0..Len(w) :
              /\ SubSeq(w, 1, j) \in Seq(Messages)
              /\ \A c \in Ids : (\A i \in 1..j : s[i] # c) => Applied(p, SubSeq(w, 1, j))[c] = p[c]
              /\ \A i \in 1..j : Applied(p, SubSeq(w, 1, j))[s[i]] = w[i].ver
<1> TAKE j \in 0..Len(w)
<1>1. /\ s \in Seq(Ids) /\ Len(s) \in Nat
      /\ \A i, k \in 1..Len(s) : s[i] = s[k] => i = k
    <2>1. S \in SUBSET Ids /\ s \in SetToSeqs(S)
        OBVIOUS
    <2>2. s \in Seq(Ids) /\ \A i, k \in 1..Len(s) : s[i] = s[k] => i = k
        BY ONLY <2>1, Enumerations
    <2> QED
        BY ONLY <2>2
<1>2. \A i \in 1..Len(s) : s[i] \in Ids
    BY <1>1
<1>3. PICK b \in Seq(Messages) :
        b = SubSeq(w, 1, j) /\ Len(b) = j /\ \A i \in 1..j : b[i] = w[i]
    <2>1. \A t \in Seq(Messages) : \A n \in 0..Len(t) :
             /\ SubSeq(t, 1, n) \in Seq(Messages) /\ Len(SubSeq(t, 1, n)) = n
             /\ \A i \in 1..n : SubSeq(t, 1, n)[i] = t[i]
        OBVIOUS
    <2> QED
        BY <2>1
<1>4. \A i \in 1..j : i \in 1..Len(s) /\ b[i] = w[i] /\ b[i].id = s[i]
    BY <1>1, <1>3
<1>5. ASSUME NEW c \in Ids, \A i \in 1..j : s[i] # c
      PROVE  Applied(p, b)[c] = p[c]
    <2>1. NoneAbout(b, c)
        BY <1>3, <1>4, <1>5 DEF NoneAbout
    <2> QED
        BY ONLY <2>1, <1>3, Applying
<1>6. ASSUME NEW i \in 1..j
      PROVE  Applied(p, b)[s[i]] = w[i].ver
    <2>1. LastAbout(b, s[i], i)
        BY <1>1, <1>3, <1>4 DEF LastAbout
    <2>2. s[i] \in Ids /\ i \in 1..Len(b) /\ b[i] = w[i]
        BY <1>2, <1>3, <1>4
    <2>3. Applied(p, b)[s[i]] = b[i].ver
        BY ONLY <2>1, <2>2, Applying
    <2> QED
        BY <2>2, <2>3
<1> QED
    BY <1>3, <1>5, <1>6

\* Removing components that are shown makes sense, in any order.
LEMMA Removing ==
    ASSUME Types, NEW S \in SUBSET Ids, NEW s \in SetToSeqs(S), NEW p \in [Ids -> Nat],
           \A c \in S : p[c] # 0
    PROVE  /\ Sensible(p, Removals(s))
           /\ \A c \in Ids : Applied(p, Removals(s))[c] = IF c \in S THEN 0 ELSE p[c]
<1>1. /\ s \in Seq(Ids) /\ s \in Seq(S) /\ Len(s) \in Nat
      /\ \A i, k \in 1..Len(s) : s[i] = s[k] => i = k
      /\ \A c \in S : \E i \in 1..Len(s) : s[i] = c
    BY Enumerations
<1>2. \A i \in 1..Len(s) : s[i] \in S /\ s[i] \in Ids
    BY <1>1
<1>3. PICK w \in Seq(Messages) :
        /\ w = Removals(s) /\ Len(w) = Len(s)
        /\ \A i \in 1..Len(s) : w[i] = Message("remove", s[i], 0)
    BY <1>1, MessagesOf
<1>4. \A i \in 1..Len(s) : w[i].id = s[i] /\ w[i].ver = 0 /\ w[i].kind = "remove"
    <2>1. \A c, v : /\ Message("remove", c, v).id = c /\ Message("remove", c, v).ver = v
                    /\ Message("remove", c, v).kind = "remove"
        BY DEF Message
    <2> QED
        BY <1>3, <2>1
<1>5. \A j \in 0..Len(w) :
          /\ \A c \in Ids : (\A i \in 1..j : s[i] # c) => Applied(p, SubSeq(w, 1, j))[c] = p[c]
          /\ \A i \in 1..j : Applied(p, SubSeq(w, 1, j))[s[i]] = w[i].ver
    BY ONLY <1>3, <1>4, Reports
<1>6. ASSUME NEW i \in 1..Len(w)
      PROVE  Valid(Applied(p, SubSeq(w, 1, i - 1)), w[i])
    <2>1. /\ i \in 1..Len(s) /\ i - 1 \in 0..Len(w)
          /\ \A k \in 1..i - 1 : k \in 1..Len(s) /\ k # i
        BY <1>1, <1>3
    <2>2. \A k \in 1..i - 1 : s[k] # s[i]
        BY <1>1, <2>1
    <2>3. Applied(p, SubSeq(w, 1, i - 1))[s[i]] = p[s[i]]
        BY <1>2, <1>5, <2>1, <2>2
    <2> QED
        BY <1>2, <1>4, <2>1, <2>3 DEF Valid
<1>7. SubSeq(w, 1, Len(w)) = w /\ Len(w) \in 0..Len(w)
    BY SubSeqFull
<1>8. ASSUME NEW c \in Ids
      PROVE  Applied(p, w)[c] = IF c \in S THEN 0 ELSE p[c]
    <2>1. CASE c \in S
        <3>1. PICK i \in 1..Len(w) : s[i] = c
            BY <1>1, <1>3, <2>1
        <3>2. Applied(p, w)[s[i]] = w[i].ver
            BY <1>5, <1>7
        <3> QED
            BY <1>3, <1>4, <2>1, <3>1, <3>2
    <2>2. CASE c \notin S
        <3>1. \A i \in 1..Len(w) : s[i] # c
            BY <1>2, <1>3, <2>2
        <3> QED
            BY <1>5, <1>7, <2>2, <3>1
    <2> QED
        BY <2>1, <2>2
<1> QED
    BY <1>3, <1>6, <1>8 DEF Sensible

\* What a layout pass reports makes sense to a platform that shows what it was
\* promised, and is what the platform shows then.
LEMMA Reporting ==
    ASSUME Types, Known, NEW S \in SUBSET Visited, NEW s \in RootFirst(S), NEW p \in [Ids -> Nat],
           Promised(p), Visited \ shown \subseteq S
    PROVE  /\ Sensible(p, Changes(s))
           /\ \A c \in Ids : Applied(p, Changes(s))[c] = IF c \in S THEN snap[c] ELSE p[c]
<1>1. S \in SUBSET Ids
    BY Tree DEF Visited, Types, DomOK, Ids
<1>2. /\ s \in SetToSeqs(S) /\ s \in Seq(Ids) /\ Len(s) \in Nat
      /\ \A i, k \in 1..Len(s) : s[i] = s[k] => i = k
      /\ \A c \in S : \E i \in 1..Len(s) : s[i] = c
      /\ s \in Seq(S)
      /\ Root \in S => s[1] = Root
    <2>1. s \in SetToSeqs(S) /\ (Root \in S => s[1] = Root)
        BY ONLY <1>1, RootFirstEnumerates
    <2> QED
        BY ONLY <1>1, <2>1, Enumerations
<1>3. \A i \in 1..Len(s) : s[i] \in S /\ s[i] \in Ids /\ snap[s[i]] # 0
    <2>1. \A c \in Visited : snap[c] # 0
        BY DEF Visited
    <2>2. \A i \in 1..Len(s) : s[i] \in S
        BY <1>2, ElementOfSeq
    <2> QED
        BY <1>1, <2>1, <2>2
<1>4. PICK w \in Seq(Messages) :
        /\ w = Changes(s) /\ Len(w) = Len(s)
        /\ \A i \in 1..Len(s) :
              w[i] = Message(IF s[i] \in shown THEN "update" ELSE "add", s[i], snap[s[i]])
    BY <1>2, MessagesOf
<1>5. \A i \in 1..Len(s) :
         /\ w[i].id = s[i] /\ w[i].ver = snap[s[i]] /\ w[i].kind # "remove"
         /\ w[i].kind = "add" <=> s[i] \notin shown
    <2>1. \A k, c, v : /\ Message(k, c, v).id = c /\ Message(k, c, v).ver = v
                       /\ Message(k, c, v).kind = k
        BY DEF Message
    <2> QED
        BY <1>4, <2>1
<1>6. \A j \in 0..Len(w) :
          /\ \A c \in Ids : (\A i \in 1..j : s[i] # c) => Applied(p, SubSeq(w, 1, j))[c] = p[c]
          /\ \A i \in 1..j : Applied(p, SubSeq(w, 1, j))[s[i]] = w[i].ver
    <2>1. s \in SetToSeqs(S) /\ Len(w) = Len(s) /\ \A i \in 1..Len(s) : w[i].id = s[i]
        BY <1>2, <1>4, <1>5
    <2> QED
        BY ONLY <1>1, <2>1, Reports
<1>7. ASSUME NEW i \in 1..Len(w)
      PROVE  Valid(Applied(p, SubSeq(w, 1, i - 1)), w[i])
    <2>1. /\ i \in 1..Len(s) /\ i - 1 \in 0..Len(w) /\ i \in Nat /\ i >= 1
          /\ \A k \in 1..i - 1 : k \in 1..Len(s) /\ k # i
        BY <1>2, <1>4
    <2> DEFINE b == Applied(p, SubSeq(w, 1, i - 1))
    <2>2. \A k \in 1..i - 1 : s[k] # s[i]
        BY <1>2, <2>1
    <2>3. b[s[i]] = p[s[i]]
        BY <1>3, <1>6, <2>1, <2>2
    <2>4. ASSUME s[i] # Root
          PROVE  b[Root] # 0
        <3>1. s[i] \in Visited /\ Root \in Visited /\ Root \in Ids
            BY <1>3, <2>1 DEF Visited, Ids
        <3>2. CASE Root \in S
            <4>1. s[1] = Root
                BY <1>2, <3>2
            <4>2. 1 \in 1..i - 1 /\ 1 \in 1..Len(s)
                BY <2>1, <2>4, <4>1
            <4>3. b[s[1]] = w[1].ver
                BY <1>6, <2>1, <4>2
            <4> QED
                BY <1>3, <1>5, <4>1, <4>2, <4>3
        <3>3. CASE Root \notin S
            <4>1. Root \in shown
                BY <3>1, <3>3
            <4>2. p[Root] # 0
                BY <3>1, <4>1 DEF Promised
            <4>3. \A k \in 1..i - 1 : s[k] # Root
                BY <1>3, <2>1, <3>3
            <4>4. b[Root] = p[Root]
                BY <1>6, <2>1, <3>1, <4>3
            <4> QED
                BY <4>2, <4>4
        <3> QED
            BY <3>2, <3>3
    <2>5. p[s[i]] # 0 <=> s[i] \in shown
        BY <1>3, <2>1 DEF Promised
    <2> HIDE DEF b
    <2>6. Valid(b, w[i])
        BY <1>3, <1>5, <2>1, <2>3, <2>4, <2>5 DEF Valid
    <2> QED
        BY <2>6 DEF b
<1>8. SubSeq(w, 1, Len(w)) = w /\ Len(w) \in 0..Len(w)
    BY SubSeqFull
<1>9. ASSUME NEW c \in Ids
      PROVE  Applied(p, w)[c] = IF c \in S THEN snap[c] ELSE p[c]
    <2>1. CASE c \in S
        <3>1. PICK i \in 1..Len(w) : s[i] = c
            BY <1>2, <1>4, <2>1
        <3>2. Applied(p, w)[s[i]] = w[i].ver
            BY <1>6, <1>8
        <3> QED
            BY <1>4, <1>5, <2>1, <3>1, <3>2
    <2>2. CASE c \notin S
        <3>1. \A i \in 1..Len(w) : s[i] # c
            BY <1>3, <1>4, <2>2
        <3>2. Applied(p, SubSeq(w, 1, Len(w)))[c] = p[c]
            BY ONLY <1>6, <1>8, <1>9, <3>1
        <3> QED
            BY ONLY <1>8, <2>2, <3>2
    <2> QED
        BY <2>1, <2>2
<1> QED
    BY <1>4, <1>7, <1>9 DEF Sensible
-----------------------------------------------------------------------------
(* The messages on the call stack. *)

\* TodoOf, for any stack.
TodoIn(s, at) ==
    LET calls == {i \in DOMAIN s : s[i].at = at}
    IN  IF calls = {} THEN <<>> ELSE s[Min(calls)].todo

NoTodo(s)      == TodoIn(s, "emit") = <<>> /\ TodoIn(s, "dispatch") = <<>>
SameTodo(s, t) == TodoIn(s, "emit") = TodoIn(t, "emit") /\ TodoIn(s, "dispatch") = TodoIn(t, "dispatch")

Quiet == {f \in Frames : f.at # "emit" /\ f.at # "dispatch"}

\* The first of some positions of a sequence.
LEMMA FirstPosition ==
    \A S \in SUBSET Nat : \A k \in S : (\A i \in S : k <= i) => Min(S) = k
<1> TAKE S \in SUBSET Nat
<1> TAKE k \in S
<1>1. SUFFICES ASSUME \A i \in S : k <= i PROVE Min(S) = k
    OBVIOUS
<1>2. Min(S) \in S /\ \A i \in S : Min(S) <= i
    BY <1>1 DEF Min
<1>3. PICK n \in Nat : n = Min(S)
    BY <1>2
<1>4. k \in Nat /\ k <= n /\ n <= k
    BY <1>1, <1>2, <1>3
<1> QED
    BY <1>3, <1>4

\* The innermost call of a kind is the one on top, or it is below it.
LEMMA TodoOnTop ==
    \A f \in Frames, s \in Seq(Frames), at \in Points :
        TodoIn(Cons(f, s), at) = IF f.at = at THEN f.todo ELSE TodoIn(s, at)
<1> TAKE f \in Frames, s \in Seq(Frames), at \in Points
<1>1. <<f>> \in Seq(Frames) /\ Len(<<f>>) = 1 /\ <<f>>[1] = f
    OBVIOUS
<1>2. /\ Cons(f, s) \in Seq(Frames) /\ Len(Cons(f, s)) = 1 + Len(s)
      /\ \A i \in 1..1 + Len(s) : Cons(f, s)[i] = IF i <= 1 THEN <<f>>[i] ELSE s[i - 1]
    BY <1>1, ConcatProperties DEF Cons
<1>3. PICK t \in Seq(Frames) : t = Cons(f, s)
    BY <1>2
<1>4. /\ Len(s) \in Nat /\ DOMAIN s = 1..Len(s) /\ DOMAIN t = 1..1 + Len(s) /\ 1 \in DOMAIN t
      /\ t[1] = f
      /\ \A i \in DOMAIN s : i + 1 \in DOMAIN t /\ t[i + 1] = s[i]
      /\ \A i \in DOMAIN t : i = 1 \/ (i - 1 \in DOMAIN s /\ t[i] = s[i - 1])
    <2>1. Len(s) \in Nat /\ DOMAIN s = 1..Len(s) /\ DOMAIN t = 1..1 + Len(s) /\ 1 \in DOMAIN t
        BY <1>2, <1>3
    <2>2. t[1] = f
        BY <1>1, <1>2, <1>3, <2>1
    <2>3. ASSUME NEW i \in DOMAIN s PROVE i + 1 \in DOMAIN t /\ t[i + 1] = s[i]
        <3>1. i + 1 \in 1..1 + Len(s) /\ ~(i + 1 <= 1) /\ (i + 1) - 1 = i
            BY <2>1
        <3> QED
            BY <1>2, <1>3, <2>1, <3>1
    <2>4. ASSUME NEW i \in DOMAIN t, i # 1 PROVE i - 1 \in DOMAIN s /\ t[i] = s[i - 1]
        BY <1>2, <1>3, <2>1, <2>4
    <2> QED
        BY <2>1, <2>2, <2>3, <2>4
<1> DEFINE above == {i \in DOMAIN t : t[i].at = at}
           below == {i \in DOMAIN s : s[i].at = at}
<1>5. /\ TodoIn(t, at) = IF above = {} THEN <<>> ELSE t[Min(above)].todo
      /\ TodoIn(s, at) = IF below = {} THEN <<>> ELSE s[Min(below)].todo
    BY DEF TodoIn
<1>6. above \in SUBSET Nat /\ below \in SUBSET Nat
    BY <1>4
<1>7. CASE f.at = at
    <2>1. 1 \in above /\ \A i \in above : 1 <= i
        BY <1>4, <1>7
    <2> HIDE DEF above
    <2>2. Min(above) = 1
        BY <1>6, <2>1, FirstPosition
    <2> QED
        BY <1>3, <1>4, <1>5, <1>7, <2>1, <2>2
<1>8. CASE f.at # at
    <2>1. /\ \A i \in above : i - 1 \in below
          /\ \A i \in below : i + 1 \in above
        BY <1>4, <1>8
    <2>2. CASE below = {}
        <3>1. above = {}
            BY <2>1, <2>2
        <3> QED
            BY <1>3, <1>5, <1>8, <2>2, <3>1
    <2>3. CASE below # {}
        <3>1. PICK k \in below : \A i \in below : k <= i
            BY <1>6, <2>3, NatMinimum
        <3>2. k + 1 \in above /\ k \in Nat /\ k \in DOMAIN s
            BY <1>6, <2>1, <3>1
        <3>3. ASSUME NEW i \in above PROVE k + 1 <= i
            <4>1. i - 1 \in below /\ i \in Nat
                BY <1>6, <2>1
            <4>2. k <= i - 1
                BY <3>1, <4>1
            <4> QED
                BY <3>2, <4>1, <4>2
        <3> HIDE DEF above, below
        <3>4. Min(below) = k /\ Min(above) = k + 1
            BY <1>6, <3>1, <3>2, <3>3, FirstPosition
        <3>5. t[k + 1] = s[k]
            BY <1>4, <3>2
        <3> QED
            BY <1>3, <1>5, <1>8, <2>3, <3>2, <3>4, <3>5
    <2> QED
        BY <2>2, <2>3
<1> QED
    BY <1>7, <1>8

LEMMA TodoInEmpty == NoTodo(<<>>)
BY DEF NoTodo, TodoIn

\* A quiet call on top does not change the messages.
LEMMA QuietOnTop ==
    \A f \in Quiet, s \in Seq(Frames) :
        /\ Cons(f, s) \in Seq(Frames)
        /\ SameTodo(Cons(f, s), s)
        /\ NoTodo(s) => NoTodo(Cons(f, s))
<1>1. "emit" \in Points /\ "dispatch" \in Points
    BY DEF Points
<1> QED
    BY <1>1, OnTop, TodoOnTop DEF Quiet, NoTodo, SameTodo

LEMMA QuietCalls ==
    /\ \A g \in Guards : /\ Call("body", g) \in Quiet /\ Call("end", g) \in Quiet
                         /\ Call("close", g) \in Quiet /\ Call("collect", g) \in Quiet
                         /\ Call("layout", g) \in Quiet /\ Call("request", g) \in Quiet
                         /\ Call("take", g) \in Quiet /\ Call("flush", g) \in Quiet
    /\ \A todo \in Seq(Ids) : CallOn("components", todo) \in Quiet
    /\ \A g \in Guards, n \in Nat : Pass("flush", g, n) \in Quiet /\ Pass("flushed", g, n) \in Quiet
<1>1. /\ \A at, g : Call(at, g).at = at
      /\ \A at, todo : CallOn(at, todo).at = at
      /\ \A at, g, n : Pass(at, g, n).at = at
    BY DEF Call, CallOn, Pass
<1> QED
    BY <1>1, CallsAreFrames DEF Quiet

\* The stacks below the calls that emit and dispatch.
LEMMA QuietStacks ==
    /\ NoTodo(<<>>) /\ NoTodo(EndDispatch) /\ NoTodo(EndLayout) /\ NoTodo(CloseDispatch)
    /\ NoTodo(EndLayoutLast) /\ NoTodo(CloseLayout) /\ NoTodo(EndComponents)
    /\ NoTodo(CloseComponents)
    /\ \A n \in Nat, todo \in Seq(Ids) :
          /\ NoTodo(Cons(Pass("flushed", "layout", n), CloseDispatch))
          /\ NoTodo(InComponentsStack(n, todo)) /\ NoTodo(RequestStack(n, todo))
<1>1. "dispatch" \in Guards /\ "layout" \in Guards /\ "components" \in Guards
    BY DEF Guards
<1>2. /\ \A g \in Guards : Call("end", g) \in Quiet /\ Call("close", g) \in Quiet
      /\ Call("request", "layout") \in Quiet
      /\ \A todo \in Seq(Ids) : CallOn("components", todo) \in Quiet
      /\ \A g \in Guards, n \in Nat : Pass("flushed", g, n) \in Quiet
    BY ONLY <1>1, QuietCalls
<1>3. \A f \in Quiet, s \in Seq(Frames) : NoTodo(s) => NoTodo(Cons(f, s))
    BY QuietOnTop
<1>4. NoTodo(<<>>) /\ NoTodo(EndDispatch) /\ NoTodo(CloseDispatch)
    BY ONLY <1>1, <1>2, <1>3, TodoInEmpty, BasesAreStacks DEF EndDispatch, CloseDispatch
<1>5. NoTodo(EndLayout) /\ NoTodo(EndLayoutLast) /\ NoTodo(CloseLayout)
    BY ONLY <1>1, <1>2, <1>3, <1>4, BasesAreStacks DEF EndLayout, EndLayoutLast, CloseLayout
<1>6. NoTodo(EndComponents) /\ NoTodo(CloseComponents)
    BY ONLY <1>1, <1>2, <1>3, <1>5, BasesAreStacks DEF EndComponents, CloseComponents
<1>7. ASSUME NEW n \in Nat, NEW todo \in Seq(Ids)
      PROVE  /\ NoTodo(Cons(Pass("flushed", "layout", n), CloseDispatch))
             /\ NoTodo(InComponentsStack(n, todo)) /\ NoTodo(RequestStack(n, todo))
    <2>1. /\ NoTodo(Cons(Pass("flushed", "layout", n), CloseDispatch))
          /\ NoTodo(Cons(Pass("flushed", "components", n), CloseLayout))
        BY ONLY <1>1, <1>2, <1>3, <1>4, <1>5, BasesAreStacks
    <2>2. NoTodo(InComponentsStack(n, todo))
        BY ONLY <1>2, <1>3, <2>1, FlushesAreStacks DEF InComponentsStack
    <2> QED
        BY ONLY <1>2, <1>3, <2>1, <2>2, FlushesAreStacks DEF RequestStack
<1> QED
    BY ONLY <1>4, <1>5, <1>6, <1>7

\* Every stack is one of calls.
LEMMA StacksAreStacks ==
    ASSUME Control
    PROVE  stack \in Seq(Frames)
<1>1. \A f \in Frames, s \in Seq(Frames) : Cons(f, s) \in Seq(Frames)
    BY OnTop
<1>2. "dispatch" \in Guards /\ "layout" \in Guards /\ "components" \in Guards
    BY DEF Guards
<1>3. /\ Call("body", "layout") \in Frames /\ Call("layout", "layout") \in Frames
      /\ Call("collect", "components") \in Frames /\ Call("take", "dispatch") \in Frames
      /\ \A m \in Seq(Messages) : CallOn("emit", m) \in Frames /\ CallOn("dispatch", m) \in Frames
      /\ \A g \in Guards, n \in Nat : Pass("flush", g, n) \in Frames /\ Pass("flushed", g, n) \in Frames
    BY ONLY <1>2, CallsAreFrames
<1>4. \A n \in Nat :
        /\ Cons(Pass("flushed", "components", n), CloseLayout) \in Seq(Frames)
        /\ Cons(Pass("flushed", "layout", n), CloseDispatch) \in Seq(Frames)
        /\ \A rest \in Seq(Frames) : Cons(Pass("flushed", "dispatch", n), rest) \in Seq(Frames)
        /\ \A todo \in Seq(Ids) : /\ InComponentsStack(n, todo) \in Seq(Frames)
                                  /\ RequestStack(n, todo) \in Seq(Frames)
    BY FlushesAreStacks
<1> USE <1>1, <1>2, <1>3, <1>4, BasesAreStacks
<1>5. AtBody \/ AtLayout \/ AtEnd \/ AtClose \/ AtRest => stack \in Seq(Frames)
    BY ONLY <1>1, <1>2, <1>3, <1>4, BasesAreStacks DEF AtBody, AtLayout, AtEnd, AtClose, AtRest
<1>6. AtEmit => stack \in Seq(Frames)
    <2>1. \A m \in Seq(Messages), s \in Seq(Frames) : Cons(CallOn("emit", m), s) \in Seq(Frames)
        BY ONLY <1>1, <1>3
    <2> QED
        BY ONLY <2>1, <1>4, BasesAreStacks DEF AtEmit
<1>7. AtFlush \/ AtFlushed => stack \in Seq(Frames)
    <2>1. \A g \in Guards, n \in Nat, s \in Seq(Frames) :
             /\ Cons(Pass("flush", g, n), s) \in Seq(Frames)
             /\ Cons(Pass("flushed", g, n), s) \in Seq(Frames)
        BY ONLY <1>1, <1>3
    <2> QED
        BY ONLY <1>2, <2>1, BasesAreStacks DEF AtFlush, AtFlushed
<1>8. AtCollect \/ AtComponents \/ AtRequest => stack \in Seq(Frames)
    BY ONLY <1>1, <1>2, <1>3, <1>4, BasesAreStacks DEF AtCollect, AtComponents, AtRequest
<1>9. AtTake \/ AtDispatch => stack \in Seq(Frames)
    <2>1. \A m \in Seq(Messages), s \in Seq(Frames) :
             /\ Cons(CallOn("dispatch", m), s) \in Seq(Frames)
             /\ Cons(Call("take", "dispatch"), s) \in Seq(Frames)
        BY ONLY <1>1, <1>3
    <2>2. ASSUME AtTake
          PROVE  stack \in Seq(Frames)
        <3>1. PICK n \in Nat, rest \in Seq(Frames) :
                stack = Cons(Call("take", "dispatch"), Cons(Pass("flushed", "dispatch", n), rest))
            BY ONLY <2>2 DEF AtTake
        <3>2. PICK t \in Seq(Frames) : t = Cons(Pass("flushed", "dispatch", n), rest)
            BY <1>4
        <3>3. Cons(Call("take", "dispatch"), t) \in Seq(Frames)
            BY <2>1
        <3> QED
            BY ONLY <3>1, <3>2, <3>3
    <2>3. ASSUME AtDispatch
          PROVE  stack \in Seq(Frames)
        <3>1. PICK n \in Nat, rest \in Seq(Frames), m \in Seq(Messages) :
                stack = Cons(CallOn("dispatch", m), Cons(Pass("flushed", "dispatch", n), rest))
            BY ONLY <2>3 DEF AtDispatch
        <3>2. PICK t \in Seq(Frames) : t = Cons(Pass("flushed", "dispatch", n), rest)
            BY <1>4
        <3>3. Cons(CallOn("dispatch", m), t) \in Seq(Frames)
            BY <2>1
        <3> QED
            BY ONLY <3>1, <3>2, <3>3
    <2> QED
        BY ONLY <2>2, <2>3
<1> QED
    BY ONLY Control, <1>5, <1>6, <1>7, <1>8, <1>9 DEF Control

\* The call on top and what is below it.
LEMMA TopCall ==
    ASSUME Control, stack # <<>>
    PROVE  /\ Head(stack) \in Frames /\ Caller \in Seq(Frames) /\ stack = Cons(Head(stack), Caller)
           /\ Head(stack).at # "emit" /\ Head(stack).at # "dispatch" => SameTodo(stack, Caller)
<1>1. PICK s \in Seq(Frames) : s = stack /\ s # <<>>
    BY StacksAreStacks
<1>2. /\ Head(s) \in Frames /\ Tail(s) \in Seq(Frames) /\ Len(Tail(s)) = Len(s) - 1
      /\ \A i \in 1..Len(Tail(s)) : Tail(s)[i] = s[i + 1]
      /\ Len(s) \in Nat /\ Len(s) >= 1 /\ s[1] = Head(s)
    BY <1>1, HeadTailProperties
<1>3. /\ <<Head(s)>> \in Seq(Frames) /\ Len(<<Head(s)>>) = 1 /\ <<Head(s)>>[1] = Head(s)
    BY <1>2
<1>4. PICK t \in Seq(Frames) :
        /\ t = Cons(Head(s), Tail(s)) /\ Len(t) = 1 + Len(Tail(s))
        /\ \A i \in 1..1 + Len(Tail(s)) : t[i] = IF i <= 1 THEN <<Head(s)>>[i] ELSE Tail(s)[i - 1]
    BY <1>2, <1>3, ConcatProperties DEF Cons
<1>5. ASSUME NEW i \in 1..Len(s)
      PROVE  s[i] = t[i]
    <2>1. CASE i = 1
        BY <1>2, <1>3, <1>4, <2>1
    <2>2. CASE i # 1
        <3>1. i - 1 \in 1..Len(Tail(s)) /\ (i - 1) + 1 = i /\ ~(i <= 1) /\ i \in 1..1 + Len(Tail(s))
            BY <1>2, <2>2
        <3> QED
            BY <1>2, <1>4, <3>1
    <2> QED
        BY <2>1, <2>2
<1>6. s = t
    BY <1>2, <1>4, <1>5, SeqEqual
<1>7. /\ Head(stack) \in Frames /\ Caller \in Seq(Frames) /\ stack = Cons(Head(stack), Caller)
    BY <1>1, <1>2, <1>4, <1>6 DEF Caller
<1>8. ASSUME Head(stack).at # "emit", Head(stack).at # "dispatch"
      PROVE  SameTodo(stack, Caller)
    <2>1. PICK f \in Quiet : f = Head(stack)
        BY <1>7, <1>8 DEF Quiet
    <2> QED
        BY ONLY <1>7, <2>1, QuietOnTop
<1> QED
    BY <1>7, <1>8

\* Asking for a flush puts no message on the stack.
LEMMA AskingIsQuiet ==
    ASSUME NEW g \in Guards, NEW rest \in Seq(Frames), RequestFlush(g, rest)
    PROVE  SameTodo(stack', rest)
<1>1. CASE stack' = rest
    BY <1>1 DEF SameTodo
<1>2. CASE stack' = Cons(Call("flush", g), rest)
    BY <1>2, QuietCalls, QuietOnTop
<1> QED
    BY <1>1, <1>2 DEF RequestFlush

\* Most steps leave the messages alone.
LEMMA QuietSteps ==
    ASSUME Types, Control,
           \/ BeginUpdate \/ BeginNoUpdate \/ BeginLayoutNow \/ Change
           \/ BodyEnd \/ EndBatch \/ CloseBatch \/ Flush \/ Flushed
           \/ CollectDirty \/ SkipComponent \/ RequestLayout
    PROVE  /\ SameTodo(stack', stack)
           /\ UNCHANGED <<pendingDispatches, platform, snap, shown, newLayout>>
<1>1. UNCHANGED <<pendingDispatches, platform, snap, shown, newLayout>>
    BY DEF Change, Define, DefineRoot, DefineListRoot, Grow, Shrink, Touch, Changing, BeginUpdate,
       BeginNoUpdate, BeginLayoutNow, StartOperation, BodyEnd, EndBatch, CloseBatch, Flush, Flushed,
       CollectDirty, SkipComponent, RequestLayout, dom
<1>2. "dispatch" \in Guards /\ "layout" \in Guards /\ "components" \in Guards
    BY DEF Guards
<1>3. \A s : SameTodo(s, s)
    BY DEF SameTodo
<1>4. \A s, t, u : SameTodo(s, t) /\ (SameTodo(t, u) \/ SameTodo(u, t)) => SameTodo(s, u)
    BY DEF SameTodo
<1>5. \A f \in Quiet, s \in Seq(Frames) : Cons(f, s) \in Seq(Frames) /\ SameTodo(Cons(f, s), s)
    BY QuietOnTop
<1>6. CASE BeginUpdate \/ BeginNoUpdate \/ BeginLayoutNow
    <2>1. stack = <<>>
        BY <1>6 DEF BeginUpdate, BeginNoUpdate, BeginLayoutNow, StartOperation
    <2>2. /\ Call("body", "layout") \in Quiet /\ Call("layout", "layout") \in Quiet
          /\ Call("end", "layout") \in Quiet /\ Call("end", "dispatch") \in Quiet
        BY <1>2, QuietCalls
    <2>3. \/ stack' = Cons(Call("body", "layout"), EndLayout)
          \/ stack' = Cons(Call("layout", "layout"), EndLayout)
          \/ stack' = EndDispatch
        <3>1. \A f \in Quiet : f \in Frames
            BY DEF Quiet
        <3> QED
            BY <1>6, <2>2, <3>1, Tuples DEF BeginUpdate, BeginNoUpdate, BeginLayoutNow,
               StartOperation, EndLayout, EndDispatch
    <2>4. NoTodo(stack')
        BY ONLY <2>2, <2>3, QuietStacks, QuietOnTop, BasesAreStacks
    <2> QED
        BY <1>1, <2>1, <2>4, TodoInEmpty DEF SameTodo, NoTodo
<1>7. CASE Change
    <2>1. RequestFlush("components", stack)
        BY <1>7 DEF Change, Define, DefineRoot, DefineListRoot, Grow, Shrink, Touch, MarkDirty
    <2> QED
        BY <1>1, <1>2, <2>1, AskingIsQuiet, StacksAreStacks
<1>8. ASSUME NEW at \in Points, At(at), at # "emit", at # "dispatch"
      PROVE  /\ stack # <<>> /\ Head(stack).at = at /\ Head(stack) \in Frames
             /\ Caller \in Seq(Frames) /\ SameTodo(stack, Caller)
             /\ Head(stack).guard \in Guards
    <2>1. stack # <<>> /\ Head(stack).at = at
        BY <1>8 DEF At
    <2>2. \A f \in Frames : f.guard \in Guards
        BY DEF Frames
    <2> QED
        BY <1>8, <2>1, <2>2, TopCall
<1>9. CASE BodyEnd
    <2>1. At("body") /\ stack' = Caller /\ "body" \in Points
        BY <1>9 DEF BodyEnd, Points
    <2> QED
        BY ONLY <1>1, <1>3, <1>4, <1>8, <2>1
<1>10. CASE EndBatch
    <2>1. At("end") /\ "end" \in Points
        BY <1>10 DEF EndBatch, Points
    <2>2. PICK g \in Guards, s \in Seq(Frames) :
             g = Head(stack).guard /\ s = Caller /\ SameTodo(stack, s)
        BY ONLY <1>8, <2>1
    <2>3. stack' = s \/ stack' = Closing(g)
        BY <1>10, <2>2 DEF EndBatch
    <2>4. Closing(g) = Cons(Call("close", g), s)
          \/ \E h \in Guards : Closing(g) = Cons(Call("end", h), Cons(Call("close", g), s))
        BY <1>2, <2>2 DEF Closing, Inner
    <2>5. \A h \in Guards : Call("close", h) \in Quiet /\ Call("end", h) \in Quiet
        BY QuietCalls
    <2>6. SameTodo(Closing(g), s)
        BY ONLY <1>4, <1>5, <2>4, <2>5
    <2> QED
        BY ONLY <1>1, <1>3, <1>4, <2>2, <2>3, <2>6
<1>11. CASE CloseBatch
    <2>1. At("close") /\ "close" \in Points
        BY <1>11 DEF CloseBatch, Points
    <2>2. PICK g \in Guards, s \in Seq(Frames) :
             g = Head(stack).guard /\ s = Caller /\ SameTodo(stack, s)
        BY ONLY <1>8, <2>1
    <2>3. stack' = s \/ stack' = Cons(Call("flush", g), s)
        BY <1>11, <2>2 DEF CloseBatch
    <2>4. Call("flush", g) \in Quiet
        BY QuietCalls
    <2> QED
        BY ONLY <1>1, <1>3, <1>4, <1>5, <2>2, <2>3, <2>4
<1>12. CASE Flush
    <2>1. At("flush") /\ "flush" \in Points
        BY <1>12 DEF Flush, Points
    <2>2. PICK g \in Guards, s \in Seq(Frames), f \in Frames :
             g = Head(stack).guard /\ s = Caller /\ SameTodo(stack, s) /\ f = Head(stack)
        BY ONLY <1>8, <2>1
    <2>3. stack' = Cons(Call(Callback(g), g), Cons([f EXCEPT !.at = "flushed"], s))
        BY <1>12, <2>2 DEF Flush
    <2>4. [f EXCEPT !.at = "flushed"] \in Quiet
        <3>1. "flushed" \in Points
            BY DEF Points
        <3> QED
            BY <3>1 DEF Quiet, Frames
    <2>5. Call(Callback(g), g) \in Quiet
        <3>1. Callback(g) = "collect" \/ Callback(g) = "layout" \/ Callback(g) = "take"
            BY DEF Callback, Guards
        <3> QED
            BY <3>1, QuietCalls
    <2> QED
        BY ONLY <1>1, <1>4, <1>5, <2>2, <2>3, <2>4, <2>5
<1>13. CASE Flushed
    <2>1. At("flushed") /\ "flushed" \in Points
        BY <1>13 DEF Flushed, Points
    <2>2. PICK g \in Guards, s \in Seq(Frames), f \in Frames :
             g = Head(stack).guard /\ s = Caller /\ SameTodo(stack, s) /\ f = Head(stack)
        BY ONLY <1>8, <2>1
    <2>3. PICK n \in Nat : n = f.pass + 1
        BY DEF Frames
    <2>4. stack' = s \/ stack' = Cons([Call("flush", g) EXCEPT !.pass = n], s)
        BY <1>13, <2>2, <2>3 DEF Flushed
    <2>5. [Call("flush", g) EXCEPT !.pass = n] = Pass("flush", g, n)
        BY DEF Call, Pass
    <2>6. Pass("flush", g, n) \in Quiet
        BY QuietCalls
    <2>7. SameTodo(stack', s)
        BY ONLY <1>3, <1>5, <2>4, <2>5, <2>6
    <2> QED
        BY ONLY <1>1, <1>4, <2>2, <2>7
<1>14. CASE CollectDirty
    <2>1. At("collect") /\ "collect" \in Points
        BY <1>14 DEF CollectDirty, Points
    <2>2. PICK todo \in Seq(Ids), s \in Seq(Frames) :
             todo = dirtyOrder /\ s = Caller /\ SameTodo(stack, s)
        <3>1. dirtyOrder \in Seq(Ids)
            BY DEF Types, QueueOK
        <3> QED
            BY ONLY <1>8, <2>1, <3>1
    <2>3. stack' = Cons(CallOn("components", todo), s)
        BY <1>14, <2>2 DEF CollectDirty
    <2>4. CallOn("components", todo) \in Quiet
        BY QuietCalls
    <2> QED
        BY ONLY <1>1, <1>4, <1>5, <2>2, <2>3, <2>4
<1>15. CASE SkipComponent
    <2>1. AtComponents
        BY <1>15, TopDecides DEF SkipComponent
    <2>2. PICK n \in Nat, todo \in Seq(Ids) : stack = InComponentsStack(n, todo)
        BY ONLY <2>1 DEF AtComponents
    <2>3. Head(stack) = CallOn("components", todo)
        BY <2>2, Calling, CallsAreFrames, FlushesAreStacks DEF InComponentsStack
    <2>4. todo # <<>> /\ stack' = NextTodo
        BY <1>15, <2>3 DEF SkipComponent, CallOn
    <2>5. stack' = InComponentsStack(n, Tail(todo)) /\ Tail(todo) \in Seq(Ids)
        BY <2>2, <2>4, NextTodos, FlushesAreStacks, Rest DEF InComponentsStack
    <2> QED
        BY <1>1, <2>2, <2>5, QuietStacks DEF NoTodo, SameTodo
<1>16. CASE RequestLayout
    <2>1. At("request") /\ "request" \in Points
        BY <1>16 DEF RequestLayout, Points
    <2>2. PICK g \in Guards, s \in Seq(Frames) :
             g = Head(stack).guard /\ s = Caller /\ SameTodo(stack, s)
        BY ONLY <1>8, <2>1
    <2>3. RequestFlush(g, s)
        BY <1>16, <2>2 DEF RequestLayout
    <2>4. SameTodo(stack', s)
        BY <2>3, AskingIsQuiet
    <2> QED
        BY ONLY <1>1, <1>4, <2>2, <2>4
<1> QED
    BY <1>6, <1>7, <1>9, <1>10, <1>11, <1>12, <1>13, <1>14, <1>15, <1>16
-----------------------------------------------------------------------------
(* The messages in flight. *)

LEMMA WhatIsInFlight ==
    /\ InFlight = (TodoIn(stack, "dispatch") \o pendingDispatches) \o TodoIn(stack, "emit")
    /\ InFlight' = (TodoIn(stack', "dispatch") \o pendingDispatches') \o TodoIn(stack', "emit")
BY DEF InFlight, TodoOf, TodoIn

\* The same messages in flight, to the same platform.
LEMMA SameMessages ==
    ASSUME Told, InFlight' = InFlight, UNCHANGED <<platform, snap, shown>>,
           newLayout \subseteq newLayout'
    PROVE  Told'
<1>1. PICK q, p : q = InFlight /\ p = platform
    OBVIOUS
<1>2. Sensible(p, q) /\ Promised(Applied(p, q))
    BY <1>1 DEF Told
<1>3. PICK r : r = Applied(p, q)
    OBVIOUS
<1>4. Promised(r)'
    BY <1>2, <1>3 DEF Promised
<1>5. q = InFlight' /\ p = platform'
    BY <1>1
<1> QED
    BY <1>2, <1>3, <1>4, <1>5 DEF Told

\* More messages in flight, which make sense to a platform that has seen the
\* others.
LEMMA MoreMessages ==
    ASSUME Types, Told, NEW w \in Seq(Messages), InFlight \in Seq(Messages),
           InFlight' = InFlight \o w, platform' = platform,
           Sensible(Applied(platform, InFlight), w),
           \A c \in Ids : Applied(Applied(platform, InFlight), w)[c] # 0 <=> c \in shown',
           \A c \in shown' \ newLayout' : Applied(Applied(platform, InFlight), w)[c] = snap'[c]
    PROVE  Told'
<1>1. PICK q \in Seq(Messages), p \in [Ids -> Nat] : q = InFlight /\ p = platform
    BY DEF Types, SentOK
<1>2. PICK r : r = Applied(p, q \o w)
    OBVIOUS
<1>3. r = Applied(Applied(p, q), w)
    BY <1>2, ApplyingBoth
<1>4. Sensible(p, q \o w)
    BY <1>1, SensibleBoth DEF Told
<1>5. Promised(r)'
    BY <1>1, <1>3 DEF Promised
<1>6. q \o w = InFlight' /\ p = platform'
    BY <1>1
<1> QED
    BY <1>2, <1>4, <1>5, <1>6 DEF Told

LEMMA Empties ==
    <<>> \in Seq(Messages) /\ \A q \in Seq(Messages) : q \o <<>> = q /\ <<>> \o q = q
OBVIOUS

Regroup(q, m, e) == (q \o m) \o e = q \o (m \o e)

LEMMA MessagesRegroup ==
    \A q, m, e \in Seq(Messages) : Regroup(q, m, e)
<1> TAKE q, m, e \in Seq(Messages)
<1> QED
    BY ConcatAssociative DEF Regroup

\* The first message that is emitted becomes the last one that is pending.
LEMMA HandingOver ==
    \A q, m \in Seq(Messages) : m # <<>> => Append(q, Head(m)) \o Tail(m) = q \o m
<1> TAKE q, m \in Seq(Messages)
<1>1. SUFFICES ASSUME m # <<>> PROVE Append(q, Head(m)) \o Tail(m) = q \o m
    OBVIOUS
<1>2. /\ Head(m) \in Messages /\ Tail(m) \in Seq(Messages) /\ <<Head(m)>> \in Seq(Messages)
      /\ Append(q, Head(m)) = q \o <<Head(m)>>
    BY <1>1, AppendIsConcat
<1>3. <<Head(m)>> \o Tail(m) = m
    <2>1. /\ Len(m) \in Nat /\ Len(m) >= 1 /\ m[1] = Head(m) /\ Len(Tail(m)) = Len(m) - 1
          /\ \A i \in 1..Len(Tail(m)) : Tail(m)[i] = m[i + 1]
        BY <1>1, HeadTailProperties
    <2>2. PICK t \in Seq(Messages) :
            /\ t = <<Head(m)>> \o Tail(m) /\ Len(t) = 1 + Len(Tail(m))
            /\ \A i \in 1..1 + Len(Tail(m)) :
                  t[i] = IF i <= 1 THEN <<Head(m)>>[i] ELSE Tail(m)[i - 1]
        <3>1. Len(<<Head(m)>>) = 1
            OBVIOUS
        <3> QED
            BY <1>2, <3>1, ConcatProperties
    <2>3. ASSUME NEW i \in 1..Len(m)
          PROVE  m[i] = t[i]
        <3>1. CASE i = 1
            BY <2>1, <2>2, <3>1
        <3>2. CASE i # 1
            <4>1. i - 1 \in 1..Len(Tail(m)) /\ (i - 1) + 1 = i /\ ~(i <= 1) /\ i \in 1..1 + Len(Tail(m))
                BY <2>1, <3>2
            <4> QED
                BY <2>1, <2>2, <4>1
        <3> QED
            BY <3>1, <3>2
    <2>4. m = t
        BY <2>1, <2>2, <2>3, SeqEqual
    <2> QED
        BY <2>2, <2>4
<1> QED
    BY <1>2, <1>3, ConcatAssociative

\* The stacks under a call that emits messages, and under one that dispatches
\* them.
LEMMA EmitStacks ==
    ASSUME AtEmit
    PROVE  \E m \in Seq(Messages), s \in Seq(Frames) :
              /\ stack = Cons(CallOn("emit", m), s) /\ NoTodo(s)
              /\ depth["dispatch"] > 0 \/ (depth["dispatch"] = 0 /\ ~Flushes("dispatch"))
<1>1. depth["dispatch"] > 0 \/ (depth["dispatch"] = 0 /\ ~Flushes("dispatch"))
    <2>1. Depths(1, 2, 1) \/ Depths(1, 1, 0) \/ Depths(1, 0, 0)
          \/ (Depths(0, 0, 0) /\ \A g \in Guards : ~Flushes(g))
        BY DEF AtEmit, InPass, InComponents
    <2> QED
        BY <2>1 DEF Depths, Guards
<1>2. \E m \in Seq(Messages), s \in Seq(Frames) : stack = Cons(CallOn("emit", m), s) /\ NoTodo(s)
    <2>1. PICK m \in Seq(Messages) :
            \/ stack = Cons(CallOn("emit", m), EndLayout)
            \/ \E n \in Nat, todo \in Seq(Ids) : stack = Cons(CallOn("emit", m), RequestStack(n, todo))
            \/ \E n \in Nat :
                  stack = Cons(CallOn("emit", m), Cons(Pass("flushed", "layout", n), CloseDispatch))
            \/ stack = Cons(CallOn("emit", m), <<>>)
        BY DEF AtEmit
    <2>2. <<>> \in Seq(Ids)
        OBVIOUS
    <2> QED
        BY ONLY <2>1, <2>2, BasesAreStacks, FlushesAreStacks, QuietStacks
<1> QED
    BY <1>1, <1>2

LEMMA RestStacks ==
    ASSUME NEW rest \in Seq(Frames), InDispatch(rest)
    PROVE  TodoIn(rest, "dispatch") = <<>> /\ TodoIn(rest, "emit") \in Seq(Messages)
<1>1. "emit" \in Points /\ "dispatch" \in Points
    BY DEF Points
<1>2. CASE rest = <<>>
    BY <1>2, TodoInEmpty, Empties DEF NoTodo
<1>3. CASE \E m \in Seq(Messages) : rest = Cons(CallOn("emit", m), <<>>)
    <2>1. PICK m \in Seq(Messages) : rest = Cons(CallOn("emit", m), <<>>)
        BY <1>3
    <2>2. CallOn("emit", m) \in Frames /\ CallOn("emit", m).at = "emit" /\ CallOn("emit", m).todo = m
        BY CallsAreFrames DEF CallOn
    <2> QED
        BY ONLY <1>1, <2>1, <2>2, TodoOnTop, TodoInEmpty, BasesAreStacks DEF NoTodo
<1> QED
    BY <1>2, <1>3 DEF InDispatch

LEMMA DispatchStacks ==
    ASSUME AtDispatch
    PROVE  \E m \in Seq(Messages), e \in Seq(Messages), s \in Seq(Frames) :
              /\ stack = Cons(CallOn("dispatch", m), s) /\ pendingDispatches = <<>>
              /\ TodoIn(s, "dispatch") = <<>> /\ TodoIn(s, "emit") = e
<1>1. PICK n \in Nat, rest \in Seq(Frames), m \in Seq(Messages) :
        /\ stack = Cons(CallOn("dispatch", m), Cons(Pass("flushed", "dispatch", n), rest))
        /\ InDispatch(rest) /\ pendingDispatches = <<>>
    BY DEF AtDispatch
<1>2. TodoIn(rest, "dispatch") = <<>> /\ TodoIn(rest, "emit") \in Seq(Messages)
    BY <1>1, RestStacks
<1>3. PICK s \in Seq(Frames) : s = Cons(Pass("flushed", "dispatch", n), rest) /\ SameTodo(s, rest)
    <2>1. Pass("flushed", "dispatch", n) \in Quiet
        BY QuietCalls DEF Guards
    <2> QED
        BY ONLY <2>1, QuietOnTop
<1> QED
    BY <1>1, <1>2, <1>3 DEF SameTodo

\* A call that emits messages, or dispatches them, on top of a stack.
LEMMA MessagesOnTop ==
    \A m \in Seq(Messages), s \in Seq(Frames) :
        /\ TodoIn(Cons(CallOn("emit", m), s), "emit") = m
        /\ TodoIn(Cons(CallOn("emit", m), s), "dispatch") = TodoIn(s, "dispatch")
        /\ TodoIn(Cons(CallOn("dispatch", m), s), "dispatch") = m
        /\ TodoIn(Cons(CallOn("dispatch", m), s), "emit") = TodoIn(s, "emit")
<1>1. "emit" \in Points /\ "dispatch" \in Points
    BY DEF Points
<1>2. \A at, m : CallOn(at, m).at = at /\ CallOn(at, m).todo = m
    BY DEF CallOn
<1> QED
    BY <1>1, <1>2, CallsAreFrames, TodoOnTop

LEMMA QuietTold ==
    ASSUME Told, SameTodo(stack', stack),
           UNCHANGED <<pendingDispatches, platform, snap, shown, newLayout>>
    PROVE  Told'
<1>1. InFlight' = InFlight
    BY WhatIsInFlight DEF SameTodo
<1> QED
    BY <1>1, SameMessages

LEMMA EmitTold ==
    ASSUME Types, Control, Told, Emit
    PROVE  Told'
<1>1. AtEmit
    BY TopDecides DEF Emit
<1>2. PICK m \in Seq(Messages), s \in Seq(Frames) :
        /\ stack = Cons(CallOn("emit", m), s) /\ NoTodo(s)
        /\ depth["dispatch"] > 0 \/ (depth["dispatch"] = 0 /\ ~Flushes("dispatch"))
    BY <1>1, EmitStacks
<1>3. PICK q \in Seq(Messages) : q = pendingDispatches
    BY DEF Types, SentOK
<1>4. /\ m # <<>> /\ Tail(m) \in Seq(Messages)
      /\ UNCHANGED <<snap, shown, newLayout, platform>>
      /\ pendingDispatches' = Append(q, Head(m))
      /\ \/ stack' = Cons(CallOn("emit", Tail(m)), s)
         \/ stack' = Cons(Pass("flush", "dispatch", 0), Cons(CallOn("emit", Tail(m)), s))
    BY <1>2, <1>3, Emitting DEF dom
<1>5. TodoIn(stack, "emit") = m /\ TodoIn(stack, "dispatch") = <<>>
    BY <1>2, MessagesOnTop DEF NoTodo
<1>6. TodoIn(stack', "emit") = Tail(m) /\ TodoIn(stack', "dispatch") = <<>>
    <2>1. PICK t \in Seq(Frames) :
            /\ t = Cons(CallOn("emit", Tail(m)), s)
            /\ TodoIn(t, "emit") = Tail(m) /\ TodoIn(t, "dispatch") = <<>>
        <3>1. CallOn("emit", Tail(m)) \in Frames
            BY <1>4, CallsAreFrames
        <3>2. Cons(CallOn("emit", Tail(m)), s) \in Seq(Frames)
            BY ONLY <3>1, OnTop
        <3>3. /\ TodoIn(Cons(CallOn("emit", Tail(m)), s), "emit") = Tail(m)
              /\ TodoIn(Cons(CallOn("emit", Tail(m)), s), "dispatch") = TodoIn(s, "dispatch")
            BY ONLY <1>4, MessagesOnTop
        <3> QED
            BY <1>2, <3>2, <3>3 DEF NoTodo
    <2>2. SameTodo(Cons(Pass("flush", "dispatch", 0), t), t)
        BY QuietCalls, QuietOnTop DEF Guards
    <2> QED
        BY <1>4, <2>1, <2>2 DEF SameTodo
<1>7. PICK h \in Messages : h = Head(m)
    BY <1>4, RestOfMessages
<1>8. Append(q, h) \in Seq(Messages) /\ Append(q, h) \o Tail(m) = q \o m
    <2>1. Append(q, Head(m)) \o Tail(m) = q \o m
        BY <1>4, HandingOver
    <2>2. Append(q, h) \o Tail(m) = q \o m
        BY ONLY <1>7, <2>1
    <2>3. Append(q, h) \in Seq(Messages)
        BY <1>7
    <2> QED
        BY ONLY <2>2, <2>3
<1>9. InFlight = q \o m /\ InFlight' = Append(q, h) \o Tail(m)
    BY <1>3, <1>4, <1>5, <1>6, <1>7, <1>8, WhatIsInFlight, Empties
<1> QED
    BY <1>4, <1>8, <1>9, SameMessages

LEMMA TakeTold ==
    ASSUME Types, Control, Told, TakeDispatches
    PROVE  Told'
<1>1. AtTake
    BY TopDecides DEF TakeDispatches
<1>2. PICK n \in Nat, rest \in Seq(Frames) :
        /\ stack = Cons(Call("take", "dispatch"), Cons(Pass("flushed", "dispatch", n), rest))
        /\ InDispatch(rest)
    BY <1>1 DEF AtTake
<1>3. Call("take", "dispatch") \in Quiet /\ Pass("flushed", "dispatch", n) \in Quiet
    BY QuietCalls DEF Guards
<1>4. PICK s \in Seq(Frames) : s = Cons(Pass("flushed", "dispatch", n), rest) /\ SameTodo(s, rest)
    BY ONLY <1>3, QuietOnTop
<1>5. Caller = s /\ SameTodo(stack, s)
    <2>1. Call("take", "dispatch") \in Frames /\ stack = Cons(Call("take", "dispatch"), s)
        BY <1>2, <1>3, <1>4 DEF Quiet
    <2> QED
        BY ONLY <1>3, <2>1, Calling, QuietOnTop
<1>6. TodoIn(rest, "dispatch") = <<>> /\ TodoIn(rest, "emit") \in Seq(Messages)
    BY <1>2, RestStacks
<1>7. PICK q \in Seq(Messages), e \in Seq(Messages) : q = pendingDispatches /\ e = TodoIn(rest, "emit")
    BY <1>6 DEF Types, SentOK
<1>8. /\ stack' = Cons(CallOn("dispatch", q), s) /\ pendingDispatches' = <<>>
      /\ UNCHANGED <<snap, shown, newLayout, platform>>
    BY <1>5, <1>7 DEF TakeDispatches, dom
<1>9. TodoIn(stack', "dispatch") = q /\ TodoIn(stack', "emit") = e
    BY <1>4, <1>7, <1>8, MessagesOnTop DEF SameTodo
<1>10. TodoIn(stack, "dispatch") = <<>> /\ TodoIn(stack, "emit") = e
    BY <1>4, <1>5, <1>6, <1>7 DEF SameTodo
<1>11. InFlight = q \o e /\ InFlight' = q \o e
    BY <1>7, <1>8, <1>9, <1>10, WhatIsInFlight, Empties
<1> QED
    BY <1>8, <1>11, SameMessages

\* The platform has seen a run of messages: fewer are in flight.
LEMMA DispatchTold ==
    ASSUME Types, Control, Told, DispatchRun
    PROVE  Told'
<1>1. AtDispatch
    BY TopDecides DEF DispatchRun
<1>2. PICK m \in Seq(Messages), e \in Seq(Messages), s \in Seq(Frames) :
        /\ stack = Cons(CallOn("dispatch", m), s) /\ pendingDispatches = <<>>
        /\ TodoIn(s, "dispatch") = <<>> /\ TodoIn(s, "emit") = e
    BY <1>1, DispatchStacks
<1>3. PICK n \in 1..Len(m) :
        /\ platform' = Applied(platform, SubSeq(m, 1, n))
        /\ SubSeq(m, n + 1, Len(m)) \in Seq(Messages)
        /\ stack' = Cons(CallOn("dispatch", SubSeq(m, n + 1, Len(m))), s)
    BY <1>2, Dispatching
<1>4. UNCHANGED <<pendingDispatches, snap, shown, newLayout>>
    BY DEF DispatchRun, dom
<1>5. PICK a \in Seq(Messages), b \in Seq(Messages), p \in [Ids -> Nat] :
        a = SubSeq(m, 1, n) /\ b = SubSeq(m, n + 1, Len(m)) /\ p = platform
    <2>1. SubSeq(m, 1, n) \in Seq(Messages)
        OBVIOUS
    <2> QED
        BY <1>3, <2>1 DEF Types, SentOK
<1>6. m = a \o b
    <2>1. 1 \in 1..Len(m) + 1 /\ n \in 1 - 1..Len(m) /\ Len(m) \in n..Len(m)
        OBVIOUS
    <2>2. SubSeq(m, 1, n) \o SubSeq(m, n + 1, Len(m)) = SubSeq(m, 1, Len(m))
        BY ONLY <2>1, ConcatAdjacentSubSeq
    <2> QED
        BY <1>5, <2>2, SubSeqFull
<1>7. InFlight = m \o e
    BY <1>2, MessagesOnTop, WhatIsInFlight, Empties
<1>8. PICK q \in Seq(Messages) : q = b \o e
    BY ConcatProperties
<1>9. InFlight' = q
    <2>1. stack' = Cons(CallOn("dispatch", b), s) /\ pendingDispatches' = <<>>
        BY <1>2, <1>3, <1>4, <1>5
    <2>2. TodoIn(stack', "dispatch") = b /\ TodoIn(stack', "emit") = e
        BY <1>2, <2>1, MessagesOnTop
    <2> QED
        BY <1>8, <2>1, <2>2, WhatIsInFlight, Empties
<1>10. InFlight = a \o q
    <2>1. Regroup(a, b, e)
        BY MessagesRegroup
    <2>2. (a \o b) \o e = a \o (b \o e)
        BY ONLY <2>1 DEF Regroup
    <2> QED
        BY ONLY <1>6, <1>7, <1>8, <2>2
<1>11. Sensible(p, a \o q) /\ Promised(Applied(p, a \o q))
    BY <1>5, <1>10 DEF Told
<1>12. PICK r \in [Ids -> Nat] : r = Applied(p, a)
    BY AppliedType
<1>13. Sensible(r, q) /\ Promised(Applied(r, q))
    <2>1. Applied(p, a \o q) = Applied(r, q)
        BY <1>12, ApplyingBoth
    <2>2. Sensible(r, q)
        BY <1>11, <1>12, SensibleBoth
    <2> QED
        BY <1>11, <2>1, <2>2
<1>14. PICK f : f = Applied(r, q)
    OBVIOUS
<1>15. Promised(f)'
    BY <1>4, <1>13, <1>14 DEF Promised
<1>16. r = platform'
    BY <1>3, <1>5, <1>12
<1> QED
    BY <1>9, <1>13, <1>14, <1>15, <1>16 DEF Told

LEMMA ReturnTold ==
    ASSUME Types, Control, Told, Return
    PROVE  Told'
<1>1. /\ stack' = Caller /\ Head(stack).todo = <<>>
      /\ UNCHANGED <<pendingDispatches, platform, snap, shown, newLayout>>
    BY DEF Return, dom
<1>2. CASE At("components")
    <2>1. stack # <<>> /\ Head(stack).at = "components"
        BY <1>2 DEF At
    <2>2. SameTodo(stack, Caller)
        BY <2>1, TopCall
    <2>3. SameTodo(stack', stack)
        BY <1>1, <2>2 DEF SameTodo
    <2> QED
        BY <1>1, <2>3, QuietTold
<1>3. CASE At("emit")
    <2>1. PICK m \in Seq(Messages), s \in Seq(Frames) :
            stack = Cons(CallOn("emit", m), s) /\ NoTodo(s)
        BY <1>3, TopDecides, EmitStacks
    <2>2. Head(stack) = CallOn("emit", m) /\ Caller = s
        BY <2>1, Calling, CallsAreFrames
    <2>3. m = <<>>
        BY <1>1, <2>2 DEF CallOn
    <2>4. SameTodo(stack', stack)
        BY <1>1, <2>1, <2>2, <2>3, MessagesOnTop DEF SameTodo, NoTodo
    <2> QED
        BY <1>1, <2>4, QuietTold
<1>4. CASE At("dispatch")
    <2>1. PICK m \in Seq(Messages), s \in Seq(Frames) :
            stack = Cons(CallOn("dispatch", m), s) /\ TodoIn(s, "dispatch") = <<>>
        BY <1>4, TopDecides, DispatchStacks
    <2>2. Head(stack) = CallOn("dispatch", m) /\ Caller = s
        BY <2>1, Calling, CallsAreFrames
    <2>3. m = <<>>
        BY <1>1, <2>2 DEF CallOn
    <2>4. SameTodo(stack', stack)
        BY <1>1, <2>1, <2>2, <2>3, MessagesOnTop DEF SameTodo
    <2> QED
        BY <1>1, <2>4, QuietTold
<1> QED
    BY <1>2, <1>3, <1>4 DEF Return

\* What updateNode() does to what is shown.
LEMMA Unshowing ==
    ASSUME Types, Known, NEW c \in Ids, UpdateNode(c)
    PROVE  /\ shown' = shown \ (IF c = Root THEN shown \cap Destroyed ELSE {})
           /\ \A d \in shown' \ newLayout' : d \notin newLayout /\ snap'[d] = snap[d]
<1>1. \A d \in shown : d = Root \/ (d \in Nodes /\ d \in Ids)
    BY DEF Known, Visited, Types, DomOK
<1>2. CASE c = Root
    <2>1. UpdateRootNode
        BY <1>2 DEF UpdateNode
    <2>2. /\ snap' = [d \in Ids |-> IF d = Root THEN version[Root]
                                    ELSE IF d \in Taken THEN orphan[d]
                                    ELSE IF d \in Stay \cup Restored THEN snap[d] ELSE 0]
          /\ newLayout' = (newLayout \ Destroyed) \cup {Root} \cup Taken \cup Restored
          /\ shown' = shown \ Destroyed
        BY <2>1 DEF UpdateRootNode
    <2>3. ASSUME NEW d \in shown' \ newLayout'
          PROVE  d \notin newLayout /\ snap'[d] = snap[d]
        <3>1. /\ d # Root /\ d \notin Taken /\ d \in Stay /\ d \in Ids /\ d \notin newLayout
            BY <1>1, <2>2 DEF Destroyed
        <3> QED
            BY <2>2, <3>1
    <2> QED
        BY <1>2, <2>2, <2>3
<1>3. CASE c # Root
    <2>1. UpdateChildNode(c)
        BY <1>3 DEF UpdateNode
    <2> QED
        BY <1>3, <2>1 DEF UpdateChildNode, Types, DomOK
<1> QED
    BY <1>2, <1>3

LEMMA FlushTold ==
    ASSUME Types, Control, Known, Told, FlushComponent
    PROVE  Told'
<1>1. PICK n \in Nat, todo \in Seq(Ids) :
        /\ stack = InComponentsStack(n, todo)
        /\ todo # <<>> /\ Head(todo) \in components \cap dirty
        /\ UpdateNode(Head(todo))
        /\ \E removed \in InOrder(IF Head(todo) = Root THEN shown \cap Destroyed ELSE {}, nodes) :
              stack' = Cons(CallOn("emit", Removals(removed)), RequestStack(n, Tail(todo)))
    BY FlushingOne
<1>2. PICK c \in Ids : c = Head(todo)
    BY <1>1, Rest
<1>3. PICK S \in SUBSET Ids : S = IF c = Root THEN shown \cap Destroyed ELSE {}
    BY DEF Types, DomOK
<1>4. PICK removed \in SetToSeqs(S) :
        stack' = Cons(CallOn("emit", Removals(removed)), RequestStack(n, Tail(todo)))
    BY <1>1, <1>2, <1>3 DEF InOrder
<1>5. PICK w \in Seq(Messages) : w = Removals(removed)
    BY MessagesOf, Enumerations
<1>6. UNCHANGED <<pendingDispatches, platform>>
    BY DEF FlushComponent
<1>7. shown' = shown \ S /\ \A d \in shown' \ newLayout' : d \notin newLayout /\ snap'[d] = snap[d]
    BY <1>1, <1>2, <1>3, Unshowing
<1>8. PICK q \in Seq(Messages) : q = pendingDispatches
    BY DEF Types, SentOK
<1>9. InFlight = q
    BY <1>1, <1>8, QuietStacks, WhatIsInFlight, Empties DEF NoTodo
<1>10. InFlight' = q \o w
    <2>1. PICK s \in Seq(Frames) : s = RequestStack(n, Tail(todo)) /\ NoTodo(s)
        BY <1>1, Rest, FlushesAreStacks, QuietStacks
    <2>2. TodoIn(stack', "emit") = w /\ TodoIn(stack', "dispatch") = <<>>
        BY <1>4, <1>5, <2>1, MessagesOnTop DEF NoTodo
    <2> QED
        BY <1>6, <1>8, <2>2, WhatIsInFlight, Empties
<1>11. PICK p \in [Ids -> Nat] : p = Applied(platform, q)
    BY AppliedType DEF Types, SentOK
<1>12. Promised(p)
    BY <1>9, <1>11 DEF Told
<1>13. \A d \in S : p[d] # 0
    BY <1>3, <1>12 DEF Promised
<1>14. Sensible(p, w) /\ \A d \in Ids : Applied(p, w)[d] = IF d \in S THEN 0 ELSE p[d]
    BY <1>5, <1>13, Removing
<1>15. \A d \in Ids : Applied(p, w)[d] # 0 <=> d \in shown'
    BY <1>7, <1>12, <1>14 DEF Promised
<1>16. \A d \in shown' \ newLayout' : Applied(p, w)[d] = snap'[d]
    BY <1>7, <1>12, <1>14 DEF Promised, Types, DomOK
<1> QED
    BY <1>6, <1>9, <1>10, <1>11, <1>14, <1>15, <1>16, MoreMessages

LEMMA LayoutTold ==
    ASSUME Types, Control, Known, Told, Layout
    PROVE  Told'
<1>1. PICK S \in SUBSET Visited : \E s \in RootFirst(S) :
        /\ stack' = Cons(CallOn("emit", Changes(s)), Caller)
        /\ s \in Seq(Ids) /\ Changes(s) \in Seq(Messages)
        /\ newLayout \cap Visited \subseteq S /\ Visited \ shown \subseteq S
    <2>1. PICK moved \in SUBSET (Visited \cap shown) :
            \E s \in InOrder((newLayout \cap Visited) \cup (Visited \ shown) \cup moved, Cons(Root, nodes)) :
               /\ stack' = Cons(CallOn("emit", Changes(s)), Caller)
               /\ s \in Seq(Ids) /\ Changes(s) \in Seq(Messages)
        BY LayingOut
    <2> DEFINE S == (newLayout \cap Visited) \cup (Visited \ shown) \cup moved
    <2>2. S \in SUBSET Visited /\ newLayout \cap Visited \subseteq S /\ Visited \ shown \subseteq S
        OBVIOUS
    <2>3. S \in SUBSET Ids
        BY Tree DEF Visited, Types, DomOK, Ids
    <2>4. \A s \in InOrder(S, Cons(Root, nodes)) : s \in RootFirst(S)
        BY <2>3, WalkRootFirst DEF Known
    <2> QED
        BY <2>1, <2>2, <2>4
<1>2. PICK s \in RootFirst(S) :
        /\ stack' = Cons(CallOn("emit", Changes(s)), Caller)
        /\ Changes(s) \in Seq(Messages)
        /\ newLayout \cap Visited \subseteq S /\ Visited \ shown \subseteq S
    BY <1>1
<1>3. PICK w \in Seq(Messages) : w = Changes(s)
    BY <1>2
<1>4. /\ shown' = shown \cup Visited /\ newLayout' = newLayout \ Visited
      /\ UNCHANGED <<pendingDispatches, platform, snap>>
    BY DEF Layout
<1>5. PICK q \in Seq(Messages) : q = pendingDispatches
    BY DEF Types, SentOK
<1>6. NoTodo(stack) /\ NoTodo(Caller) /\ Caller \in Seq(Frames)
    <2>1. AtLayout
        BY TopDecides DEF Layout
    <2>2. Call("layout", "layout") \in Quiet /\ Call("layout", "layout") \in Frames
        BY QuietCalls DEF Quiet, Guards
    <2>3. PICK t \in Seq(Frames) : stack = Cons(Call("layout", "layout"), t) /\ NoTodo(t)
        <3>1. <<>> \in Seq(Ids)
            OBVIOUS
        <3> QED
            BY ONLY <2>1, <3>1, BasesAreStacks, FlushesAreStacks, QuietStacks DEF AtLayout
    <2>4. Caller = t /\ NoTodo(stack)
        BY <2>2, <2>3, Calling, QuietOnTop
    <2> QED
        BY <2>3, <2>4
<1>7. InFlight = q
    BY <1>5, <1>6, WhatIsInFlight, Empties DEF NoTodo
<1>8. InFlight' = q \o w
    <2>1. TodoIn(stack', "emit") = w /\ TodoIn(stack', "dispatch") = <<>>
        BY <1>2, <1>3, <1>6, MessagesOnTop DEF NoTodo
    <2> QED
        BY <1>4, <1>5, <2>1, WhatIsInFlight, Empties
<1>9. PICK p \in [Ids -> Nat] : p = Applied(platform, q)
    BY AppliedType DEF Types, SentOK
<1>10. Promised(p)
    BY <1>7, <1>9 DEF Told
<1>11. Sensible(p, w) /\ \A d \in Ids : Applied(p, w)[d] = IF d \in S THEN snap[d] ELSE p[d]
    <2>1. /\ S \in SUBSET Visited /\ s \in RootFirst(S) /\ p \in [Ids -> Nat]
          /\ Visited \ shown \subseteq S
        BY <1>2
    <2>2. /\ Sensible(p, Changes(s))
          /\ \A d \in Ids : Applied(p, Changes(s))[d] = IF d \in S THEN snap[d] ELSE p[d]
        BY ONLY Types, Known, <1>10, <2>1, Reporting
    <2> QED
        BY <1>3, <2>2
<1>12. \A d \in Visited : snap[d] # 0 /\ d \in Ids
    BY Tree DEF Visited, Types, DomOK, Ids
<1>13. \A d \in Ids : Applied(p, w)[d] # 0 <=> d \in shown'
    BY <1>2, <1>4, <1>10, <1>11, <1>12 DEF Promised
<1>14. \A d \in shown' \ newLayout' : Applied(p, w)[d] = snap'[d]
    <2> TAKE d \in shown' \ newLayout'
    <2>1. d \in Visited /\ d \in Ids
        BY <1>4, <1>12 DEF Known
    <2>2. d \in S \/ d \in shown \ newLayout
        BY <1>2, <2>1
    <2> QED
        BY <1>4, <1>10, <1>11, <2>1, <2>2 DEF Promised
<1> QED
    BY <1>4, <1>7, <1>8, <1>9, <1>11, <1>13, <1>14, MoreMessages

LEMMA DestroyTold ==
    ASSUME Types, Control, Told, DestroySurface
    PROVE  Told'
<1>1. PICK s \in RootFirst(shown) : stack' = <<CallOn("emit", Removals(s))>>
    BY DEF DestroySurface
<1>2. shown \in SUBSET Ids
    BY DEF Types, DomOK
<1>3. s \in SetToSeqs(shown) /\ s \in Seq(Ids)
    BY <1>2, RootFirstEnumerates
<1>4. PICK w \in Seq(Messages) : w = Removals(s)
    BY <1>3, MessagesOf
<1>5. shown' = {} /\ UNCHANGED <<pendingDispatches, platform>> /\ stack = <<>>
    BY DEF DestroySurface
<1>6. stack' = Cons(CallOn("emit", w), <<>>)
    BY <1>1, <1>4, Tuples, CallsAreFrames
<1>7. PICK q \in Seq(Messages) : q = pendingDispatches
    BY DEF Types, SentOK
<1>8. InFlight = q
    BY <1>5, <1>7, TodoInEmpty, WhatIsInFlight, Empties DEF NoTodo
<1>9. InFlight' = q \o w
    <2>1. TodoIn(stack', "emit") = w /\ TodoIn(stack', "dispatch") = <<>>
        BY <1>6, BasesAreStacks, TodoInEmpty, MessagesOnTop DEF NoTodo
    <2> QED
        BY <1>5, <1>7, <2>1, WhatIsInFlight, Empties
<1>10. PICK p \in [Ids -> Nat] : p = Applied(platform, q)
    BY AppliedType DEF Types, SentOK
<1>11. Promised(p)
    BY <1>8, <1>10 DEF Told
<1>12. \A d \in shown : p[d] # 0
    BY <1>2, <1>11 DEF Promised
<1>13. Sensible(p, w) /\ \A d \in Ids : Applied(p, w)[d] = IF d \in shown THEN 0 ELSE p[d]
    BY <1>2, <1>3, <1>4, <1>12, Removing
<1>14. \A d \in Ids : Applied(p, w)[d] # 0 <=> d \in shown'
    BY <1>5, <1>11, <1>13 DEF Promised
<1>15. \A d \in shown' \ newLayout' : Applied(p, w)[d] = snap'[d]
    BY <1>5
<1> QED
    BY <1>5, <1>8, <1>9, <1>10, <1>13, <1>14, <1>15, MoreMessages

\* Every step keeps the messages in flight sensible, and keeps its promise.
LEMMA ToldSteps ==
    ASSUME Types, Control, Known, Told, [Next]_vars
    PROVE  Told'
<1>1. CASE UNCHANGED vars
    <2>1. SameTodo(stack', stack) /\ UNCHANGED <<pendingDispatches, platform, snap, shown, newLayout>>
        BY <1>1 DEF vars, dom, SameTodo
    <2> QED
        BY <2>1, QuietTold
<1>2. CASE Next
    BY <1>2, QuietSteps, QuietTold, EmitTold, TakeTold, DispatchTold, ReturnTold, FlushTold,
       LayoutTold, DestroyTold DEF Next, Run
<1> QED
    BY <1>1, <1>2

LEMMA InitiallyTold == Init => Known /\ Kept /\ Told
<1> SUFFICES ASSUME Init PROVE Known /\ Kept /\ Told
    OBVIOUS
<1>1. Types
    BY InitialStack
<1>2. /\ components = {} /\ listed = <<>> /\ nodes = <<>> /\ shown = {} /\ stack = <<>>
      /\ pendingDispatches = <<>>
      /\ \A c \in Ids : snap[c] = 0 /\ orphan[c] = 0 /\ platform[c] = 0
      /\ Root \in Ids /\ Children \subseteq Ids
    BY DEF Init, None, Ids
<1>3. Known /\ Kept
    <2>1. Nodes = {} /\ Listed = {}
        BY <1>2 DEF Nodes, Listed, ToSet
    <2> QED
        BY <1>2, <2>1 DEF Known, Kept
<1>4. InFlight = <<>>
    BY <1>2, TodoInEmpty, WhatIsInFlight, Empties DEF NoTodo
<1>5. Sensible(platform, <<>>)
    BY DEF Sensible
<1>6. Applied(platform, <<>>) = platform
    BY <1>1, ApplyingNone DEF Types, SentOK
<1>7. Told
    BY <1>2, <1>4, <1>5, <1>6 DEF Told, Promised
<1> QED
    BY <1>3, <1>7

\* What the platform was told and what the nodes hold, in every state: the
\* inductive invariant of the two theorems below.
THEOREM PromisesAreKept == Spec => [](Types /\ Control /\ Known /\ Kept /\ Told)
<1>1. Init => Types /\ Control /\ Known /\ Kept /\ Told
    BY InitialStack, InitiallyTold
<1>2. Types /\ Control /\ Known /\ Kept /\ Told /\ [Next]_vars
         => (Types /\ Control /\ Known /\ Kept /\ Told)'
    <2> SUFFICES ASSUME Types, Control, Known, Kept, Told, [Next]_vars
                 PROVE  (Types /\ Control /\ Known /\ Kept /\ Told)'
        OBVIOUS
    <2>1. Types' /\ Control'
        BY ControlSteps, TypeSteps, StackStutters
    <2>2. Known' /\ Kept' /\ Told'
        BY KeptSteps, ToldSteps
    <2> QED
        BY <2>1, <2>2
<1> QED
    BY <1>1, <1>2, PTL DEF Spec

\* Every message makes sense to the platform when it gets it, however the
\* changes, the layout passes and the batches of messages interleave and however
\* a list is reordered, when updateChildren() removes and adds the same child in
\* one burst: an add is of a component not shown whose parent is, an update or a
\* removal is of one that is shown.
THEOREM MessagesAreSensible == Spec => []MessagesMakeSense
<1>1. Told => MessagesMakeSense
    <2> SUFFICES ASSUME Told PROVE MessagesMakeSense
        OBVIOUS
    <2>1. \A i \in 1..Len(InFlight) :
             Valid(Applied(platform, SubSeq(InFlight, 1, i - 1)), InFlight[i])
        BY DEF Told, Sensible
    <2>2. DOMAIN InFlight = 1..Len(InFlight)
        OBVIOUS
    <2> QED
        BY <2>1, <2>2 DEF MessagesMakeSense, ShownAfter, Valid
<1> QED
    BY <1>1, PromisesAreKept, PTL

\* When an operation has returned the platform shows exactly what the surface
\* holds: the latest content of the root and of every defined child it lists, one
\* that moved and was rebuilt from the stash of updateChildren() included, except
\* a child whose node went with its snapshot and was not rebuilt since.
THEOREM PlatformMirrorsModel == Spec => []MirrorsModel
<1>1. Types /\ Control /\ Known /\ Kept /\ Told => MirrorsModel
    <2> SUFFICES ASSUME Types, Control, Known, Kept, Told, Idle, ~capped, NEW c \in Ids
                 PROVE  platform[c] = Expected(c) \/ (platform[c] = 0 /\ c \in lost)
        BY DEF MirrorsModel
    <2>1. AtRest
        BY TopDecides DEF Idle
    <2>2. Undone = {} /\ pendingDispatches = <<>> /\ dirty = {}
        BY <2>1 DEF AtRest, AfterComponents, Noticed, Collected
    <2>3. InFlight = <<>>
        BY <2>2, TodoInEmpty, WhatIsInFlight, Empties DEF NoTodo, Idle
    <2>4. Promised(platform)
        BY <2>3, ApplyingNone DEF Told, Types, SentOK
    <2>5. /\ c \in Visited => platform[c] = snap[c]
          /\ c \notin Visited => platform[c] = 0
        BY <2>2, <2>4 DEF Promised, Undone, Known
    <2>6. CASE Root \notin components
        BY <2>5, <2>6 DEF Known, Visited, Expected
    <2>7. CASE Root \in components
        <3>1. Nodes = Listed /\ snap[Root] = version[Root] /\ snap[Root] # 0
            BY <2>2, <2>7 DEF Kept, Known
        <3>2. c \in Visited <=> c = Root \/ (c \in Listed /\ snap[c] # 0)
            BY <3>1 DEF Visited
        <3>3. CASE c = Root
            BY <2>5, <2>7, <3>1, <3>2, <3>3 DEF Expected
        <3>4. CASE c # Root /\ c \in Listed \cap components
            <4>1. snap[c] = version[c] \/ (snap[c] = 0 /\ c \in lost)
                BY <2>2, <3>1, <3>4 DEF Kept, UpToDate
            <4>2. version[c] # 0
                BY <3>4 DEF Known
            <4> QED
                BY <2>5, <2>7, <3>2, <3>4, <4>1, <4>2 DEF Expected
        <3>5. CASE c # Root /\ c \in Listed \ components
            <4>1. snap[c] = 0
                BY <3>5 DEF Known
            <4> QED
                BY <2>5, <3>2, <3>5, <4>1 DEF Expected
        <3>6. CASE c # Root /\ c \notin Listed
            BY <2>5, <3>2, <3>6 DEF Expected
        <3> QED
            BY <3>3, <3>4, <3>5, <3>6
    <2> QED
        BY <2>6, <2>7
<1> QED
    BY <1>1, PromisesAreKept, PTL
=============================================================================
