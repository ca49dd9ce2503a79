----------------------------- MODULE ImageLoading -----------------------------
(***************************************************************************)
(* Pictures of the HarmonyOS renderer: ImageComponents and background        *)
(* images ask the ImageLoaderBridge for a url.  The bridge notes the request *)
(* and sends it, and later perhaps its cancellation, to the application's    *)
(* loader through two thread-safe functions, between which there is no       *)
(* order.  The loader answers every request it is given, at any time, also   *)
(* after the cancellation; the bridge sets the picture on the node it noted  *)
(* and tells the component.  Without a loader, when the loader fails and     *)
(* when a url is applied again, the node loads the url itself and reports    *)
(* the outcome to the component, which may apply the url once more.          *)
(*                                                                          *)
(* Everything here runs on the main thread, one callback at a time.  The     *)
(* loader and the ArkUI nodes are external.                                  *)
(***************************************************************************)
EXTENDS Integers, Sequences, FiniteSets

CONSTANTS Images,       \* ImageComponents
          Urls,
          MaxRequests,  \* bound: requests of the bridge
          MaxUpdates,   \* bound: updateProperties() calls
          FadeIn        \* whether a picture that arrives is revealed by animators

ASSUME ImageAssumption ==
    /\ MaxRequests \in Nat /\ MaxUpdates \in Nat /\ FadeIn \in BOOLEAN
    /\ "empty" \notin Urls /\ "absent" \notin Urls

NoUrl == "empty"
NoRequest == 0
Requests == 1..MaxRequests

VARIABLES component,  \* what each ImageComponent keeps
          node,       \* the nodes, by <<image, n>>: n = 0 its own, n > 0 backgrounds
          request,    \* what each request was made for
          pending,    \* pending_callbacks_ and pending_handles_
          loads,      \* tasks of tsfn_load_image_
          asked,      \* requests the loader has and has not answered
          hasLoader,  \* whether a loader is registered
          reveals,    \* nodes with a reveal animator under way
          history     \* history: see below

vars == <<component, node, request, pending, loads, asked, hasLoader, reveals, history>>
bridge == <<loads, asked, hasLoader>>
\* history.updates   updates made
\* history.dead      what was done to a node after it was disposed of
\* history.declined  images whose current url the loader said it cancelled

Fresh == [state |-> "unborn", url |-> NoUrl, request |-> NoRequest, animated |-> NoUrl,
          background |-> 0, backgroundUrl |-> NoUrl, backgroundRequest |-> NoRequest, made |-> 0]
NewNode == [alive |-> TRUE, by |-> "nothing", url |-> NoUrl, loading |-> FALSE, tries |-> 0]
WithNode(nodes, h) == [g \in DOMAIN nodes \cup {h} |-> IF g = h THEN NewNode ELSE nodes[g]]

Init ==
    /\ component = [c \in Images |-> Fresh]
    /\ node = <<>> /\ request = <<>>
    /\ pending = {} /\ loads = <<>> /\ asked = {}
    /\ hasLoader = FALSE /\ reveals = {}
    /\ history = [updates |-> 0, dead |-> {}, declined |-> {}]
-----------------------------------------------------------------------------
(* The state of the renderer while one callback runs: w is a record of the   *)
(* variables a component's code changes, passed from step to step.           *)

World == [component |-> component, node |-> node, request |-> request, pending |-> pending,
          loads |-> loads, history |-> history]

Becomes(w) ==
    /\ component' = w.component /\ node' = w.node /\ request' = w.request
    /\ pending' = w.pending /\ loads' = w.loads /\ history' = w.history

Touched(w, h, what) ==
    IF h \in DOMAIN w.node /\ w.node[h].alive THEN w ELSE [w EXCEPT !.history.dead = @ \cup {what}]

\* setSrc(): the node drops what it was loading and loads the url itself.
SetSrc(w, h, url) ==
    [Touched(w, h, "source") EXCEPT !.node[h].by = "native", !.node[h].url = url, !.node[h].loading = TRUE,
                                   !.node[h].tries = 0]

Dispose(w, h) == [Touched(w, h, "dispose") EXCEPT !.node[h].alive = FALSE, !.node[h].loading = FALSE, !.node[h].tries = 0]

\* ImageLoaderBridge::loadImage(), with a loader registered.
LoadImage(w, c, h, url) ==
    LET r == Len(w.request) + 1
    IN  [w EXCEPT !.request = Append(@, [image |-> c, node |-> h, url |-> url]),
                  !.pending = @ \cup {r}, !.loads = Append(@, r)]

\* Mutant: only the loader is told.
Cancel_KeepsPending(w, r) == w

\* ImageLoaderBridge::cancel(): the bridge forgets the request.  The task that
\* tells the loader may overtake the one that brings it the request, and what
\* the loader makes of it is its own affair: Answer has every outcome at any time.
Cancel(w, r) == [w EXCEPT !.pending = @ \ {r}]

CancelImage(w, c) ==
    [Cancel(w, w.component[c].request) EXCEPT !.component[c].request = NoRequest]
CancelBackground(w, c) ==
    [Cancel(w, w.component[c].backgroundRequest) EXCEPT !.component[c].backgroundRequest = NoRequest]

DropBackground(w, c) ==
    LET n == w.component[c].background
    IN  IF n = 0 THEN w ELSE [Dispose(w, <<c, n>>) EXCEPT !.component[c].background = 0]
-----------------------------------------------------------------------------
(* A2UIComponent::applyBackgroundImage(): a new node for every new url. *)

NewBackground(w, c, url) ==
    LET n == w.component[c].made + 1
        x == [DropBackground(CancelBackground(w, c), c) EXCEPT
                 !.component[c].background = n, !.component[c].made = n,
                 !.component[c].backgroundUrl = url, !.node = WithNode(@, <<c, n>>)]
    IN  IF hasLoader
        THEN [LoadImage(x, c, <<c, n>>, url) EXCEPT !.component[c].backgroundRequest = Len(x.request) + 1]
        ELSE SetSrc(x, <<c, n>>, url)

ApplyBackground(w, c, url) ==
    IF url = NoUrl
    THEN LET x == CancelBackground(w, c)
         IN  IF x.component[c].background = 0 THEN x
             ELSE [DropBackground(x, c) EXCEPT !.component[c].backgroundUrl = NoUrl]
    ELSE IF url = w.component[c].backgroundUrl /\ w.component[c].background # 0 THEN w
    ELSE NewBackground(w, c, url)
-----------------------------------------------------------------------------
(* ImageComponent::applyUrl(). *)

\* An update without a url applies the one there is again.
Reapply(w, c) ==
    IF w.component[c].url = NoUrl THEN w
    ELSE SetSrc([w EXCEPT !.component[c].animated = NoUrl], <<c, 0>>, w.component[c].url)

Changed(w, c, url) ==
    LET x == [CancelImage(w, c) EXCEPT !.component[c].url = url, !.component[c].animated = NoUrl,
                                       !.history.declined = @ \ {c}]
    IN  IF hasLoader
        THEN [LoadImage(x, c, <<c, 0>>, url) EXCEPT !.component[c].request = Len(x.request) + 1]
        ELSE SetSrc(x, <<c, 0>>, url)

\* The picture on the node stays when the url becomes empty.
ApplyUrl(w, c, url) ==
    CASE url = "absent" -> Reapply(w, c)
      [] url = NoUrl -> [CancelImage(w, c) EXCEPT !.component[c].url = NoUrl]
      [] url \in Urls /\ url = w.component[c].url -> SetSrc(w, <<c, 0>>, url)
      [] url \in Urls /\ url # w.component[c].url -> Changed(w, c, url)
-----------------------------------------------------------------------------
Create(c) ==
    /\ component[c].state = "unborn"
    /\ component' = [component EXCEPT ![c].state = "live"]
    /\ node' = WithNode(node, <<c, 0>>)
    /\ UNCHANGED <<request, pending, bridge, reveals, history>>

\* updateProperties(): the styles first, then the url.
Update(c, url, background) ==
    /\ component[c].state = "live"
    /\ history.updates < MaxUpdates /\ Len(request) + 2 <= MaxRequests
    /\ LET w == ApplyUrl(ApplyBackground(World, c, background), c, url)
       IN  Becomes([w EXCEPT !.history.updates = @ + 1])
    /\ UNCHANGED <<asked, hasLoader, reveals>>

\* Mutant: the background's request is left to the loader.
Destroy_LeavesBackground(c) ==
    /\ component[c].state = "live"
    /\ LET w == DropBackground(CancelImage(World, c), c)
       IN  Becomes([Dispose(w, <<c, 0>>) EXCEPT !.component[c].state = "gone"])
    /\ UNCHANGED <<asked, hasLoader, reveals>>

\* destroy(): the requests are cancelled before their nodes go.
Destroy(c) ==
    /\ component[c].state = "live"
    /\ LET x == CancelImage(World, c)
           w == IF x.component[c].background = 0 THEN x ELSE DropBackground(CancelBackground(x, c), c)
       IN  Becomes([Dispose(w, <<c, 0>>) EXCEPT !.component[c].state = "gone"])
    /\ UNCHANGED <<asked, hasLoader, reveals>>

\* registerImageLoader().
RegisterLoader ==
    /\ ~hasLoader /\ hasLoader' = TRUE
    /\ UNCHANGED <<component, node, request, pending, loads, asked, reveals, history>>
-----------------------------------------------------------------------------
(* The answer to a request: the bridge forgets it, then calls the component. *)

Forgotten(w, r) == [w EXCEPT !.pending = @ \ {r}]

\* The picture of the loader on the node; setting it makes the node report.
SetPicture(w, r) ==
    LET h == w.request[r].node
    IN  [Touched(w, h, "picture") EXCEPT !.node[h].by = "loader", !.node[h].url = w.request[r].url,
                                         !.node[h].loading = TRUE, !.node[h].tries = 0]

\* The callback of an ImageComponent.
ImageAnswered(w, r, outcome) ==
    LET c == w.request[r].image
    IN  IF w.component[c].state # "live" \/ w.component[c].request # r THEN w
        ELSE LET x == [w EXCEPT !.component[c].request = NoRequest]
             IN  CASE outcome = "success" -> x
                   [] outcome = "failure" -> SetSrc(x, <<c, 0>>, x.component[c].url)
                   [] outcome = "cancelled" -> [x EXCEPT !.history.declined = @ \cup {c}]

\* The callback of a background image.
BackgroundAnswered(w, r, outcome) ==
    IF outcome = "failure" THEN SetSrc(w, w.request[r].node, w.request[r].url) ELSE w

Answered(w, r, outcome) ==
    IF r \notin w.pending THEN w
    ELSE LET x == Forgotten(w, r)
             y == IF outcome = "success" THEN SetPicture(x, r) ELSE x
         IN  IF w.request[r].node[2] = 0 THEN ImageAnswered(y, r, outcome)
             ELSE BackgroundAnswered(y, r, outcome)

\* CallLoadImageOnJsThread(): the loader takes the request or throws.
RunLoad ==
    /\ loads # <<>>
    /\ LET r == Head(loads)
           w == [World EXCEPT !.loads = Tail(@)]
       IN  \/ asked' = asked \cup {r} /\ Becomes(w)
           \/ Becomes(Answered(w, r, "failure")) /\ UNCHANGED asked
    /\ UNCHANGED <<hasLoader, reveals>>

\* setImagePixelMap() and onImageLoadFailed().
Answer(r) ==
    /\ r \in asked /\ asked' = asked \ {r}
    /\ \E outcome \in {"success", "failure", "cancelled"} : Becomes(Answered(World, r, outcome))
    /\ UNCHANGED <<hasLoader, reveals>>
-----------------------------------------------------------------------------
(* onImageCompleteCallback(): what a node reports of the source it was given. *)

\* playMagicReveal(): animators that know the node and not the component.
Revealed(h) == reveals' = IF FadeIn THEN reveals \cup {h} ELSE reveals

Loaded(c) ==
    LET h == <<c, 0>>
        new == component[c].url = NoUrl \/ component[c].url # component[c].animated
    IN  /\ component[c].state = "live" /\ node[h].loading
        /\ node' = [node EXCEPT ![h].loading = FALSE, ![h].tries = 0]
        /\ IF new
           THEN component' = [component EXCEPT ![c].animated = component[c].url] /\ Revealed(h)
           ELSE UNCHANGED <<component, reveals>>
        /\ UNCHANGED <<request, pending, bridge, history>>

\* tries is counted modulo 2: trying for ever is not the same as standing still.
TryAgain(w, c) ==
    [SetSrc(w, <<c, 0>>, w.component[c].url) EXCEPT !.node[<<c, 0>>].tries = 1 - node[<<c, 0>>].tries]

\* Mutant: the url that is tried again is not remembered.
Retried_Forgets(w, c) == TryAgain(w, c)

\* The url is remembered, so that it is tried again only once.
Retried(w, c) == TryAgain([w EXCEPT !.component[c].animated = w.component[c].url], c)

\* A failure without a size is tried again, one with a size is taken for a picture.
NotLoaded(c) ==
    /\ component[c].state = "live" /\ node[<<c, 0>>].loading
    /\ LET w == [World EXCEPT !.node[<<c, 0>>].loading = FALSE, !.node[<<c, 0>>].tries = 0]
           again == component[c].url # NoUrl /\ component[c].url # component[c].animated
       IN  \/ Becomes(IF again THEN Retried(w, c) ELSE w)
           \/ Becomes([w EXCEPT !.component[c].animated = component[c].url])
    /\ UNCHANGED <<asked, hasLoader, reveals>>

\* The nodes of backgrounds have no receiver for what they report.
BackgroundReports(h) ==
    /\ h[2] # 0 /\ node[h].loading
    /\ node' = [node EXCEPT ![h].loading = FALSE]
    /\ UNCHANGED <<component, request, pending, bridge, reveals, history>>

\* The last frame of an animator and its end.
AnimatorEnds(h) ==
    /\ h \in reveals /\ reveals' = reveals \ {h}
    /\ history' = Touched(World, h, "animation").history
    /\ UNCHANGED <<component, node, request, pending, bridge>>
-----------------------------------------------------------------------------
Reports(c) == Loaded(c) \/ NotLoaded(c)

Next ==
    \/ \E c \in Images : \/ Create(c) \/ Destroy(c) \/ Reports(c)
                         \/ \E url \in Urls \cup {NoUrl, "absent"}, background \in Urls \cup {NoUrl} :
                               Update(c, url, background)
    \/ RegisterLoader \/ RunLoad
    \/ \E r \in Requests : Answer(r)
    \/ \E h \in DOMAIN node : BackgroundReports(h) \/ AnimatorEnds(h)

Spec == Init /\ [][Next]_vars

\* The main thread runs its tasks, a node reports every source it is given and
\* a loader answers every request, as IImageLoader demands: while requests are
\* finitely many it is enough that it does not stop answering.
Fairness == /\ WF_vars(RunLoad)
            /\ WF_vars(\E r \in Requests : Answer(r))
            /\ \A c \in Images : WF_vars(Reports(c))

FairSpec == Spec /\ Fairness
-----------------------------------------------------------------------------
Handles == Images \X (0..MaxRequests + MaxUpdates)

TypeOK ==
    /\ \A c \in Images :
          /\ component[c].state \in {"unborn", "live", "gone"}
          /\ {component[c].url, component[c].animated, component[c].backgroundUrl} \subseteq Urls \cup {NoUrl}
          /\ {component[c].request, component[c].backgroundRequest} \subseteq {NoRequest} \cup DOMAIN request
          /\ component[c].background \in 0..component[c].made
    /\ DOMAIN node \subseteq Handles
    /\ \A h \in DOMAIN node : /\ node[h].by \in {"nothing", "native", "loader"}
                              /\ node[h].alive = (component[h[1]].state = "live"
                                                  /\ h[2] \in {0, component[h[1]].background})
    /\ pending \cup asked \subseteq DOMAIN request
    /\ \A r \in DOMAIN request : request[r].node \in DOMAIN node

\* A request that the bridge still answers is the current one of a live
\* component, for the url the component has now and a node it still has; a
\* component that waits for a request waits for one that will be answered.
\* The type invariant is part of it.
RequestsAreOwned ==
    /\ TypeOK
    /\ \A r \in pending :
          LET c == request[r].image
              own == request[r].node[2] = 0
          IN  /\ component[c].state = "live" /\ node[request[r].node].alive
              /\ IF own THEN component[c].request = r /\ component[c].url = request[r].url
                 ELSE /\ component[c].backgroundRequest = r /\ component[c].backgroundUrl = request[r].url
                      /\ component[c].background = request[r].node[2]
              /\ r \in asked \/ \E n \in DOMAIN loads : loads[n] = r
    /\ \A c \in Images : component[c].request # NoRequest => component[c].request \in pending

\* A node is given a picture or a source only while it exists, and the picture
\* on it is never that of a url the component has left behind: it may be old
\* while a request is pending, when the url is empty and when the loader says
\* that it cancelled the request.
ShownIsCurrent ==
    /\ history.dead \subseteq {"animation"}
    /\ \A c \in Images :
          (component[c].state = "live" /\ component[c].url # NoUrl
             /\ node[<<c, 0>>].url # component[c].url)
          => component[c].request # NoRequest \/ c \in history.declined
    /\ \A h \in DOMAIN node :
          (h[2] # 0 /\ node[h].alive /\ node[h].by # "nothing") => node[h].url = component[h[1]].backgroundUrl

\* Once nobody updates the images, every request is answered and every component
\* stops loading, also when everything fails.
Settled ==
    /\ pending = {}
    /\ \A c \in Images : component[c].state = "live" => ~node[<<c, 0>>].loading
EverythingSettles == <>[]Settled
==============================================================================
