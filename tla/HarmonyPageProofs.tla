--------------------------- MODULE HarmonyPageProofs ---------------------------
(***************************************************************************)
(* What holds of every class of components on a page of the HarmonyOS        *)
(* renderer, for any number of urls, clicks, options, edits and updates.     *)
(*                                                                           *)
(* A player.  What it plays is the component's url, and what the play button *)
(* shows is what the player does once its reports have been heard.           *)
(*                                                                           *)
(* A report says what the player was, not what it is, so the invariant reads *)
(* the whole looper: its last report tells the player's state, "initialized" *)
(* comes after "idle" and "prepared" after "initialized".  The order is      *)
(* needed because a video leaves its button alone on these two: when one of  *)
(* them is heard first, the button does not show "pause".                    *)
(*                                                                           *)
(* An input.  What the user sees and what the data model holds agree once    *)
(* nothing is under way.                                                     *)
(*                                                                           *)
(* A report has only the fields that changed, so the invariant goes field by *)
(* field: the last report that has a field tells what the snapshot says of   *)
(* it, and a field that no report has is already shown as it is there.  The  *)
(* value is the exception, for the user changes it first: then it has been   *)
(* rejected, or the change is still in the worker's queue.                   *)
(*                                                                           *)
(* An image.  Requests belong to live components and pictures to current     *)
(* urls.                                                                     *)
(*                                                                           *)
(* A callback passes a world from operator to operator, and halfway through  *)
(* it a component may have a url that it has not asked for yet, or wait for  *)
(* a request that is answered.  The invariant therefore excuses a set of     *)
(* images; between two callbacks the set is empty.                           *)
(***************************************************************************)
EXTENDS HarmonyPage, TLAPS
-----------------------------------------------------------------------------
(* The images. *)

Parts == [state : {"unborn", "live", "gone"}, url : Urls \cup {NoUrl}, request : Nat,
          animated : Urls \cup {NoUrl}, background : Nat, backgroundUrl : Urls \cup {NoUrl},
          backgroundRequest : Nat, made : Nat]
Nodes == [alive : BOOLEAN, by : {"nothing", "native", "loader"}, url : Urls \cup {NoUrl},
          loading : BOOLEAN, tries : {0, 1}]
Orders == [image : Images, node : Images \X Nat, url : Urls]

IsWorld(w) ==
    /\ w = [component |-> w.component, node |-> w.node, request |-> w.request, pending |-> w.pending,
            loads |-> w.loads, history |-> w.history]
    /\ w.component \in [Images -> Parts]
    /\ w.node \in [DOMAIN w.node -> Nodes] /\ DOMAIN w.node \subseteq Images \X Nat
    /\ w.request \in Seq(Orders)
    /\ w.loads \in Seq(Nat) /\ \A n \in DOMAIN w.loads : w.loads[n] \in DOMAIN w.request
    /\ w.pending \subseteq DOMAIN w.request
    /\ w.history = [updates |-> w.history.updates, dead |-> w.history.dead, declined |-> w.history.declined]
    /\ w.history.updates \in Nat /\ w.history.dead \subseteq {"animation"}

\* A component waits for a request that will be answered.
Waits(w, c) == w.component[c].request # NoRequest => w.component[c].request \in w.pending

\* The picture of a component that waits for nothing is that of its url.
ShowsUrl(w, c) ==
    (w.component[c].state = "live" /\ w.component[c].url # NoUrl /\ w.node[<<c, 0>>].url # w.component[c].url)
        => w.component[c].request # NoRequest \/ c \in w.history.declined

PartOK(w, c, limit) ==
    LET p == w.component[c]
    IN  /\ p.made <= limit /\ p.background <= p.made
        /\ p.state = "unborn" => p = Fresh
        /\ p.state # "unborn" => <<c, 0>> \in DOMAIN w.node
        /\ p.state = "live" /\ p.background # 0 => <<c, p.background>> \in DOMAIN w.node
        /\ p.request # NoRequest => p.request \in DOMAIN w.request /\ w.request[p.request].node = <<c, 0>>
        /\ p.backgroundRequest # NoRequest =>
              /\ p.backgroundRequest \in DOMAIN w.request
              /\ w.request[p.backgroundRequest].node[1] = c /\ w.request[p.backgroundRequest].node[2] # 0

NodeOK(w, h) ==
    LET p == w.component[h[1]]
    IN  /\ h[2] <= p.made
        /\ w.node[h].alive = (p.state = "live" /\ h[2] \in {0, p.background})
        /\ h[2] # 0 /\ w.node[h].alive /\ w.node[h].by # "nothing" => w.node[h].url = p.backgroundUrl

OrderOK(w, r) == w.request[r].node[1] = w.request[r].image /\ w.request[r].node \in DOMAIN w.node

\* A pending request is that of its component, for its url and its node; the
\* loader will be, or has been, asked.
Owned(w, r, loader) ==
    LET p == w.component[w.request[r].image]
        n == w.request[r].node[2]
    IN  /\ p.state = "live"
        /\ n = 0 => p.request = r /\ p.url = w.request[r].url
        /\ n # 0 => p.backgroundRequest = r /\ p.backgroundUrl = w.request[r].url /\ p.background = n
        /\ r \in loader \/ \E k \in DOMAIN w.loads : w.loads[k] = r

\* limit: the backgrounds a component may have made; loader: what the loader was
\* asked; excused: the images a callback is at work with.
Good(w, limit, loader, excused) ==
    /\ IsWorld(w) /\ limit \in Nat /\ loader \subseteq DOMAIN w.request
    /\ \A c \in Images : PartOK(w, c, limit)
    /\ \A h \in DOMAIN w.node : NodeOK(w, h)
    /\ \A r \in DOMAIN w.request : OrderOK(w, r)
    /\ \A r \in w.pending : Owned(w, r, loader)
    /\ \A c \in Images : c \in excused \/ (Waits(w, c) /\ ShowsUrl(w, c))

ImageInv == Good(World, history.updates, asked, {})
-----------------------------------------------------------------------------
(* Parts of a world that change. *)

PutPart(w, c, p) == [w EXCEPT !.component[c] = p]
PutNode(w, h, k) == [w EXCEPT !.node[h] = k]
WithPicture(w, h, by, url) ==
    [w EXCEPT !.node[h].by = by, !.node[h].url = url, !.node[h].loading = TRUE, !.node[h].tries = 0]

LEMMA WorldParts ==
    ASSUME NEW w, IsWorld(w), NEW c \in Images, NEW p \in Parts
    PROVE  LET x == PutPart(w, c, p)
           IN  /\ IsWorld(x) /\ x.node = w.node /\ x.request = w.request /\ x.pending = w.pending
               /\ x.loads = w.loads /\ x.history = w.history
               /\ x.component[c] = p /\ \A d \in Images \ {c} : x.component[d] = w.component[d]
<1> DEFINE parts == [w.component EXCEPT ![c] = p]
           x == [component |-> parts, node |-> w.node, request |-> w.request, pending |-> w.pending,
                 loads |-> w.loads, history |-> w.history]
<1>1. PutPart(w, c, p) = x
  <2>1. w = [component |-> w.component, node |-> w.node, request |-> w.request, pending |-> w.pending,
             loads |-> w.loads, history |-> w.history]
    BY DEF IsWorld
  <2>2. PutPart(w, c, p) = [w EXCEPT !.component = parts]
    BY DEF PutPart
  <2> HIDE DEF parts
  <2>3. [w EXCEPT !.component = parts] = x
    BY <2>1
  <2> QED
    BY <2>2, <2>3
<1>2. parts \in [Images -> Parts] /\ parts[c] = p /\ \A d \in Images \ {c} : parts[d] = w.component[d]
  BY DEF IsWorld
<1> HIDE DEF parts
<1>3. IsWorld(x)
  BY <1>2 DEF IsWorld
<1> QED
  BY <1>1, <1>2, <1>3

LEMMA WorldNode ==
    ASSUME NEW w, IsWorld(w), NEW h \in DOMAIN w.node, NEW k \in Nodes
    PROVE  LET x == PutNode(w, h, k)
           IN  /\ IsWorld(x) /\ x.component = w.component /\ x.request = w.request /\ x.pending = w.pending
               /\ x.loads = w.loads /\ x.history = w.history /\ DOMAIN x.node = DOMAIN w.node
               /\ x.node[h] = k /\ \A g \in DOMAIN w.node \ {h} : x.node[g] = w.node[g]
<1> DEFINE nodes == [w.node EXCEPT ![h] = k]
           x == [component |-> w.component, node |-> nodes, request |-> w.request, pending |-> w.pending,
                 loads |-> w.loads, history |-> w.history]
<1>1. PutNode(w, h, k) = x
  <2>1. w = [component |-> w.component, node |-> w.node, request |-> w.request, pending |-> w.pending,
             loads |-> w.loads, history |-> w.history]
    BY DEF IsWorld
  <2>2. PutNode(w, h, k) = [w EXCEPT !.node = nodes]
    BY DEF PutNode
  <2> HIDE DEF nodes
  <2>3. [w EXCEPT !.node = nodes] = x
    BY <2>1
  <2> QED
    BY <2>2, <2>3
<1>2. /\ nodes \in [DOMAIN w.node -> Nodes] /\ DOMAIN nodes = DOMAIN w.node
      /\ nodes[h] = k /\ \A g \in DOMAIN w.node \ {h} : nodes[g] = w.node[g]
  BY DEF IsWorld
<1> HIDE DEF nodes
<1>3. IsWorld(x)
  BY <1>2 DEF IsWorld
<1> QED
  BY <1>1, <1>2, <1>3

LEMMA WorldPending ==
    ASSUME NEW w, IsWorld(w), NEW r
    PROVE  LET x == Forgotten(w, r)
           IN  /\ IsWorld(x) /\ x.component = w.component /\ x.node = w.node /\ x.request = w.request
               /\ x.loads = w.loads /\ x.history = w.history /\ x.pending = w.pending \ {r}
<1> DEFINE rest == w.pending \ {r}
           x == [component |-> w.component, node |-> w.node, request |-> w.request, pending |-> rest,
                 loads |-> w.loads, history |-> w.history]
<1>1. Forgotten(w, r) = x
  <2>1. w = [component |-> w.component, node |-> w.node, request |-> w.request, pending |-> w.pending,
             loads |-> w.loads, history |-> w.history]
    BY DEF IsWorld
  <2>2. Forgotten(w, r) = [w EXCEPT !.pending = rest]
    BY DEF Forgotten
  <2> HIDE DEF rest
  <2>3. [w EXCEPT !.pending = rest] = x
    BY <2>1
  <2> QED
    BY <2>2, <2>3
<1>2. IsWorld(x)
  BY DEF IsWorld
<1> QED
  BY <1>1, <1>2

LEMMA PartIs ==
    ASSUME NEW w, IsWorld(w), NEW c \in Images
    PROVE  w.component[c] \in Parts
  BY DEF IsWorld

LEMMA NodeIs ==
    ASSUME NEW w, IsWorld(w), NEW h \in DOMAIN w.node
    PROVE  /\ w.node[h] \in Nodes /\ h[1] \in Images /\ h[2] \in Nat /\ h = <<h[1], h[2]>>
  BY DEF IsWorld

LEMMA OrderIs ==
    ASSUME NEW w, IsWorld(w), NEW r \in DOMAIN w.request
    PROVE  /\ w.request[r].image \in Images /\ w.request[r].url \in Urls /\ w.request[r].node[2] \in Nat
           /\ w.request[r].node[1] \in Images /\ w.request[r].node = <<w.request[r].node[1], w.request[r].node[2]>>
           /\ r \in Nat \ {0}
<1>1. r \in Nat \ {0} /\ w.request[r] \in Orders
  BY DEF IsWorld
<1> HIDE DEF IsWorld
<1>2. \A o \in Orders : /\ o.image \in Images /\ o.url \in Urls /\ o.node[2] \in Nat /\ o.node[1] \in Images
                        /\ o.node = <<o.node[1], o.node[2]>>
  BY DEF Orders
<1> QED
  BY <1>1, <1>2
-----------------------------------------------------------------------------
(* What the operators do to a world. *)

\* A source or a picture is put on a node that is there: it is that of the
\* component's url, or of its background's.
LEMMA PictureGood ==
    ASSUME NEW w, NEW limit, NEW loader, NEW excused, Good(w, limit, loader, excused),
           NEW h \in DOMAIN w.node, w.node[h].alive,
           NEW k \in Nodes, k.alive = w.node[h].alive,
           h[2] = 0 => w.component[h[1]].url \in {NoUrl, k.url},
           h[2] # 0 => w.component[h[1]].backgroundUrl = k.url
    PROVE  LET x == PutNode(w, h, k)
           IN  /\ Good(x, limit, loader, excused)
               /\ x.component = w.component /\ x.request = w.request /\ x.pending = w.pending
               /\ x.loads = w.loads /\ x.history = w.history
               /\ h[2] = 0 => ShowsUrl(x, h[1])
<1> DEFINE x == PutNode(w, h, k)
<1>1. IsWorld(w)
  BY DEF Good
<1>2. /\ IsWorld(x) /\ x.component = w.component /\ x.request = w.request /\ x.pending = w.pending
      /\ x.loads = w.loads /\ x.history = w.history /\ DOMAIN x.node = DOMAIN w.node
      /\ x.node[h] = k /\ \A g \in DOMAIN w.node \ {h} : x.node[g] = w.node[g]
  BY <1>1, WorldNode
<1> HIDE DEF x
<1>3. ASSUME NEW c \in Images PROVE PartOK(x, c, limit)
  <2>1. PartOK(w, c, limit)
    BY DEF Good
  <2> QED
    BY <1>2, <2>1 DEF PartOK
<1>4. ASSUME NEW g \in DOMAIN x.node PROVE NodeOK(x, g)
  <2>1. NodeOK(w, g)
    BY <1>2 DEF Good
  <2>2. CASE g = h
    BY <1>2, <2>1, <2>2 DEF NodeOK
  <2>3. CASE g # h
    BY <1>2, <2>1, <2>3 DEF NodeOK
  <2> QED
    BY <2>2, <2>3
<1>5. ASSUME NEW r \in DOMAIN x.request PROVE OrderOK(x, r)
  BY <1>2 DEF Good, OrderOK
<1>6. ASSUME NEW r \in x.pending PROVE Owned(x, r, loader)
  BY <1>2 DEF Good, Owned
<1>7. h[2] = 0 => ShowsUrl(x, h[1])
  BY <1>1, <1>2, NodeIs DEF ShowsUrl
<1>8. ASSUME NEW c \in Images, c \notin excused PROVE Waits(x, c) /\ ShowsUrl(x, c)
  <2>1. Waits(w, c) /\ ShowsUrl(w, c)
    BY <1>8 DEF Good
  <2>2. Waits(x, c)
    BY <1>2, <2>1 DEF Waits
  <2>3. CASE h = <<c, 0>>
    BY <1>7, <2>2, <2>3
  <2>4. CASE h # <<c, 0>>
    <3>1. <<c, 0>> \in DOMAIN w.node \/ w.component[c].state # "live"
      BY DEF Good, PartOK
    <3> QED
      BY <1>2, <2>1, <2>2, <2>4, <3>1 DEF ShowsUrl
  <2> QED
    BY <2>3, <2>4
<1>9. Good(x, limit, loader, excused)
  BY <1>2, <1>3, <1>4, <1>5, <1>6, <1>8 DEF Good
<1> QED
  BY <1>2, <1>7, <1>9 DEF x

\* The last thing put on a node counts.
LEMMA PutTwice ==
    ASSUME NEW w, IsWorld(w), NEW h \in DOMAIN w.node
    PROVE  \A k, l : PutNode(w, h, k).node[h] = k /\ PutNode(PutNode(w, h, k), h, l) = PutNode(w, h, l)
<1> SUFFICES ASSUME NEW k, NEW l
             PROVE  PutNode(w, h, k).node[h] = k /\ PutNode(PutNode(w, h, k), h, l) = PutNode(w, h, l)
  OBVIOUS
<1> DEFINE x == [component |-> w.component, node |-> [w.node EXCEPT ![h] = k], request |-> w.request,
                 pending |-> w.pending, loads |-> w.loads, history |-> w.history]
           y == [component |-> w.component, node |-> [w.node EXCEPT ![h] = l], request |-> w.request,
                 pending |-> w.pending, loads |-> w.loads, history |-> w.history]
<1>1. w = [component |-> w.component, node |-> w.node, request |-> w.request, pending |-> w.pending,
           loads |-> w.loads, history |-> w.history]
  BY DEF IsWorld
<1>2. PutNode(w, h, k) = x /\ PutNode(w, h, l) = y
  BY <1>1 DEF PutNode
<1>3. w.node \in [DOMAIN w.node -> Nodes]
  BY DEF IsWorld
<1>4. x.node[h] = k
  BY <1>3
<1>5. [[w.node EXCEPT ![h] = k] EXCEPT ![h] = l] = [w.node EXCEPT ![h] = l]
  BY <1>3
<1>6. PutNode(x, h, l) = y
  BY <1>5 DEF PutNode
<1> QED
  BY <1>2, <1>4, <1>6

\* What SetSrc() and SetPicture() write on a node.
LEMMA PutFields ==
    ASSUME NEW w, IsWorld(w), NEW h \in DOMAIN w.node, NEW by \in {"native", "loader"}, NEW url \in Urls \cup {NoUrl}
    PROVE  \E k \in Nodes :
              /\ WithPicture(w, h, by, url) = PutNode(w, h, k)
              /\ k.alive = w.node[h].alive /\ k.url = url
<1> DEFINE k1 == [w.node[h] EXCEPT !.by = by]
           k2 == [k1 EXCEPT !.url = url]
           k3 == [k2 EXCEPT !.loading = TRUE]
           k4 == [k3 EXCEPT !.tries = 0]
           x1 == PutNode(w, h, k1)
           x2 == PutNode(w, h, k2)
           x3 == PutNode(w, h, k3)
           x4 == PutNode(w, h, k4)
<1>0. \A k, l : PutNode(w, h, k).node[h] = k /\ PutNode(PutNode(w, h, k), h, l) = PutNode(w, h, l)
  BY PutTwice
<1>1. k4 \in Nodes /\ k4.alive = w.node[h].alive /\ k4.url = url
  <2>1. \A n \in Nodes : [n EXCEPT !.by = by] \in Nodes /\ [n EXCEPT !.by = by].alive = n.alive
    BY DEF Nodes
  <2>2. \A n \in Nodes : /\ [n EXCEPT !.url = url] \in Nodes /\ [n EXCEPT !.url = url].alive = n.alive
                         /\ [n EXCEPT !.url = url].url = url
    BY DEF Nodes
  <2>3. \A n \in Nodes : /\ [n EXCEPT !.loading = TRUE] \in Nodes /\ [n EXCEPT !.loading = TRUE].alive = n.alive
                         /\ [n EXCEPT !.loading = TRUE].url = n.url
    BY DEF Nodes
  <2>4. \A n \in Nodes : /\ [n EXCEPT !.tries = 0] \in Nodes /\ [n EXCEPT !.tries = 0].alive = n.alive
                         /\ [n EXCEPT !.tries = 0].url = n.url
    BY DEF Nodes
  <2>5. w.node[h] \in Nodes
    BY NodeIs
  <2>6. k1 \in Nodes /\ k1.alive = w.node[h].alive
    BY <2>1, <2>5
  <2> HIDE DEF k1
  <2>7. k2 \in Nodes /\ k2.alive = w.node[h].alive /\ k2.url = url
    BY <2>2, <2>6
  <2> HIDE DEF k2
  <2>8. k3 \in Nodes /\ k3.alive = w.node[h].alive /\ k3.url = url
    BY <2>3, <2>7
  <2> HIDE DEF k3
  <2> QED
    BY <2>4, <2>8
<1>2. [w EXCEPT !.node[h].by = by] = x1
  BY DEF PutNode
<1> HIDE DEF k1
<1>3. [x1 EXCEPT !.node[h].url = url] = x2
  <2>1. x1.node[h] = k1
    BY <1>0
  <2>2. \A k : PutNode(x1, h, k) = PutNode(w, h, k)
    BY <1>0
  <2> HIDE DEF x1
  <2>3. [x1 EXCEPT !.node[h].url = url] = PutNode(x1, h, [x1.node[h] EXCEPT !.url = url])
    BY DEF PutNode
  <2> QED
    BY <2>1, <2>2, <2>3
<1> HIDE DEF k2, x1
<1>4. [x2 EXCEPT !.node[h].loading = TRUE] = x3
  <2>1. x2.node[h] = k2
    BY <1>0
  <2>2. \A k : PutNode(x2, h, k) = PutNode(w, h, k)
    BY <1>0
  <2> HIDE DEF x2
  <2>3. [x2 EXCEPT !.node[h].loading = TRUE] = PutNode(x2, h, [x2.node[h] EXCEPT !.loading = TRUE])
    BY DEF PutNode
  <2> QED
    BY <2>1, <2>2, <2>3
<1> HIDE DEF k3, x2
<1>5. [x3 EXCEPT !.node[h].tries = 0] = x4
  <2>1. x3.node[h] = k3
    BY <1>0
  <2>2. \A k : PutNode(x3, h, k) = PutNode(w, h, k)
    BY <1>0
  <2> HIDE DEF x3
  <2>3. [x3 EXCEPT !.node[h].tries = 0] = PutNode(x3, h, [x3.node[h] EXCEPT !.tries = 0])
    BY DEF PutNode
  <2> QED
    BY <2>1, <2>2, <2>3
<1> HIDE DEF k4, x3
<1>6. WithPicture(w, h, by, url) = x4
  BY <1>2, <1>3, <1>4, <1>5 DEF WithPicture
<1> QED
  BY <1>1, <1>6

LEMMA SetSrcIs ==
    ASSUME NEW w, IsWorld(w), NEW h \in DOMAIN w.node, w.node[h].alive, NEW url \in Urls \cup {NoUrl}
    PROVE  \E k \in Nodes : SetSrc(w, h, url) = PutNode(w, h, k) /\ k.alive = w.node[h].alive /\ k.url = url
<1>1. Touched(w, h, "source") = w
  BY DEF Touched
<1>2. PICK k \in Nodes :
          /\ WithPicture(w, h, "native", url) = PutNode(w, h, k)
          /\ k.alive = w.node[h].alive /\ k.url = url
  BY PutFields
<1>3. SetSrc(w, h, url) = PutNode(w, h, k)
  BY <1>1, <1>2 DEF SetSrc, WithPicture
<1> QED
  BY <1>2, <1>3

LEMMA PartTwice ==
    ASSUME NEW w, IsWorld(w), NEW c \in Images
    PROVE  \A p, q : PutPart(w, c, p).component[c] = p /\ PutPart(PutPart(w, c, p), c, q) = PutPart(w, c, q)
<1> SUFFICES ASSUME NEW p, NEW q
             PROVE  PutPart(w, c, p).component[c] = p /\ PutPart(PutPart(w, c, p), c, q) = PutPart(w, c, q)
  OBVIOUS
<1> DEFINE x == [component |-> [w.component EXCEPT ![c] = p], node |-> w.node, request |-> w.request,
                 pending |-> w.pending, loads |-> w.loads, history |-> w.history]
           y == [component |-> [w.component EXCEPT ![c] = q], node |-> w.node, request |-> w.request,
                 pending |-> w.pending, loads |-> w.loads, history |-> w.history]
<1>1. w = [component |-> w.component, node |-> w.node, request |-> w.request, pending |-> w.pending,
           loads |-> w.loads, history |-> w.history]
  BY DEF IsWorld
<1>2. PutPart(w, c, p) = x /\ PutPart(w, c, q) = y
  BY <1>1 DEF PutPart
<1>3. w.component \in [Images -> Parts]
  BY DEF IsWorld
<1>4. x.component[c] = p
  BY <1>3
<1>5. [[w.component EXCEPT ![c] = p] EXCEPT ![c] = q] = [w.component EXCEPT ![c] = q]
  BY <1>3
<1>6. PutPart(x, c, q) = y
  BY <1>5 DEF PutPart
<1> QED
  BY <1>2, <1>4, <1>6

\* A component that changes concerns itself, its nodes and its requests.
LEMMA PartGood ==
    ASSUME NEW w, NEW limit, NEW loader, NEW excused, Good(w, limit, loader, excused),
           NEW c \in Images, NEW p \in Parts, PartOK(PutPart(w, c, p), c, limit),
           \A h \in DOMAIN w.node : h[1] = c => NodeOK(PutPart(w, c, p), h),
           \A r \in w.pending : w.request[r].image = c => Owned(PutPart(w, c, p), r, loader),
           c \in excused \/ (Waits(PutPart(w, c, p), c) /\ ShowsUrl(PutPart(w, c, p), c))
    PROVE  Good(PutPart(w, c, p), limit, loader, excused)
<1> DEFINE x == PutPart(w, c, p)
<1>1. IsWorld(w)
  BY DEF Good
<1>2. /\ IsWorld(x) /\ x.node = w.node /\ x.request = w.request /\ x.pending = w.pending
      /\ x.loads = w.loads /\ x.history = w.history
      /\ x.component[c] = p /\ \A d \in Images \ {c} : x.component[d] = w.component[d]
  BY <1>1, WorldParts
<1> HIDE DEF x
<1>3. ASSUME NEW d \in Images PROVE PartOK(x, d, limit)
  <2>1. PartOK(w, d, limit)
    BY DEF Good
  <2>2. CASE d = c
    BY <2>2 DEF x
  <2>3. CASE d # c
    BY <1>2, <2>1, <2>3 DEF PartOK
  <2> QED
    BY <2>2, <2>3
<1>4. ASSUME NEW h \in DOMAIN x.node PROVE NodeOK(x, h)
  <2>1. NodeOK(w, h) /\ h[1] \in Images
    BY <1>1, <1>2, NodeIs DEF Good
  <2>2. CASE h[1] = c
    BY <1>2, <2>2 DEF x
  <2>3. CASE h[1] # c
    BY <1>2, <2>1, <2>3 DEF NodeOK
  <2> QED
    BY <2>2, <2>3
<1>5. ASSUME NEW r \in DOMAIN x.request PROVE OrderOK(x, r)
  BY <1>2 DEF Good, OrderOK
<1>6. ASSUME NEW r \in x.pending PROVE Owned(x, r, loader)
  <2>1. Owned(w, r, loader) /\ r \in DOMAIN w.request
    BY <1>2 DEF Good, IsWorld
  <2>2. w.request[r].image \in Images
    BY <1>1, <2>1, OrderIs
  <2>3. CASE w.request[r].image = c
    BY <1>2, <2>3 DEF x
  <2>4. CASE w.request[r].image # c
    <3>1. x.component[w.request[r].image] = w.component[w.request[r].image]
      BY <1>2, <2>2, <2>4
    <3>2. x.request = w.request /\ x.loads = w.loads
      BY <1>2
    <3> HIDE DEF x
    <3> QED
      BY <2>1, <3>1, <3>2 DEF Owned
  <2> QED
    BY <2>3, <2>4
<1>7. ASSUME NEW d \in Images, d \notin excused PROVE Waits(x, d) /\ ShowsUrl(x, d)
  <2>1. Waits(w, d) /\ ShowsUrl(w, d)
    BY <1>7 DEF Good
  <2>2. CASE d = c
    BY <1>7, <2>2 DEF x
  <2>3. CASE d # c
    BY <1>2, <2>1, <2>3 DEF Waits, ShowsUrl
  <2> QED
    BY <2>2, <2>3
<1>8. Good(x, limit, loader, excused)
  BY <1>2, <1>3, <1>4, <1>5, <1>6, <1>7 DEF Good
<1> QED
  BY <1>8 DEF x

\* A request that is forgotten: only its own component may go on waiting for it.
LEMMA ForgetGood ==
    ASSUME NEW w, NEW limit, NEW loader, NEW excused, NEW more, Good(w, limit, loader, excused),
           NEW r, \A c \in Images : w.component[c].request = r /\ r # NoRequest => c \in more
    PROVE  Good(Forgotten(w, r), limit, loader \ {r}, excused \cup more)
<1> DEFINE x == Forgotten(w, r)
<1>1. IsWorld(w)
  BY DEF Good
<1>2. /\ IsWorld(x) /\ x.component = w.component /\ x.node = w.node /\ x.request = w.request
      /\ x.loads = w.loads /\ x.history = w.history /\ x.pending = w.pending \ {r}
  BY <1>1, WorldPending
<1> HIDE DEF x
<1>3. /\ \A c \in Images : PartOK(x, c, limit)
      /\ \A h \in DOMAIN x.node : NodeOK(x, h)
      /\ \A q \in DOMAIN x.request : OrderOK(x, q)
  <2>1. ASSUME NEW c \in Images PROVE PartOK(x, c, limit)
    <3>1. PartOK(w, c, limit)
      BY DEF Good
    <3> QED
      BY <1>2, <3>1 DEF PartOK
  <2>2. ASSUME NEW h \in DOMAIN x.node PROVE NodeOK(x, h)
    <3>1. NodeOK(w, h)
      BY <1>2 DEF Good
    <3> QED
      BY <1>2, <3>1 DEF NodeOK
  <2>3. ASSUME NEW q \in DOMAIN x.request PROVE OrderOK(x, q)
    BY <1>2 DEF Good, OrderOK
  <2> QED
    BY <2>1, <2>2, <2>3
<1>4. \A q \in x.pending : Owned(x, q, loader \ {r})
  BY <1>2 DEF Good, Owned
<1>5. ASSUME NEW c \in Images, c \notin excused, c \notin more PROVE Waits(x, c) /\ ShowsUrl(x, c)
  <2>1. Waits(w, c) /\ ShowsUrl(w, c)
    BY <1>5 DEF Good
  <2> QED
    BY <1>2, <1>5, <2>1 DEF Waits, ShowsUrl
<1>6. Good(x, limit, loader \ {r}, excused \cup more)
  BY <1>2, <1>3, <1>4, <1>5 DEF Good
<1> QED
  BY <1>6 DEF x

LEMMA MoreGood ==
    ASSUME NEW w, NEW limit, NEW loader, NEW excused, Good(w, limit, loader, excused),
           NEW more, limit <= more, more \in Nat,
           NEW asks, loader \subseteq asks, asks \subseteq DOMAIN w.request,
           NEW others, \A c \in Images : c \in excused => c \in others \/ (Waits(w, c) /\ ShowsUrl(w, c))
    PROVE  Good(w, more, asks, others)
<1>1. \A c \in Images : PartOK(w, c, more)
  <2> SUFFICES ASSUME NEW c \in Images PROVE PartOK(w, c, more)
    OBVIOUS
  <2>1. PartOK(w, c, limit) /\ limit \in Nat /\ w.component[c] \in Parts
    BY PartIs DEF Good
  <2>2. w.component[c].made \in Nat
    BY <2>1 DEF Parts
  <2>3. w.component[c].made <= limit /\ limit \in Nat
    BY <2>1 DEF PartOK, Good
  <2>4. \A n, l, m \in Nat : n <= l /\ l <= m => n <= m
    OBVIOUS
  <2>5. w.component[c].made <= more
    BY <2>2, <2>3, <2>4
  <2> QED
    BY <2>1, <2>5 DEF PartOK
<1>2. \A r \in w.pending : Owned(w, r, asks)
  BY DEF Good, Owned
<1> QED
  BY <1>1, <1>2 DEF Good
-----------------------------------------------------------------------------
(* The operators of the bridge and of the components. *)

LEMMA SetSrcGood ==
    ASSUME NEW w, NEW limit, NEW loader, NEW excused, Good(w, limit, loader, excused),
           NEW h \in DOMAIN w.node, w.node[h].alive, NEW url \in Urls \cup {NoUrl},
           h[2] = 0 => w.component[h[1]].url \in {NoUrl, url},
           h[2] # 0 => w.component[h[1]].backgroundUrl = url
    PROVE  /\ Good(SetSrc(w, h, url), limit, loader, excused)
           /\ SetSrc(w, h, url).component = w.component /\ SetSrc(w, h, url).request = w.request
           /\ SetSrc(w, h, url).pending = w.pending /\ SetSrc(w, h, url).history = w.history
           /\ h[2] = 0 => ShowsUrl(SetSrc(w, h, url), h[1])
<1>1. IsWorld(w)
  BY DEF Good
<1>2. PICK k \in Nodes : SetSrc(w, h, url) = PutNode(w, h, k) /\ k.alive = w.node[h].alive /\ k.url = url
  BY <1>1, SetSrcIs
<1>3. /\ k.alive = w.node[h].alive
      /\ h[2] = 0 => w.component[h[1]].url \in {NoUrl, k.url}
      /\ h[2] # 0 => w.component[h[1]].backgroundUrl = k.url
  BY <1>2
<1>4. /\ Good(PutNode(w, h, k), limit, loader, excused)
      /\ PutNode(w, h, k).component = w.component /\ PutNode(w, h, k).request = w.request
      /\ PutNode(w, h, k).pending = w.pending /\ PutNode(w, h, k).history = w.history
      /\ h[2] = 0 => ShowsUrl(PutNode(w, h, k), h[1])
  BY <1>3, PictureGood
<1> QED
  BY <1>2, <1>4

\* A live component has its node, and the node of its background.
LEMMA LiveNodes ==
    ASSUME NEW w, NEW limit, NEW loader, NEW excused, Good(w, limit, loader, excused),
           NEW c \in Images, w.component[c].state = "live"
    PROVE  /\ <<c, 0>> \in DOMAIN w.node /\ w.node[<<c, 0>>].alive
           /\ LET n == w.component[c].background
              IN  n # 0 => <<c, n>> \in DOMAIN w.node /\ w.node[<<c, n>>].alive
<1>1. PartOK(w, c, limit)
  BY DEF Good
<1>2. <<c, 0>> \in DOMAIN w.node /\ NodeOK(w, <<c, 0>>)
  BY <1>1 DEF PartOK, Good
<1>3. ASSUME w.component[c].background # 0
      PROVE  LET n == w.component[c].background
             IN  <<c, n>> \in DOMAIN w.node /\ NodeOK(w, <<c, n>>)
  BY <1>1, <1>3 DEF PartOK, Good
<1> QED
  BY <1>2, <1>3 DEF NodeOK

LEMMA CancelImageGood ==
    ASSUME NEW w, NEW limit, NEW loader, NEW excused, Good(w, limit, loader, excused), NEW c \in Images
    PROVE  LET x == CancelImage(w, c)
               p == w.component[c]
           IN  /\ Good(x, limit, loader, excused \cup {c}) /\ x.node = w.node /\ x.history = w.history
               /\ x.component[c] = [p EXCEPT !.request = NoRequest] /\ (x.pending \subseteq w.pending)
               /\ x.request = w.request
<1> DEFINE r == w.component[c].request
           y == Forgotten(w, r)
           p == [w.component[c] EXCEPT !.request = NoRequest]
           x == PutPart(y, c, p)
<1>1. IsWorld(w) /\ w.component[c] \in Parts
  BY PartIs DEF Good
<1>2. /\ IsWorld(y) /\ y.component = w.component /\ y.node = w.node /\ y.request = w.request
      /\ y.loads = w.loads /\ y.history = w.history /\ y.pending = w.pending \ {r}
  BY <1>1, WorldPending
<1>3. Good(y, limit, loader, excused \cup {c})
  <2>1. \A d \in Images : w.component[d].request = r /\ r # NoRequest => d \in {c}
    <3> SUFFICES ASSUME NEW d \in Images, w.component[d].request = r, r # NoRequest PROVE d = c
      OBVIOUS
    <3>1. PartOK(w, d, limit) /\ PartOK(w, c, limit)
      BY DEF Good
    <3>2. w.request[r].node = <<d, 0>> /\ w.request[r].node = <<c, 0>>
      BY <3>1 DEF PartOK
    <3>3. <<d, 0>> = <<c, 0>>
      BY <3>2
    <3> QED
      BY <3>3
  <2>2. Good(y, limit, loader \ {r}, excused \cup {c})
    BY <2>1, ForgetGood
  <2>3. limit <= limit /\ limit \in Nat /\ loader \subseteq DOMAIN y.request /\ loader \ {r} \subseteq loader
    BY <1>2 DEF Good
  <2> HIDE DEF y
  <2> QED
    BY <2>2, <2>3, MoreGood
<1>4. CancelImage(w, c) = x
  <2> HIDE DEF y
  <2>1. Cancel(w, w.component[c].request) = y
    BY DEF Cancel, Forgotten, y
  <2>2. [y EXCEPT !.component[c].request = NoRequest] = PutPart(y, c, [y.component[c] EXCEPT !.request = NoRequest])
    BY DEF PutPart
  <2> QED
    BY <1>2, <2>1, <2>2 DEF CancelImage
<1>5. /\ p \in Parts /\ p.state = w.component[c].state /\ p.url = w.component[c].url /\ p.request = NoRequest
      /\ p.background = w.component[c].background /\ p.backgroundUrl = w.component[c].backgroundUrl
      /\ p.backgroundRequest = w.component[c].backgroundRequest /\ p.made = w.component[c].made
  BY <1>1 DEF Parts, NoRequest
<1>6. w.component[c] = Fresh => p = Fresh
  <2> HIDE DEF p
  <2>1. [Fresh EXCEPT !.request = NoRequest] = Fresh
    BY DEF Fresh
  <2> QED
    BY <2>1 DEF p
<1> HIDE DEF y, p
<1>7. /\ IsWorld(x) /\ x.node = y.node /\ x.request = y.request /\ x.pending = y.pending
      /\ x.loads = y.loads /\ x.history = y.history /\ x.component[c] = p
  BY <1>2, <1>5, WorldParts
<1> HIDE DEF x
<1>8. PartOK(x, c, limit)
  <2>1. PartOK(w, c, limit)
    BY DEF Good
  <2> QED
    BY <1>2, <1>5, <1>6, <1>7, <2>1 DEF PartOK
<1>9. ASSUME NEW h \in DOMAIN y.node, h[1] = c PROVE NodeOK(x, h)
  <2>1. NodeOK(y, h)
    BY <1>3 DEF Good
  <2> QED
    BY <1>2, <1>5, <1>7, <1>9, <2>1 DEF NodeOK
<1>10. ASSUME NEW q \in y.pending, y.request[q].image = c PROVE Owned(x, q, loader)
  <2>1. Owned(y, q, loader)
    BY <1>3 DEF Good
  <2>2. q # r
    BY <1>2
  <2> QED
    BY <1>2, <1>5, <1>7, <1>10, <2>1, <2>2 DEF Owned
<1>11. Good(x, limit, loader, excused \cup {c})
  BY <1>3, <1>5, <1>8, <1>9, <1>10, PartGood DEF x
<1> QED
  BY <1>2, <1>4, <1>7, <1>11 DEF p

\* What a callback does for one image leaves the others as they are.
LEMMA FrameGood ==
    ASSUME NEW w, NEW limit, NEW loader, NEW excused, Good(w, limit, loader, excused), NEW c \in Images,
           NEW x, IsWorld(x), NEW more \in Nat, limit <= more,
           \A d \in Images \ {c} : x.component[d] = w.component[d],
           \A g \in DOMAIN w.node : g \in DOMAIN x.node /\ (g[1] # c => x.node[g] = w.node[g]),
           \A g \in DOMAIN x.node : g[1] # c => g \in DOMAIN w.node,
           \A r \in DOMAIN w.request : r \in DOMAIN x.request /\ x.request[r] = w.request[r],
           \A r \in DOMAIN x.request : x.request[r].image # c => r \in DOMAIN w.request,
           \A r \in x.pending : r \in w.pending \/ x.request[r].image = c,
           \A r \in w.pending : r \in x.pending \/ w.request[r].image = c,
           \A k \in DOMAIN w.loads : \E j \in DOMAIN x.loads : x.loads[j] = w.loads[k],
           \A d \in w.history.declined : d = c \/ d \in x.history.declined,
           PartOK(x, c, more),
           \A g \in DOMAIN x.node : g[1] = c => NodeOK(x, g),
           \A r \in DOMAIN x.request : x.request[r].image = c => OrderOK(x, r),
           \A r \in x.pending : x.request[r].image = c => Owned(x, r, loader),
           c \in excused \/ (Waits(x, c) /\ ShowsUrl(x, c))
    PROVE  Good(x, more, loader, excused)
<1>1. IsWorld(w) /\ limit \in Nat /\ loader \subseteq DOMAIN w.request
  BY DEF Good
<1>2. loader \subseteq DOMAIN x.request
  BY <1>1
<1>3. ASSUME NEW d \in Images PROVE PartOK(x, d, more)
  <2>1. CASE d = c
    BY <2>1
  <2>2. CASE d # c
    <3>1. PartOK(w, d, limit) /\ w.component[d] \in Parts /\ x.component[d] = w.component[d]
      BY <1>1, <2>2, PartIs DEF Good
    <3>2. w.component[d].made \in Nat
      BY <3>1 DEF Parts
    <3>3. x.component[d].made <= more
      <4>1. w.component[d].made <= limit /\ limit \in Nat
        BY <3>1 DEF PartOK, Good
      <4>2. \A n, l, m \in Nat : n <= l /\ l <= m => n <= m
        OBVIOUS
      <4> QED
        BY <3>1, <3>2, <4>1, <4>2
    <3> DEFINE p == w.component[d]
    <3> HIDE DEF p
    <3>4. /\ p.background <= p.made
          /\ p.state = "unborn" => p = Fresh
          /\ p.state # "unborn" => <<d, 0>> \in DOMAIN w.node
          /\ p.state = "live" /\ p.background # 0 => <<d, p.background>> \in DOMAIN w.node
          /\ p.request # NoRequest => p.request \in DOMAIN w.request /\ w.request[p.request].node = <<d, 0>>
          /\ p.backgroundRequest # NoRequest =>
                /\ p.backgroundRequest \in DOMAIN w.request
                /\ w.request[p.backgroundRequest].node[1] = d /\ w.request[p.backgroundRequest].node[2] # 0
      BY <3>1 DEF PartOK, p
    <3>5. x.component[d] = p
      BY <3>1 DEF p
    <3> QED
      BY <3>3, <3>4, <3>5 DEF PartOK
  <2> QED
    BY <2>1, <2>2
<1>4. ASSUME NEW g \in DOMAIN x.node PROVE NodeOK(x, g)
  <2>1. CASE g[1] # c
    <3>1. g \in DOMAIN w.node /\ g[1] \in Images /\ NodeOK(w, g)
      BY <1>1, <2>1, NodeIs DEF Good
    <3>2. x.node[g] = w.node[g] /\ x.component[g[1]] = w.component[g[1]]
      BY <2>1, <3>1
    <3> QED
      BY <3>1, <3>2 DEF NodeOK
  <2> QED
    BY <2>1
<1>5. ASSUME NEW r \in DOMAIN x.request PROVE OrderOK(x, r)
  <2>1. CASE x.request[r].image # c
    <3>1. r \in DOMAIN w.request /\ x.request[r] = w.request[r] /\ OrderOK(w, r)
      BY <2>1 DEF Good
    <3> QED
      BY <3>1 DEF OrderOK
  <2> QED
    BY <2>1
<1>6. ASSUME NEW r \in x.pending PROVE Owned(x, r, loader)
  <2>1. CASE x.request[r].image # c
    <3>1. r \in w.pending /\ r \in DOMAIN w.request /\ Owned(w, r, loader)
      BY <1>1, <2>1 DEF Good, IsWorld
    <3>2. x.request[r] = w.request[r] /\ w.request[r].image \in Images \ {c}
      BY <1>1, <2>1, <3>1, OrderIs
    <3>3. x.component[w.request[r].image] = w.component[w.request[r].image]
      BY <3>2
    <3>4. r \in loader \/ \E j \in DOMAIN x.loads : x.loads[j] = r
      BY <3>1 DEF Owned
    <3> DEFINE o == w.request[r]
               p == w.component[o.image]
    <3>5. /\ p.state = "live"
          /\ o.node[2] = 0 => p.request = r /\ p.url = o.url
          /\ o.node[2] # 0 => p.backgroundRequest = r /\ p.backgroundUrl = o.url /\ p.background = o.node[2]
      BY <3>1 DEF Owned
    <3>6. x.request[r] = o /\ x.component[o.image] = p
      BY <3>2, <3>3
    <3> HIDE DEF o, p
    <3> QED
      BY <3>4, <3>5, <3>6 DEF Owned
  <2> QED
    BY <2>1
<1>7. ASSUME NEW d \in Images, d \notin excused PROVE Waits(x, d) /\ ShowsUrl(x, d)
  <2>1. CASE d # c
    <3>1. Waits(w, d) /\ ShowsUrl(w, d) /\ PartOK(w, d, limit) /\ x.component[d] = w.component[d]
      BY <1>7, <2>1 DEF Good
    <3>2. Waits(x, d)
      <4> SUFFICES ASSUME w.component[d].request # NoRequest PROVE w.component[d].request \in x.pending
        BY <3>1 DEF Waits
      <4> DEFINE r == w.component[d].request
      <4>1. r \in w.pending /\ r \in DOMAIN w.request /\ w.request[r].node = <<d, 0>>
        BY <3>1 DEF Waits, PartOK
      <4>2. w.request[r].image = d
        BY <4>1 DEF Good, OrderOK
      <4> QED
        BY <2>1, <4>1, <4>2
    <3>3. w.component[d].state = "live" => x.node[<<d, 0>>] = w.node[<<d, 0>>]
      BY <2>1, <3>1 DEF PartOK
    <3> QED
      BY <2>1, <3>1, <3>2, <3>3 DEF ShowsUrl
  <2> QED
    BY <1>7, <2>1
<1> QED
  BY <1>2, <1>3, <1>4, <1>5, <1>6, <1>7 DEF Good

LEMMA CancelBackgroundGood ==
    ASSUME NEW w, NEW limit, NEW loader, NEW excused, Good(w, limit, loader, excused), NEW c \in Images
    PROVE  /\ Good(CancelBackground(w, c), limit, loader, excused)
           /\ CancelBackground(w, c).node = w.node /\ CancelBackground(w, c).history = w.history
           /\ CancelBackground(w, c).component[c] = [w.component[c] EXCEPT !.backgroundRequest = NoRequest]
<1> DEFINE r == w.component[c].backgroundRequest
           y == Forgotten(w, r)
           p == [w.component[c] EXCEPT !.backgroundRequest = NoRequest]
           x == PutPart(y, c, p)
<1>1. IsWorld(w) /\ w.component[c] \in Parts /\ limit \in Nat /\ loader \subseteq DOMAIN w.request
  BY PartIs DEF Good
<1>2. /\ IsWorld(y) /\ y.component = w.component /\ y.node = w.node /\ y.request = w.request
      /\ y.loads = w.loads /\ y.history = w.history /\ y.pending = w.pending \ {r}
  BY <1>1, WorldPending
<1>3. Good(y, limit, loader, excused)
  <2>1. \A d \in Images : w.component[d].request = r /\ r # NoRequest => d \in {}
    <3> SUFFICES ASSUME NEW d \in Images, w.component[d].request = r, r # NoRequest PROVE FALSE
      OBVIOUS
    <3>1. PartOK(w, d, limit) /\ PartOK(w, c, limit)
      BY DEF Good
    <3>2. w.request[r].node = <<d, 0>> /\ w.request[r].node[2] # 0
      BY <3>1 DEF PartOK
    <3> QED
      BY <3>2
  <2>2. Good(y, limit, loader \ {r}, excused \cup {})
    BY <2>1, ForgetGood
  <2>3. limit <= limit /\ limit \in Nat /\ loader \subseteq DOMAIN y.request /\ loader \ {r} \subseteq loader
    BY <1>1, <1>2
  <2> HIDE DEF y
  <2> QED
    BY <2>2, <2>3, MoreGood
<1>4. CancelBackground(w, c) = x
  <2> HIDE DEF y
  <2>1. Cancel(w, w.component[c].backgroundRequest) = y
    BY DEF Cancel, Forgotten, y
  <2>2. [y EXCEPT !.component[c].backgroundRequest = NoRequest]
            = PutPart(y, c, [y.component[c] EXCEPT !.backgroundRequest = NoRequest])
    BY DEF PutPart
  <2> QED
    BY <1>2, <2>1, <2>2 DEF CancelBackground
<1>5. /\ p \in Parts /\ p.state = w.component[c].state /\ p.url = w.component[c].url
      /\ p.request = w.component[c].request /\ p.backgroundRequest = NoRequest
      /\ p.background = w.component[c].background /\ p.backgroundUrl = w.component[c].backgroundUrl
      /\ p.made = w.component[c].made
  BY <1>1 DEF Parts, NoRequest
<1>6. w.component[c] = Fresh => p = Fresh
  <2> HIDE DEF p
  <2>1. [Fresh EXCEPT !.backgroundRequest = NoRequest] = Fresh
    BY DEF Fresh
  <2> QED
    BY <2>1 DEF p
<1> HIDE DEF y, p
<1>7. /\ IsWorld(x) /\ x.node = y.node /\ x.request = y.request /\ x.pending = y.pending
      /\ x.loads = y.loads /\ x.history = y.history /\ x.component[c] = p
  BY <1>2, <1>5, WorldParts
<1> HIDE DEF x
<1>8. PartOK(x, c, limit)
  <2>1. PartOK(w, c, limit)
    BY DEF Good
  <2> QED
    BY <1>2, <1>5, <1>6, <1>7, <2>1 DEF PartOK
<1>9. ASSUME NEW h \in DOMAIN y.node, h[1] = c PROVE NodeOK(x, h)
  <2>1. NodeOK(y, h)
    BY <1>3 DEF Good
  <2> QED
    BY <1>2, <1>5, <1>7, <1>9, <2>1 DEF NodeOK
<1>10. ASSUME NEW q \in y.pending, y.request[q].image = c PROVE Owned(x, q, loader)
  <2>1. Owned(y, q, loader)
    BY <1>3 DEF Good
  <2>2. q # r
    BY <1>2
  <2> QED
    BY <1>2, <1>5, <1>7, <1>10, <2>1, <2>2 DEF Owned
<1>11. c \in excused \/ (Waits(x, c) /\ ShowsUrl(x, c))
  <2>1. c \in excused \/ (Waits(y, c) /\ ShowsUrl(y, c))
    BY <1>3 DEF Good
  <2> QED
    BY <1>2, <1>5, <1>7, <2>1 DEF Waits, ShowsUrl
<1>12. Good(x, limit, loader, excused)
  BY <1>3, <1>5, <1>8, <1>9, <1>10, <1>11, PartGood DEF x
<1> QED
  BY <1>2, <1>4, <1>7, <1>12 DEF p

LEMMA DisposeIs ==
    ASSUME NEW w, IsWorld(w), NEW h \in DOMAIN w.node, w.node[h].alive
    PROVE  \E k \in Nodes : Dispose(w, h) = PutNode(w, h, k) /\ ~k.alive
<1> DEFINE k1 == [w.node[h] EXCEPT !.alive = FALSE]
           k2 == [k1 EXCEPT !.loading = FALSE]
           k3 == [k2 EXCEPT !.tries = 0]
           x1 == PutNode(w, h, k1)
           x2 == PutNode(w, h, k2)
           x3 == PutNode(w, h, k3)
<1>0. \A k, l : PutNode(w, h, k).node[h] = k /\ PutNode(PutNode(w, h, k), h, l) = PutNode(w, h, l)
  BY PutTwice
<1>1. k3 \in Nodes /\ ~k3.alive
  <2>1. \A n \in Nodes : [n EXCEPT !.alive = FALSE] \in Nodes /\ ~[n EXCEPT !.alive = FALSE].alive
    BY DEF Nodes
  <2>2. \A n \in Nodes : [n EXCEPT !.loading = FALSE] \in Nodes /\ [n EXCEPT !.loading = FALSE].alive = n.alive
    BY DEF Nodes
  <2>3. \A n \in Nodes : [n EXCEPT !.tries = 0] \in Nodes /\ [n EXCEPT !.tries = 0].alive = n.alive
    BY DEF Nodes
  <2>4. w.node[h] \in Nodes
    BY NodeIs
  <2>5. k1 \in Nodes /\ ~k1.alive
    BY <2>1, <2>4
  <2> HIDE DEF k1
  <2>6. k2 \in Nodes /\ ~k2.alive
    BY <2>2, <2>5
  <2> HIDE DEF k2
  <2> QED
    BY <2>3, <2>6
<1>2. [w EXCEPT !.node[h].alive = FALSE] = x1
  BY DEF PutNode
<1> HIDE DEF k1
<1>3. [x1 EXCEPT !.node[h].loading = FALSE] = x2
  <2>1. x1.node[h] = k1
    BY <1>0
  <2>2. \A k : PutNode(x1, h, k) = PutNode(w, h, k)
    BY <1>0
  <2> HIDE DEF x1
  <2>3. [x1 EXCEPT !.node[h].loading = FALSE] = PutNode(x1, h, [x1.node[h] EXCEPT !.loading = FALSE])
    BY DEF PutNode
  <2> QED
    BY <2>1, <2>2, <2>3
<1> HIDE DEF k2, x1
<1>4. [x2 EXCEPT !.node[h].tries = 0] = x3
  <2>1. x2.node[h] = k2
    BY <1>0
  <2>2. \A k : PutNode(x2, h, k) = PutNode(w, h, k)
    BY <1>0
  <2> HIDE DEF x2
  <2>3. [x2 EXCEPT !.node[h].tries = 0] = PutNode(x2, h, [x2.node[h] EXCEPT !.tries = 0])
    BY DEF PutNode
  <2> QED
    BY <2>1, <2>2, <2>3
<1> HIDE DEF k3, x2
<1>5. Touched(w, h, "dispose") = w
  BY DEF Touched
<1>6. Dispose(w, h) = x3
  BY <1>2, <1>3, <1>4, <1>5 DEF Dispose
<1> QED
  BY <1>1, <1>6

\* A background goes when no request is for it any more.
LEMMA DropBackgroundGood ==
    ASSUME NEW w, NEW limit, NEW loader, NEW excused, Good(w, limit, loader, excused), NEW c \in Images,
           w.component[c].state = "live", w.component[c].backgroundRequest = NoRequest
    PROVE  /\ Good(DropBackground(w, c), limit, loader, excused)
           /\ DropBackground(w, c).history = w.history
           /\ DropBackground(w, c).component[c] = [w.component[c] EXCEPT !.background = 0]
<1> DEFINE n == w.component[c].background
           h == <<c, n>>
           p == [w.component[c] EXCEPT !.background = 0]
<1>1. IsWorld(w) /\ w.component[c] \in Parts /\ limit \in Nat
  BY PartIs DEF Good
<1>2. /\ p \in Parts /\ p.state = "live" /\ p.url = w.component[c].url
      /\ p.request = w.component[c].request /\ p.backgroundRequest = NoRequest /\ p.background = 0
      /\ p.made = w.component[c].made
  BY <1>1 DEF Parts
<1>3. ASSUME n = 0 PROVE DropBackground(w, c) = w /\ p = w.component[c]
  <2>1. \A q \in Parts : q.background = 0 => [q EXCEPT !.background = 0] = q
    BY DEF Parts
  <2> QED
    BY <1>1, <1>3, <2>1 DEF DropBackground
<1>4. ASSUME n # 0
      PROVE  /\ Good(DropBackground(w, c), limit, loader, excused)
             /\ DropBackground(w, c).history = w.history
             /\ DropBackground(w, c).component[c] = p
  <2>1. h \in DOMAIN w.node /\ w.node[h].alive /\ PartOK(w, c, limit) /\ NodeOK(w, h)
    BY <1>4, LiveNodes DEF Good
  <2>2. PICK k \in Nodes : Dispose(w, h) = PutNode(w, h, k) /\ ~k.alive
    BY <1>1, <2>1, DisposeIs
  <2> DEFINE y == PutNode(w, h, k)
             x == PutPart(y, c, p)
  <2>3. /\ IsWorld(y) /\ y.component = w.component /\ y.request = w.request /\ y.pending = w.pending
        /\ y.loads = w.loads /\ y.history = w.history /\ DOMAIN y.node = DOMAIN w.node
        /\ y.node[h] = k /\ \A g \in DOMAIN w.node \ {h} : y.node[g] = w.node[g]
    BY SMTT(30), <1>1, <2>1, WorldNode
  <2> HIDE DEF y
  <2>4. DropBackground(w, c) = x
    <3>1. [y EXCEPT !.component[c].background = 0] = PutPart(y, c, [y.component[c] EXCEPT !.background = 0])
      BY DEF PutPart
    <3> QED
      BY <1>4, <2>2, <2>3, <3>1 DEF DropBackground, y
  <2> HIDE DEF p
  <2>5. /\ IsWorld(x) /\ x.node = y.node /\ x.request = y.request /\ x.pending = y.pending
        /\ x.loads = y.loads /\ x.history = y.history
        /\ x.component[c] = p /\ \A d \in Images \ {c} : x.component[d] = y.component[d]
    BY <1>2, <2>3, WorldParts
  <2> HIDE DEF x
  <2>6. PartOK(x, c, limit)
    <3>1. PartOK(w, c, limit) /\ 0 <= p.made
      BY <1>1, <1>2 DEF Good, Parts
    <3> QED
      BY <1>2, <2>3, <2>5, <3>1 DEF PartOK
  <2>7. ASSUME NEW g \in DOMAIN x.node, g[1] = c PROVE NodeOK(x, g)
    <3>1. NodeOK(w, g) /\ g = <<c, g[2]>> /\ g \in DOMAIN w.node
      BY <1>1, <2>3, <2>5, <2>7, NodeIs DEF Good
    <3>1a. x.component[g[1]] = p /\ g[2] <= p.made
      BY <1>2, <2>5, <2>7, <3>1 DEF NodeOK
    <3>2. CASE g = h
      <4>1. x.node[g].alive = FALSE /\ g[2] = n
        BY <2>2, <2>3, <2>5, <3>2 DEF Nodes
      <4> QED
        BY <1>2, <1>4, <3>1a, <4>1 DEF NodeOK
    <3>3. CASE g # h
      <4>1. g[2] # n /\ x.node[g] = w.node[g]
        BY <2>3, <2>5, <3>1, <3>3
      <4>2. w.node[g].alive = (g[2] = 0) /\ (g[2] # 0 => ~w.node[g].alive)
        BY <2>7, <3>1, <4>1 DEF NodeOK
      <4> QED
        BY <1>2, <3>1a, <4>1, <4>2 DEF NodeOK
    <3> QED
      BY <3>2, <3>3
  <2>8. ASSUME NEW r \in x.pending, x.request[r].image = c PROVE Owned(x, r, loader)
    <3>1. Owned(w, r, loader) /\ r \in DOMAIN w.request /\ w.request[r].image = c
      BY <1>1, <2>3, <2>5, <2>8 DEF Good, IsWorld
    <3>2. r # NoRequest
      BY <1>1, <3>1, OrderIs DEF NoRequest
    <3> QED
      BY <1>2, <2>3, <2>5, <3>1, <3>2 DEF Owned
  <2>9. c \in excused \/ (Waits(x, c) /\ ShowsUrl(x, c))
    <3>1. c \in excused \/ (Waits(w, c) /\ ShowsUrl(w, c))
      BY DEF Good
    <3>2. <<c, 0>> \in DOMAIN w.node /\ <<c, 0>> # h
      BY <1>4, LiveNodes
    <3> QED
      BY <1>2, <2>3, <2>5, <3>1, <3>2 DEF Waits, ShowsUrl
  <2>10. \A r \in DOMAIN x.request : x.request[r].image = c => OrderOK(x, r)
    BY <2>3, <2>5 DEF Good, OrderOK
  <2>11. /\ \A d \in Images \ {c} : x.component[d] = w.component[d]
         /\ \A g \in DOMAIN w.node : g \in DOMAIN x.node /\ (g[1] # c => x.node[g] = w.node[g])
         /\ \A g \in DOMAIN x.node : g \in DOMAIN w.node
         /\ x.request = w.request /\ x.pending = w.pending /\ x.loads = w.loads /\ x.history = w.history
    BY <2>3, <2>5
  <2>12. Good(x, limit, loader, excused)
    BY <1>1, <2>5, <2>6, <2>7, <2>8, <2>9, <2>10, <2>11, FrameGood
  <2> QED
    BY <2>3, <2>4, <2>5, <2>12
<1> QED
  BY <1>3, <1>4

LEMMA LoadImageIs ==
    ASSUME NEW w, IsWorld(w), NEW c \in Images, NEW h \in Images \X Nat, NEW url \in Urls
    PROVE  LET y == LoadImage(w, c, h, url)
               r == Len(w.request) + 1
           IN  /\ IsWorld(y) /\ y.component = w.component /\ y.node = w.node /\ y.history = w.history
               /\ r \in DOMAIN y.request /\ r \notin DOMAIN w.request /\ r # NoRequest
               /\ y.request[r] = [image |-> c, node |-> h, url |-> url]
               /\ \A q \in DOMAIN w.request : q \in DOMAIN y.request /\ y.request[q] = w.request[q]
               /\ \A q \in DOMAIN y.request : q = r \/ q \in DOMAIN w.request
               /\ y.pending = w.pending \cup {r}
               /\ \E j \in DOMAIN y.loads : y.loads[j] = r
               /\ \A k \in DOMAIN w.loads : \E j \in DOMAIN y.loads : y.loads[j] = w.loads[k]
<1> DEFINE y == LoadImage(w, c, h, url)
           r == Len(w.request) + 1
           o == [image |-> c, node |-> h, url |-> url]
           orders == Append(w.request, o)
           queue == Append(w.loads, r)
           x == [component |-> w.component, node |-> w.node, request |-> orders,
                 pending |-> w.pending \cup {r}, loads |-> queue, history |-> w.history]
<1>1. y = x
  <2>1. w = [component |-> w.component, node |-> w.node, request |-> w.request, pending |-> w.pending,
             loads |-> w.loads, history |-> w.history]
    BY DEF IsWorld
  <2>2. y = [w EXCEPT !.request = orders, !.pending = w.pending \cup {r}, !.loads = queue]
    BY <2>1 DEF LoadImage
  <2> HIDE DEF y, r, orders, queue
  <2> QED
    BY <2>1, <2>2
<1>2. o \in Orders /\ w.request \in Seq(Orders) /\ w.loads \in Seq(Nat)
  BY DEF IsWorld, Orders
<1> HIDE DEF o
<1>3. /\ orders \in Seq(Orders) /\ Len(w.request) \in Nat /\ r \in Nat \ {0}
      /\ DOMAIN w.request = 1..Len(w.request) /\ DOMAIN orders = 1..r
      /\ orders[r] = o /\ \A q \in DOMAIN w.request : orders[q] = w.request[q]
  BY <1>2
<1> HIDE DEF r, orders
<1>4. /\ queue \in Seq(Nat) /\ Len(w.loads) \in Nat
      /\ DOMAIN w.loads = 1..Len(w.loads) /\ DOMAIN queue = 1..Len(w.loads) + 1
      /\ queue[Len(w.loads) + 1] = r /\ \A k \in DOMAIN w.loads : queue[k] = w.loads[k]
  BY <1>2, <1>3
<1> HIDE DEF queue
<1>5. r \in DOMAIN orders /\ r \notin DOMAIN w.request /\ r # NoRequest
  BY <1>3 DEF r, NoRequest
<1>6. \A q \in DOMAIN w.request : q \in DOMAIN orders
  BY <1>3 DEF r
<1>7. \A q \in DOMAIN orders : q = r \/ q \in DOMAIN w.request
  BY <1>3 DEF r
<1>8. \E j \in DOMAIN queue : queue[j] = r
  BY <1>4
<1>9. \A k \in DOMAIN w.loads : \E j \in DOMAIN queue : queue[j] = w.loads[k]
  BY <1>4
<1>10. \A j \in DOMAIN queue : queue[j] \in DOMAIN orders
  <2> SUFFICES ASSUME NEW j \in DOMAIN queue PROVE queue[j] \in DOMAIN orders
    OBVIOUS
  <2>1. j = Len(w.loads) + 1 \/ j \in DOMAIN w.loads
    BY <1>4
  <2>2. \A k \in DOMAIN w.loads : w.loads[k] \in DOMAIN w.request
    BY DEF IsWorld
  <2> QED
    BY <1>4, <1>5, <1>6, <2>1, <2>2
<1>11. IsWorld(x)
  BY <1>3, <1>4, <1>5, <1>6, <1>10 DEF IsWorld
<1> QED
  BY <1>1, <1>3, <1>5, <1>6, <1>7, <1>8, <1>9, <1>11 DEF r, o

Ask(w, c, url) ==
    [LoadImage(w, c, <<c, 0>>, url) EXCEPT !.component[c].request = Len(w.request) + 1]
AskBackground(w, c, n, url) ==
    [LoadImage(w, c, <<c, n>>, url) EXCEPT !.component[c].backgroundRequest = Len(w.request) + 1]
WithBackground(w, c, n, url) ==
    [w EXCEPT !.component[c].background = n, !.component[c].made = n,
              !.component[c].backgroundUrl = url, !.node = WithNode(@, <<c, n>>)]

\* A component that waits for nothing asks for the picture of its url.
LEMMA AskGood ==
    ASSUME NEW w, NEW limit, NEW loader, NEW excused, Good(w, limit, loader, excused), NEW c \in Images,
           w.component[c].state = "live", w.component[c].request = NoRequest,
           NEW url \in Urls, w.component[c].url = url
    PROVE  LET x == Ask(w, c, url)
           IN  Good(x, limit, loader, excused) /\ Waits(x, c) /\ ShowsUrl(x, c) /\ x.history = w.history
<1> DEFINE r == Len(w.request) + 1
           y == LoadImage(w, c, <<c, 0>>, url)
           p == [w.component[c] EXCEPT !.request = r]
           x == PutPart(y, c, p)
<1>1. IsWorld(w) /\ w.component[c] \in Parts /\ limit \in Nat /\ PartOK(w, c, limit)
  BY PartIs DEF Good
<1>2. /\ IsWorld(y) /\ y.component = w.component /\ y.node = w.node /\ y.history = w.history
      /\ r \in DOMAIN y.request /\ r \notin DOMAIN w.request /\ r # NoRequest
      /\ y.request[r] = [image |-> c, node |-> <<c, 0>>, url |-> url]
      /\ \A q \in DOMAIN w.request : q \in DOMAIN y.request /\ y.request[q] = w.request[q]
      /\ \A q \in DOMAIN y.request : q = r \/ q \in DOMAIN w.request
      /\ y.pending = w.pending \cup {r}
      /\ \E j \in DOMAIN y.loads : y.loads[j] = r
      /\ \A k \in DOMAIN w.loads : \E j \in DOMAIN y.loads : y.loads[j] = w.loads[k]
  <2>1. <<c, 0>> \in Images \X Nat
    OBVIOUS
  <2> QED
    BY SMTT(30), <1>1, <2>1, LoadImageIs
<1>3. Ask(w, c, url) = x
  <2> HIDE DEF y, r
  <2>1. [y EXCEPT !.component[c].request = r] = PutPart(y, c, [y.component[c] EXCEPT !.request = r])
    BY DEF PutPart
  <2> QED
    BY <1>2, <2>1 DEF y, r, Ask
<1> HIDE DEF y, r
<1>4. r \in Nat
  BY <1>2 DEF IsWorld
<1>5. /\ p \in Parts /\ p.state = "live" /\ p.url = url /\ p.request = r
      /\ p.background = w.component[c].background /\ p.backgroundUrl = w.component[c].backgroundUrl
      /\ p.backgroundRequest = w.component[c].backgroundRequest /\ p.made = w.component[c].made
  BY <1>1, <1>4 DEF Parts
<1> HIDE DEF p
<1>6. /\ IsWorld(x) /\ x.node = y.node /\ x.request = y.request /\ x.pending = y.pending
      /\ x.loads = y.loads /\ x.history = y.history
      /\ x.component[c] = p /\ \A d \in Images \ {c} : x.component[d] = y.component[d]
  BY <1>2, <1>5, WorldParts
<1> HIDE DEF x
<1>7. PartOK(x, c, limit)
  <2> DEFINE b == w.component[c].backgroundRequest
  <2>1. b # NoRequest => /\ b \in DOMAIN w.request /\ w.request[b].node[1] = c /\ w.request[b].node[2] # 0
    BY <1>1 DEF PartOK
  <2>2. b # NoRequest => /\ b \in DOMAIN x.request /\ x.request[b].node[1] = c /\ x.request[b].node[2] # 0
    BY <1>2, <1>6, <2>1
  <2>3. r \in DOMAIN x.request /\ x.request[r].node = <<c, 0>>
    BY <1>2, <1>6
  <2> QED
    BY <1>1, <1>2, <1>5, <1>6, <2>2, <2>3 DEF PartOK
<1>8. ASSUME NEW g \in DOMAIN x.node, g[1] = c PROVE NodeOK(x, g)
  <2>1. NodeOK(w, g) /\ g \in DOMAIN w.node
    BY <1>2, <1>6 DEF Good
  <2> QED
    BY <1>2, <1>5, <1>6, <1>8, <2>1 DEF NodeOK
<1>9. ASSUME NEW q \in DOMAIN x.request PROVE OrderOK(x, q)
  <2>1. CASE q = r
    <3>1. <<c, 0>> \in DOMAIN w.node
      BY <1>1 DEF PartOK
    <3> QED
      BY <1>2, <1>6, <2>1, <3>1 DEF OrderOK
  <2>2. CASE q # r
    <3>1. q \in DOMAIN w.request /\ OrderOK(w, q)
      BY <1>2, <1>6, <2>2 DEF Good
    <3> QED
      BY <1>2, <1>6, <3>1 DEF OrderOK
  <2> QED
    BY <2>1, <2>2
<1>10. ASSUME NEW q \in x.pending, x.request[q].image = c PROVE Owned(x, q, loader)
  <2>1. CASE q = r
    <3>1. /\ x.request[q].image = c /\ x.request[q].node[2] = 0 /\ x.request[q].url = url
          /\ \E j \in DOMAIN x.loads : x.loads[j] = q
      BY <1>2, <1>6, <2>1
    <3> QED
      BY <1>5, <1>6, <2>1, <3>1 DEF Owned
  <2>2. CASE q # r
    <3>1. q \in w.pending /\ q \in DOMAIN w.request /\ Owned(w, q, loader) /\ x.request[q] = w.request[q]
      BY <1>1, <1>2, <1>6, <2>2 DEF Good, IsWorld
    <3>2. w.component[c].request # q
      BY <1>1, <3>1, OrderIs DEF NoRequest
    <3>3. q \in loader \/ \E j \in DOMAIN x.loads : x.loads[j] = q
      BY <1>2, <1>6, <3>1 DEF Owned
    <3>4. x.request[q].node[2] # 0
      BY <1>10, <3>1, <3>2 DEF Owned
    <3> QED
      BY <1>5, <1>6, <1>10, <3>1, <3>3, <3>4 DEF Owned
  <2> QED
    BY <2>1, <2>2
<1>11. Waits(x, c) /\ ShowsUrl(x, c)
  BY <1>2, <1>5, <1>6 DEF Waits, ShowsUrl
<1>12. Good(x, limit, loader, excused)
  <2>1. /\ \A d \in Images \ {c} : x.component[d] = w.component[d]
        /\ x.node = w.node /\ x.history = w.history
        /\ \A q \in DOMAIN w.request : q \in DOMAIN x.request /\ x.request[q] = w.request[q]
        /\ \A q \in DOMAIN x.request : x.request[q].image # c => q \in DOMAIN w.request
        /\ \A q \in x.pending : q \in w.pending \/ x.request[q].image = c
        /\ \A q \in w.pending : q \in x.pending
        /\ \A k \in DOMAIN w.loads : \E j \in DOMAIN x.loads : x.loads[j] = w.loads[k]
    BY <1>2, <1>6
  <2> QED
    BY <1>1, <1>6, <1>7, <1>8, <1>9, <1>10, <1>11, <2>1, FrameGood
<1> QED
  BY <1>2, <1>3, <1>6, <1>11, <1>12

\* The same for a new background.
LEMMA AskBackgroundGood ==
    ASSUME NEW w, NEW limit, NEW loader, NEW excused, Good(w, limit, loader, excused), NEW c \in Images,
           w.component[c].state = "live", w.component[c].backgroundRequest = NoRequest,
           NEW n \in Nat \ {0}, w.component[c].background = n,
           NEW url \in Urls, w.component[c].backgroundUrl = url
    PROVE  LET x == AskBackground(w, c, n, url)
           IN  Good(x, limit, loader, excused) /\ x.component[c].state = "live" /\ x.history = w.history
<1> DEFINE r == Len(w.request) + 1
           y == LoadImage(w, c, <<c, n>>, url)
           p == [w.component[c] EXCEPT !.backgroundRequest = r]
           x == PutPart(y, c, p)
<1>1. IsWorld(w) /\ w.component[c] \in Parts /\ limit \in Nat /\ PartOK(w, c, limit)
  BY PartIs DEF Good
<1>2. /\ IsWorld(y) /\ y.component = w.component /\ y.node = w.node /\ y.history = w.history
      /\ r \in DOMAIN y.request /\ r \notin DOMAIN w.request /\ r # NoRequest
      /\ y.request[r] = [image |-> c, node |-> <<c, n>>, url |-> url]
      /\ \A q \in DOMAIN w.request : q \in DOMAIN y.request /\ y.request[q] = w.request[q]
      /\ \A q \in DOMAIN y.request : q = r \/ q \in DOMAIN w.request
      /\ y.pending = w.pending \cup {r}
      /\ \E j \in DOMAIN y.loads : y.loads[j] = r
      /\ \A k \in DOMAIN w.loads : \E j \in DOMAIN y.loads : y.loads[j] = w.loads[k]
  <2>1. <<c, n>> \in Images \X Nat
    OBVIOUS
  <2> QED
    BY <1>1, <2>1, LoadImageIs
<1>3. AskBackground(w, c, n, url) = x
  <2> HIDE DEF y, r
  <2>1. [y EXCEPT !.component[c].backgroundRequest = r]
            = PutPart(y, c, [y.component[c] EXCEPT !.backgroundRequest = r])
    BY DEF PutPart
  <2> QED
    BY <1>2, <2>1 DEF y, r, AskBackground
<1> HIDE DEF y, r
<1>4. r \in Nat
  BY <1>2 DEF IsWorld
<1>5. /\ p \in Parts /\ p.state = "live" /\ p.url = w.component[c].url /\ p.request = w.component[c].request
      /\ p.background = n /\ p.backgroundUrl = url /\ p.backgroundRequest = r /\ p.made = w.component[c].made
  BY <1>1, <1>4 DEF Parts
<1> HIDE DEF p
<1>6. /\ IsWorld(x) /\ x.node = y.node /\ x.request = y.request /\ x.pending = y.pending
      /\ x.loads = y.loads /\ x.history = y.history
      /\ x.component[c] = p /\ \A d \in Images \ {c} : x.component[d] = y.component[d]
  BY <1>2, <1>5, WorldParts
<1> HIDE DEF x
<1>7. PartOK(x, c, limit)
  <2> DEFINE b == w.component[c].request
  <2>1. b # NoRequest => b \in DOMAIN w.request /\ w.request[b].node = <<c, 0>>
    BY <1>1 DEF PartOK
  <2>2. b # NoRequest => b \in DOMAIN x.request /\ x.request[b].node = <<c, 0>>
    BY <1>2, <1>6, <2>1
  <2>3. r \in DOMAIN x.request /\ x.request[r].node[1] = c /\ x.request[r].node[2] # 0
    BY <1>2, <1>6
  <2> QED
    BY <1>1, <1>2, <1>5, <1>6, <2>2, <2>3 DEF PartOK
<1>8. ASSUME NEW g \in DOMAIN x.node, g[1] = c PROVE NodeOK(x, g)
  <2>1. NodeOK(w, g) /\ g \in DOMAIN w.node
    BY <1>2, <1>6 DEF Good
  <2> QED
    BY <1>2, <1>5, <1>6, <1>8, <2>1 DEF NodeOK
<1>9. ASSUME NEW q \in DOMAIN x.request PROVE OrderOK(x, q)
  <2>1. CASE q = r
    <3>1. <<c, n>> \in DOMAIN w.node
      BY <1>1 DEF PartOK
    <3> QED
      BY <1>2, <1>6, <2>1, <3>1 DEF OrderOK
  <2>2. CASE q # r
    <3>1. q \in DOMAIN w.request /\ OrderOK(w, q)
      BY <1>2, <1>6, <2>2 DEF Good
    <3> QED
      BY <1>2, <1>6, <3>1 DEF OrderOK
  <2> QED
    BY <2>1, <2>2
<1>10. ASSUME NEW q \in x.pending, x.request[q].image = c PROVE Owned(x, q, loader)
  <2>1. CASE q = r
    <3>1. /\ x.request[q].image = c /\ x.request[q].node[2] = n /\ x.request[q].url = url
          /\ \E j \in DOMAIN x.loads : x.loads[j] = q
      BY <1>2, <1>6, <2>1
    <3> QED
      BY <1>5, <1>6, <2>1, <3>1 DEF Owned
  <2>2. CASE q # r
    <3>1. q \in w.pending /\ q \in DOMAIN w.request /\ Owned(w, q, loader) /\ x.request[q] = w.request[q]
      BY <1>1, <1>2, <1>6, <2>2 DEF Good, IsWorld
    <3>2. w.component[c].backgroundRequest # q
      BY <1>1, <3>1, OrderIs DEF NoRequest
    <3>3. q \in loader \/ \E j \in DOMAIN x.loads : x.loads[j] = q
      BY <1>2, <1>6, <3>1 DEF Owned
    <3>4. x.request[q].node[2] = 0
      BY <1>10, <3>1, <3>2 DEF Owned
    <3> QED
      BY <1>5, <1>6, <1>10, <3>1, <3>3, <3>4 DEF Owned
  <2> QED
    BY <2>1, <2>2
<1>11. c \in excused \/ (Waits(x, c) /\ ShowsUrl(x, c))
  <2>1. c \in excused \/ (Waits(w, c) /\ ShowsUrl(w, c))
    BY DEF Good
  <2> QED
    BY <1>2, <1>5, <1>6, <2>1 DEF Waits, ShowsUrl
<1>12. Good(x, limit, loader, excused)
  <2>1. /\ \A d \in Images \ {c} : x.component[d] = w.component[d]
        /\ x.node = w.node /\ x.history = w.history
        /\ \A q \in DOMAIN w.request : q \in DOMAIN x.request /\ x.request[q] = w.request[q]
        /\ \A q \in DOMAIN x.request : x.request[q].image # c => q \in DOMAIN w.request
        /\ \A q \in x.pending : q \in w.pending \/ x.request[q].image = c
        /\ \A q \in w.pending : q \in x.pending
        /\ \A k \in DOMAIN w.loads : \E j \in DOMAIN x.loads : x.loads[j] = w.loads[k]
    BY <1>2, <1>6
  <2> QED
    BY <1>1, <1>6, <1>7, <1>8, <1>9, <1>10, <1>11, <2>1, FrameGood
<1> QED
  BY <1>2, <1>3, <1>5, <1>6, <1>12

\* A new node in the world.
AddNode(w, h) == [w EXCEPT !.node = WithNode(@, h)]

LEMMA AddNodeIs ==
    ASSUME NEW w, IsWorld(w), NEW h \in Images \X Nat
    PROVE  LET x == AddNode(w, h)
           IN  /\ IsWorld(x) /\ x.component = w.component /\ x.request = w.request /\ x.pending = w.pending
               /\ x.loads = w.loads /\ x.history = w.history /\ DOMAIN x.node = DOMAIN w.node \cup {h}
               /\ x.node[h] = NewNode /\ \A g \in DOMAIN w.node \ {h} : x.node[g] = w.node[g]
<1> DEFINE nodes == WithNode(w.node, h)
           x == [component |-> w.component, node |-> nodes, request |-> w.request, pending |-> w.pending,
                 loads |-> w.loads, history |-> w.history]
<1>1. AddNode(w, h) = x
  <2>1. w = [component |-> w.component, node |-> w.node, request |-> w.request, pending |-> w.pending,
             loads |-> w.loads, history |-> w.history]
    BY DEF IsWorld
  <2>2. AddNode(w, h) = [w EXCEPT !.node = nodes]
    BY DEF AddNode
  <2> HIDE DEF nodes
  <2>3. [w EXCEPT !.node = nodes] = x
    BY <2>1
  <2> QED
    BY <2>2, <2>3
<1>2. NewNode \in Nodes
  BY DEF NewNode, Nodes
<1>3. nodes = [g \in DOMAIN w.node \cup {h} |-> IF g = h THEN NewNode ELSE w.node[g]]
  BY DEF WithNode
<1>4. /\ DOMAIN nodes = DOMAIN w.node \cup {h} /\ nodes \in [DOMAIN nodes -> Nodes]
      /\ nodes[h] = NewNode /\ \A g \in DOMAIN w.node \ {h} : nodes[g] = w.node[g]
  BY <1>2, <1>3 DEF IsWorld
<1> HIDE DEF nodes
<1>5. IsWorld(x)
  BY <1>4 DEF IsWorld
<1> QED
  BY <1>1, <1>4, <1>5

\* The node and the numbers of a new background.
LEMMA BackgroundNodeGood ==
    ASSUME NEW w, NEW limit, NEW loader, NEW excused, Good(w, limit, loader, excused), NEW c \in Images,
           w.component[c].state = "live", w.component[c].backgroundRequest = NoRequest,
           w.component[c].background = 0, NEW url \in Urls,
           NEW n, n = w.component[c].made + 1
    PROVE  LET x == WithBackground(w, c, n, url)
           IN  /\ Good(x, limit + 1, loader, excused) /\ x.history = w.history
               /\ x.component[c] \in Parts /\ x.component[c].state = "live"
               /\ x.component[c].backgroundRequest = NoRequest
               /\ x.component[c].background = n /\ x.component[c].backgroundUrl = url
<1> DEFINE h == <<c, n>>
           p1 == [w.component[c] EXCEPT !.background = n]
           p2 == [p1 EXCEPT !.made = n]
           p == [p2 EXCEPT !.backgroundUrl = url]
           x1 == PutPart(w, c, p1)
           x2 == PutPart(w, c, p2)
           y == PutPart(w, c, p)
           x == AddNode(y, h)
<1>1. IsWorld(w) /\ w.component[c] \in Parts /\ limit \in Nat /\ PartOK(w, c, limit) /\ loader \subseteq DOMAIN w.request
  BY PartIs DEF Good
<1>2. /\ n \in Nat \ {0} /\ n <= limit + 1 /\ n <= n /\ w.component[c].made < n
      /\ h \in Images \X Nat /\ h = <<c, n>> /\ h[1] = c /\ h[2] = n
  BY <1>1 DEF PartOK, Parts
<1>3. /\ p \in Parts /\ p.state = "live" /\ p.url = w.component[c].url /\ p.request = w.component[c].request
      /\ p.backgroundRequest = NoRequest /\ p.background = n /\ p.made = n /\ p.backgroundUrl = url
  <2>1. /\ p1 \in Parts /\ p1.state = "live" /\ p1.url = w.component[c].url /\ p1.request = w.component[c].request
        /\ p1.backgroundRequest = NoRequest /\ p1.background = n
    BY <1>1, <1>2 DEF Parts
  <2> HIDE DEF p1
  <2>2. /\ p2 \in Parts /\ p2.state = "live" /\ p2.url = w.component[c].url /\ p2.request = w.component[c].request
        /\ p2.backgroundRequest = NoRequest /\ p2.background = n /\ p2.made = n
    BY <1>2, <2>1 DEF Parts
  <2> HIDE DEF p2
  <2> QED
    BY <2>2 DEF Parts
<1>4. /\ IsWorld(y) /\ y.node = w.node /\ y.request = w.request /\ y.pending = w.pending
      /\ y.loads = w.loads /\ y.history = w.history
      /\ y.component[c] = p /\ \A d \in Images \ {c} : y.component[d] = w.component[d]
  <2> HIDE DEF p
  <2> QED
    BY <1>1, <1>3, WorldParts
<1>5. WithBackground(w, c, n, url) = x
  <2>1. [w EXCEPT !.component[c].background = n] = x1
    BY DEF PutPart
  <2> HIDE DEF p1
  <2>2. [x1 EXCEPT !.component[c].made = n] = x2
    <3>1. x1.component[c] = p1 /\ \A q : PutPart(x1, c, q) = PutPart(w, c, q)
      BY <1>1, PartTwice
    <3> HIDE DEF x1
    <3>2. [x1 EXCEPT !.component[c].made = n] = PutPart(x1, c, [x1.component[c] EXCEPT !.made = n])
      BY DEF PutPart
    <3> QED
      BY <3>1, <3>2
  <2> HIDE DEF p2, x1
  <2>3. [x2 EXCEPT !.component[c].backgroundUrl = url] = y
    <3>1. x2.component[c] = p2 /\ \A q : PutPart(x2, c, q) = PutPart(w, c, q)
      BY <1>1, PartTwice
    <3> HIDE DEF x2
    <3>2. [x2 EXCEPT !.component[c].backgroundUrl = url]
              = PutPart(x2, c, [x2.component[c] EXCEPT !.backgroundUrl = url])
      BY DEF PutPart
    <3> QED
      BY <3>1, <3>2
  <2> HIDE DEF p, x2, y
  <2>4. [y EXCEPT !.node = WithNode(w.node, <<c, n>>)] = x
    BY <1>4 DEF AddNode
  <2> QED
    BY <2>1, <2>2, <2>3, <2>4 DEF WithBackground
<1> HIDE DEF p1, p2, p
<1> HIDE DEF y
<1> HIDE DEF h
<1>6. /\ IsWorld(x) /\ x.component = y.component /\ x.request = y.request /\ x.pending = y.pending
      /\ x.loads = y.loads /\ x.history = y.history /\ DOMAIN x.node = DOMAIN y.node \cup {h}
      /\ x.node[h] = NewNode /\ \A g \in DOMAIN y.node \ {h} : x.node[g] = y.node[g]
  <2>1. IsWorld(y) /\ h \in Images \X Nat
    BY <1>2, <1>4
  <2> QED
    BY <2>1, AddNodeIs
<1> HIDE DEF x
<1>7. PartOK(x, c, limit + 1)
  <2>1. n <= n
    BY <1>2
  <2> QED
    BY ZenonT(30), <1>1, <1>2, <1>3, <1>4, <1>6, <2>1 DEF PartOK
<1>8. ASSUME NEW g \in DOMAIN x.node, g[1] = c PROVE NodeOK(x, g)
  <2>1. CASE g = h
    <3>1. x.node[g].alive = TRUE /\ x.node[g].by = "nothing" /\ g[2] = n
      BY <1>2, <1>6, <2>1 DEF NewNode
    <3>2. x.component[g[1]] = p
      BY <1>4, <1>6, <1>8
    <3>3. (p.state = "live" /\ n \in {0, p.background}) = TRUE
      BY <1>3
    <3> QED
      BY <1>2, <1>3, <3>1, <3>2, <3>3 DEF NodeOK
  <2>2. CASE g # h
    <3>1. g \in DOMAIN w.node /\ NodeOK(w, g) /\ x.node[g] = w.node[g] /\ g = <<c, g[2]>> /\ g[2] \in Nat
      BY <1>1, <1>4, <1>6, <1>8, <2>2, NodeIs DEF Good
    <3>2. g[2] # n /\ g[2] <= n
      BY <1>1, <1>2, <1>8, <2>2, <3>1 DEF NodeOK, Parts
    <3>3. w.node[g].alive = (g[2] = 0)
      BY <1>8, <3>1 DEF NodeOK
    <3> QED
      BY ZenonT(30), <1>3, <1>4, <1>6, <1>8, <3>1, <3>2, <3>3 DEF NodeOK
  <2> QED
    BY <2>1, <2>2
<1>9. ASSUME NEW q \in DOMAIN x.request PROVE OrderOK(x, q)
  BY <1>4, <1>6 DEF Good, OrderOK
<1>10. ASSUME NEW q \in x.pending, x.request[q].image = c PROVE Owned(x, q, loader)
  <2>1. q \in w.pending /\ q \in DOMAIN w.request /\ Owned(w, q, loader) /\ x.request = w.request
    BY <1>1, <1>4, <1>6 DEF Good, IsWorld
  <2>2. q # NoRequest
    BY <1>1, <2>1, OrderIs DEF NoRequest
  <2>3. w.request[q].node[2] = 0
    BY <1>10, <2>1, <2>2 DEF Owned
  <2> QED
    BY <1>3, <1>4, <1>6, <1>10, <2>1, <2>3 DEF Owned
<1>11. c \in excused \/ (Waits(x, c) /\ ShowsUrl(x, c))
  <2>1. c \in excused \/ (Waits(w, c) /\ ShowsUrl(w, c))
    BY DEF Good
  <2>2. <<c, 0>> # h /\ <<c, 0>> \in DOMAIN w.node
    BY <1>1, <1>2 DEF PartOK
  <2> QED
    BY <1>3, <1>4, <1>6, <2>1, <2>2 DEF Waits, ShowsUrl
<1>12. Good(x, limit + 1, loader, excused)
  <2>1. /\ \A d \in Images \ {c} : x.component[d] = w.component[d]
        /\ \A g \in DOMAIN w.node : g \in DOMAIN x.node /\ (g[1] # c => x.node[g] = w.node[g])
        /\ \A g \in DOMAIN x.node : g[1] # c => g \in DOMAIN w.node
        /\ x.request = w.request /\ x.pending = w.pending /\ x.loads = w.loads /\ x.history = w.history
    BY <1>2, <1>4, <1>6
  <2>2. limit + 1 \in Nat /\ limit <= limit + 1
    BY <1>1
  <2> QED
    BY <1>1, <1>6, <1>7, <1>8, <1>9, <1>10, <1>11, <2>1, <2>2, FrameGood
<1> QED
  BY <1>3, <1>5, <1>4, <1>6, <1>12

LEMMA NewBackgroundGood ==
    ASSUME NEW w, NEW limit, NEW loader, NEW excused, Good(w, limit, loader, excused), NEW c \in Images,
           w.component[c].state = "live", NEW url \in Urls
    PROVE  /\ Good(NewBackground(w, c, url), limit + 1, loader, excused)
           /\ NewBackground(w, c, url).component[c].state = "live"
           /\ NewBackground(w, c, url).history = w.history
<1> DEFINE n == w.component[c].made + 1
           u == CancelBackground(w, c)
           v == DropBackground(u, c)
           x == WithBackground(v, c, n, url)
           asking == AskBackground(x, c, n, url)
<1>1. w.component[c] \in Parts
  BY PartIs DEF Good
<1>2. /\ Good(u, limit, loader, excused) /\ u.history = w.history
      /\ u.component[c] = [w.component[c] EXCEPT !.backgroundRequest = NoRequest]
  BY CancelBackgroundGood
<1>3. u.component[c] \in Parts /\ u.component[c].state = "live" /\ u.component[c].backgroundRequest = NoRequest
      /\ u.component[c].made = w.component[c].made
  BY <1>1, <1>2 DEF Parts, NoRequest
<1> HIDE DEF u
<1>4. /\ Good(v, limit, loader, excused) /\ v.history = u.history
      /\ v.component[c] = [u.component[c] EXCEPT !.background = 0]
  <2>1. Good(u, limit, loader, excused) /\ u.component[c].state = "live" /\ u.component[c].backgroundRequest = NoRequest
    BY <1>2, <1>3
  <2> QED
    BY <2>1, DropBackgroundGood
<1>5. v.component[c].state = "live" /\ v.component[c].backgroundRequest = NoRequest
      /\ v.component[c].background = 0 /\ n = v.component[c].made + 1
  BY <1>3, <1>4 DEF Parts
<1> HIDE DEF v
<1>6. n \in Nat \ {0}
  BY <1>1 DEF Parts
<1>7. NewBackground(w, c, url) = IF hasLoader THEN asking ELSE SetSrc(x, <<c, n>>, url)
  BY DEF NewBackground, WithBackground, AskBackground, u, v
<1> HIDE DEF n
<1>8. /\ Good(x, limit + 1, loader, excused) /\ x.history = v.history
      /\ x.component[c] \in Parts /\ x.component[c].state = "live"
      /\ x.component[c].backgroundRequest = NoRequest
      /\ x.component[c].background = n /\ x.component[c].backgroundUrl = url
  <2>1. Good(v, limit, loader, excused)
    BY <1>4
  <2> QED
    BY <1>5, <2>1, BackgroundNodeGood
<1> HIDE DEF x
<1>9. Good(asking, limit + 1, loader, excused) /\ asking.component[c].state = "live" /\ asking.history = x.history
  <2>1. /\ Good(x, limit + 1, loader, excused) /\ x.component[c].state = "live"
        /\ x.component[c].backgroundRequest = NoRequest
        /\ x.component[c].background = n /\ x.component[c].backgroundUrl = url
    BY <1>8
  <2> QED
    BY <1>6, <2>1, AskBackgroundGood
<1>10. /\ Good(SetSrc(x, <<c, n>>, url), limit + 1, loader, excused)
       /\ SetSrc(x, <<c, n>>, url).component = x.component /\ SetSrc(x, <<c, n>>, url).history = x.history
  <2>1. <<c, n>> \in DOMAIN x.node /\ x.node[<<c, n>>].alive
    BY <1>6, <1>8, LiveNodes
  <2> QED
    BY <1>6, <1>8, <2>1, SetSrcGood
<1> HIDE DEF asking
<1> QED
  BY <1>2, <1>4, <1>7, <1>8, <1>9, <1>10

WithUrl(w, c, url) == [w EXCEPT !.component[c].url = url]
WithAnimated(w, c, url) == [w EXCEPT !.component[c].animated = url]
WithBackgroundUrl(w, c, url) == [w EXCEPT !.component[c].backgroundUrl = url]
Undeclined(w, c) == [w EXCEPT !.history.declined = @ \ {c}]

\* A component that waits for nothing gets a url, which is not shown yet.
LEMMA UrlGood ==
    ASSUME NEW w, NEW limit, NEW loader, NEW excused, Good(w, limit, loader, excused),
           NEW c \in excused, c \in Images,
           w.component[c].state = "live", w.component[c].request = NoRequest, NEW url \in Urls \cup {NoUrl}
    PROVE  LET x == WithUrl(w, c, url)
           IN  /\ Good(x, limit, loader, excused) /\ x.history = w.history /\ x.component[c].state = "live"
               /\ x.component[c].request = NoRequest /\ x.component[c].url = url
<1> DEFINE p == [w.component[c] EXCEPT !.url = url]
           x == PutPart(w, c, p)
<1>1. IsWorld(w) /\ w.component[c] \in Parts /\ PartOK(w, c, limit)
  BY PartIs DEF Good
<1>2. /\ p \in Parts /\ p.state = "live" /\ p.url = url /\ p.request = NoRequest
      /\ p.background = w.component[c].background /\ p.backgroundUrl = w.component[c].backgroundUrl
      /\ p.backgroundRequest = w.component[c].backgroundRequest /\ p.made = w.component[c].made
  BY <1>1 DEF Parts
<1>3. WithUrl(w, c, url) = x
  BY DEF WithUrl, PutPart
<1> HIDE DEF p
<1>4. /\ IsWorld(x) /\ x.node = w.node /\ x.request = w.request /\ x.pending = w.pending
      /\ x.loads = w.loads /\ x.history = w.history /\ x.component[c] = p
  BY <1>1, <1>2, WorldParts
<1> HIDE DEF x
<1>5. PartOK(x, c, limit)
  BY <1>1, <1>2, <1>4 DEF PartOK
<1>6. ASSUME NEW h \in DOMAIN w.node, h[1] = c PROVE NodeOK(x, h)
  <2>1. NodeOK(w, h)
    BY DEF Good
  <2> QED
    BY <1>2, <1>4, <1>6, <2>1 DEF NodeOK
<1>7. ASSUME NEW q \in w.pending, w.request[q].image = c PROVE Owned(x, q, loader)
  <2>1. Owned(w, q, loader) /\ q \in DOMAIN w.request
    BY <1>1 DEF Good, IsWorld
  <2>2. q # NoRequest
    BY <1>1, <2>1, OrderIs DEF NoRequest
  <2> QED
    BY <1>2, <1>4, <1>7, <2>1, <2>2 DEF Owned
<1>8. Good(x, limit, loader, excused)
  BY <1>2, <1>5, <1>6, <1>7, PartGood DEF x
<1> QED
  BY <1>2, <1>3, <1>4, <1>8

LEMMA AnimatedGood ==
    ASSUME NEW w, NEW limit, NEW loader, NEW excused, Good(w, limit, loader, excused),
           NEW c \in Images, w.component[c].state = "live", NEW url \in Urls \cup {NoUrl}
    PROVE  LET x == WithAnimated(w, c, url)
           IN  /\ Good(x, limit, loader, excused) /\ x.node = w.node /\ x.history = w.history
               /\ x.component[c].state = "live"
               /\ x.component[c].request = w.component[c].request /\ x.component[c].url = w.component[c].url
<1> DEFINE p == [w.component[c] EXCEPT !.animated = url]
           x == PutPart(w, c, p)
<1>1. IsWorld(w) /\ w.component[c] \in Parts /\ PartOK(w, c, limit)
  BY PartIs DEF Good
<1>2. /\ p \in Parts /\ p.state = "live" /\ p.url = w.component[c].url /\ p.request = w.component[c].request
      /\ p.background = w.component[c].background /\ p.backgroundUrl = w.component[c].backgroundUrl
      /\ p.backgroundRequest = w.component[c].backgroundRequest /\ p.made = w.component[c].made
  BY <1>1 DEF Parts
<1>3. WithAnimated(w, c, url) = x
  BY DEF WithAnimated, PutPart
<1> HIDE DEF p
<1>4. /\ IsWorld(x) /\ x.node = w.node /\ x.request = w.request /\ x.pending = w.pending
      /\ x.loads = w.loads /\ x.history = w.history /\ x.component[c] = p
  BY <1>1, <1>2, WorldParts
<1> HIDE DEF x
<1>5. PartOK(x, c, limit)
  BY <1>1, <1>2, <1>4 DEF PartOK
<1>6. ASSUME NEW h \in DOMAIN w.node, h[1] = c PROVE NodeOK(x, h)
  <2>1. NodeOK(w, h)
    BY DEF Good
  <2> QED
    BY <1>2, <1>4, <1>6, <2>1 DEF NodeOK
<1>7. ASSUME NEW q \in w.pending, w.request[q].image = c PROVE Owned(x, q, loader)
  <2>1. Owned(w, q, loader)
    BY DEF Good
  <2> QED
    BY <1>2, <1>4, <1>7, <2>1 DEF Owned
<1>8. c \in excused \/ (Waits(x, c) /\ ShowsUrl(x, c))
  <2>1. c \in excused \/ (Waits(w, c) /\ ShowsUrl(w, c))
    BY DEF Good
  <2> QED
    BY <1>2, <1>4, <2>1 DEF Waits, ShowsUrl
<1>9. Good(x, limit, loader, excused)
  BY <1>2, <1>5, <1>6, <1>7, <1>8, PartGood DEF x
<1> QED
  BY <1>2, <1>3, <1>4, <1>9

LEMMA BackgroundUrlGood ==
    ASSUME NEW w, NEW limit, NEW loader, NEW excused, Good(w, limit, loader, excused),
           NEW c \in Images, w.component[c].state = "live",
           w.component[c].background = 0, w.component[c].backgroundRequest = NoRequest
    PROVE  LET x == WithBackgroundUrl(w, c, NoUrl)
           IN  Good(x, limit, loader, excused) /\ x.history = w.history /\ x.component[c].state = "live"
<1> DEFINE p == [w.component[c] EXCEPT !.backgroundUrl = NoUrl]
           x == PutPart(w, c, p)
<1>1. IsWorld(w) /\ w.component[c] \in Parts /\ PartOK(w, c, limit)
  BY PartIs DEF Good
<1>2. /\ p \in Parts /\ p.state = "live" /\ p.url = w.component[c].url /\ p.request = w.component[c].request
      /\ p.background = 0 /\ p.backgroundRequest = NoRequest /\ p.made = w.component[c].made
  BY <1>1 DEF Parts
<1>3. WithBackgroundUrl(w, c, NoUrl) = x
  BY DEF WithBackgroundUrl, PutPart
<1> HIDE DEF p
<1>4. /\ IsWorld(x) /\ x.node = w.node /\ x.request = w.request /\ x.pending = w.pending
      /\ x.loads = w.loads /\ x.history = w.history /\ x.component[c] = p
  BY <1>1, <1>2, WorldParts
<1> HIDE DEF x
<1>5. PartOK(x, c, limit)
  BY <1>1, <1>2, <1>4 DEF PartOK
<1>6. ASSUME NEW h \in DOMAIN w.node, h[1] = c PROVE NodeOK(x, h)
  <2>1. NodeOK(w, h)
    BY DEF Good
  <2>2. h[2] # 0 => ~w.node[h].alive
    BY <1>6, <2>1 DEF NodeOK
  <2>3. w.node[h].alive = (p.state = "live" /\ h[2] \in {0, p.background}) /\ h[2] <= p.made
    BY <1>2, <1>6, <2>1 DEF NodeOK
  <2> QED
    BY <1>4, <1>6, <2>2, <2>3 DEF NodeOK
<1>7. ASSUME NEW q \in w.pending, w.request[q].image = c PROVE Owned(x, q, loader)
  <2>1. Owned(w, q, loader) /\ q \in DOMAIN w.request
    BY <1>1 DEF Good, IsWorld
  <2>2. q # NoRequest
    BY <1>1, <2>1, OrderIs DEF NoRequest
  <2> QED
    BY <1>2, <1>4, <1>7, <2>1, <2>2 DEF Owned
<1>8. c \in excused \/ (Waits(x, c) /\ ShowsUrl(x, c))
  <2>1. c \in excused \/ (Waits(w, c) /\ ShowsUrl(w, c))
    BY DEF Good
  <2> QED
    BY <1>2, <1>4, <2>1 DEF Waits, ShowsUrl
<1>9. Good(x, limit, loader, excused)
  BY <1>2, <1>5, <1>6, <1>7, <1>8, PartGood DEF x
<1> QED
  BY <1>2, <1>3, <1>4, <1>9

LEMMA UndeclinedGood ==
    ASSUME NEW w, NEW limit, NEW loader, NEW excused, Good(w, limit, loader, excused), NEW c \in excused
    PROVE  LET x == Undeclined(w, c)
           IN  /\ Good(x, limit, loader, excused) /\ x.component = w.component
               /\ x.history.updates = w.history.updates
<1> DEFINE past == [updates |-> w.history.updates, dead |-> w.history.dead, declined |-> w.history.declined \ {c}]
           x == [component |-> w.component, node |-> w.node, request |-> w.request, pending |-> w.pending,
                 loads |-> w.loads, history |-> past]
<1>1. IsWorld(w)
  BY DEF Good
<1>2. Undeclined(w, c) = x
  <2>1. w = [component |-> w.component, node |-> w.node, request |-> w.request, pending |-> w.pending,
             loads |-> w.loads, history |-> w.history]
    BY <1>1 DEF IsWorld
  <2>2. w.history = [updates |-> w.history.updates, dead |-> w.history.dead, declined |-> w.history.declined]
    BY <1>1 DEF IsWorld
  <2>3. [w.history EXCEPT !.declined = w.history.declined \ {c}] = past
    BY <2>2
  <2>4. Undeclined(w, c) = [w EXCEPT !.history = [w.history EXCEPT !.declined = w.history.declined \ {c}]]
    BY DEF Undeclined
  <2> HIDE DEF past
  <2>5. [w EXCEPT !.history = past] = x
    BY <2>1
  <2> QED
    BY <2>3, <2>4, <2>5
<1>3. IsWorld(x)
  BY <1>1 DEF IsWorld
<1>4. /\ x.component = w.component /\ x.node = w.node /\ x.request = w.request /\ x.pending = w.pending
      /\ x.loads = w.loads /\ x.history.declined = w.history.declined \ {c}
      /\ x.history.updates = w.history.updates
  OBVIOUS
<1> HIDE DEF x
<1>5. ASSUME NEW d \in Images PROVE PartOK(x, d, limit)
  <2>1. PartOK(w, d, limit)
    BY DEF Good
  <2> QED
    BY <1>4, <2>1 DEF PartOK
<1>6. ASSUME NEW g \in DOMAIN x.node PROVE NodeOK(x, g)
  <2>1. NodeOK(w, g)
    BY <1>4 DEF Good
  <2> QED
    BY <1>4, <2>1 DEF NodeOK
<1>7. /\ \A r \in DOMAIN x.request : OrderOK(x, r)
      /\ \A r \in x.pending : Owned(x, r, loader)
  <2>1. ASSUME NEW r \in DOMAIN x.request PROVE OrderOK(x, r)
    <3>1. OrderOK(w, r)
      BY <1>4 DEF Good
    <3> QED
      BY <1>4, <3>1 DEF OrderOK
  <2>2. ASSUME NEW r \in x.pending PROVE Owned(x, r, loader)
    <3>1. Owned(w, r, loader)
      BY <1>4 DEF Good
    <3> QED
      BY <1>4, <3>1 DEF Owned
  <2> QED
    BY <2>1, <2>2
<1>8. ASSUME NEW d \in Images, d \notin excused PROVE Waits(x, d) /\ ShowsUrl(x, d)
  <2>1. Waits(w, d) /\ ShowsUrl(w, d)
    BY <1>8 DEF Good
  <2> QED
    BY <1>4, <1>8, <2>1 DEF Waits, ShowsUrl
<1>9. Good(x, limit, loader, excused)
  BY <1>3, <1>4, <1>5, <1>6, <1>7, <1>8 DEF Good
<1> QED
  BY <1>2, <1>4, <1>9

LEMMA ApplyBackgroundGood ==
    ASSUME NEW w, NEW limit, NEW loader, NEW excused, Good(w, limit, loader, excused),
           NEW c \in Images, w.component[c].state = "live", NEW url \in Urls \cup {NoUrl}
    PROVE  LET x == ApplyBackground(w, c, url)
           IN  Good(x, limit + 1, loader, excused) /\ x.history = w.history /\ x.component[c].state = "live"
<1> DEFINE u == CancelBackground(w, c)
           v == DropBackground(u, c)
<1>1. IsWorld(w) /\ w.component[c] \in Parts /\ limit \in Nat /\ loader \subseteq DOMAIN w.request
  BY PartIs DEF Good
<1>2. /\ Good(u, limit, loader, excused) /\ u.history = w.history
      /\ u.component[c] = [w.component[c] EXCEPT !.backgroundRequest = NoRequest]
  BY CancelBackgroundGood
<1>3. u.component[c] \in Parts /\ u.component[c].state = "live" /\ u.component[c].backgroundRequest = NoRequest
  BY <1>1, <1>2 DEF Parts, NoRequest
<1> HIDE DEF u
<1>4. /\ Good(v, limit, loader, excused) /\ v.history = u.history
      /\ v.component[c] = [u.component[c] EXCEPT !.background = 0]
  <2>1. Good(u, limit, loader, excused) /\ u.component[c].state = "live" /\ u.component[c].backgroundRequest = NoRequest
    BY <1>2, <1>3
  <2> QED
    BY <2>1, DropBackgroundGood
<1>5. v.component[c].state = "live" /\ v.component[c].backgroundRequest = NoRequest /\ v.component[c].background = 0
  BY <1>3, <1>4 DEF Parts
<1> HIDE DEF v
<1>6. ASSUME NEW x, Good(x, limit, loader, excused) PROVE Good(x, limit + 1, loader, excused)
  <2>1. limit \in Nat /\ limit <= limit + 1 /\ limit + 1 \in Nat
    BY <1>1
  <2>2. loader \subseteq loader /\ loader \subseteq DOMAIN x.request
    BY <1>6 DEF Good
  <2>3. \A d \in Images : d \in excused => d \in excused \/ (Waits(x, d) /\ ShowsUrl(x, d))
    OBVIOUS
  <2> QED
    BY <1>6, <2>1, <2>2, <2>3, MoreGood
<1>7. CASE url = NoUrl
  <2>1. ApplyBackground(w, c, url) = IF u.component[c].background = 0 THEN u ELSE WithBackgroundUrl(v, c, NoUrl)
    BY <1>7 DEF ApplyBackground, WithBackgroundUrl, u, v
  <2>2. /\ Good(WithBackgroundUrl(v, c, NoUrl), limit, loader, excused)
        /\ WithBackgroundUrl(v, c, NoUrl).history = v.history
        /\ WithBackgroundUrl(v, c, NoUrl).component[c].state = "live"
    <3>1. /\ Good(v, limit, loader, excused) /\ v.component[c].state = "live"
          /\ v.component[c].background = 0 /\ v.component[c].backgroundRequest = NoRequest
      BY <1>4, <1>5
    <3> QED
      BY <3>1, BackgroundUrlGood
  <2> QED
    BY <1>2, <1>3, <1>4, <1>6, <2>1, <2>2
<1>8. CASE url # NoUrl
  <2>1. \/ ApplyBackground(w, c, url) = w
        \/ ApplyBackground(w, c, url) = NewBackground(w, c, url)
    BY <1>8 DEF ApplyBackground
  <2>2. /\ Good(NewBackground(w, c, url), limit + 1, loader, excused)
        /\ NewBackground(w, c, url).component[c].state = "live"
        /\ NewBackground(w, c, url).history = w.history
    BY <1>8, NewBackgroundGood
  <2> QED
    BY <1>6, <2>1, <2>2
<1> QED
  BY <1>7, <1>8

\* Nobody is excused any more when the last one waits and shows what it should.
LEMMA DoneGood ==
    ASSUME NEW w, NEW limit, NEW loader, NEW c, Good(w, limit, loader, {c}), Waits(w, c), ShowsUrl(w, c)
    PROVE  Good(w, limit, loader, {})
<1>1. limit \in Nat /\ limit <= limit /\ loader \subseteq loader /\ loader \subseteq DOMAIN w.request
  BY DEF Good
<1>2. \A d \in Images : d \in {c} => d \in {} \/ (Waits(w, d) /\ ShowsUrl(w, d))
  OBVIOUS
<1> QED
  BY <1>1, <1>2, MoreGood

LEMMA ReapplyGood ==
    ASSUME NEW w, NEW limit, NEW loader, Good(w, limit, loader, {}),
           NEW c \in Images, w.component[c].state = "live"
    PROVE  Good(Reapply(w, c), limit, loader, {}) /\ Reapply(w, c).history = w.history
<1> DEFINE x == WithAnimated(w, c, NoUrl)
           url == w.component[c].url
<1>1. url \in Urls \cup {NoUrl}
  BY PartIs DEF Good, Parts
<1>2. /\ Good(x, limit, loader, {}) /\ x.history = w.history
      /\ x.component[c].state = "live" /\ x.component[c].url = url
  BY AnimatedGood
<1>3. Reapply(w, c) = w \/ Reapply(w, c) = SetSrc(x, <<c, 0>>, url)
  BY DEF Reapply, WithAnimated
<1> HIDE DEF x, url
<1>4. <<c, 0>> \in DOMAIN x.node /\ x.node[<<c, 0>>].alive
  BY <1>2, LiveNodes
<1>5. Good(SetSrc(x, <<c, 0>>, url), limit, loader, {}) /\ SetSrc(x, <<c, 0>>, url).history = x.history
  BY <1>1, <1>2, <1>4, SetSrcGood
<1> QED
  BY <1>2, <1>3, <1>5

LEMMA ChangedGood ==
    ASSUME NEW w, NEW limit, NEW loader, Good(w, limit, loader, {}),
           NEW c \in Images, w.component[c].state = "live", NEW url \in Urls
    PROVE  /\ Good(Changed(w, c, url), limit, loader, {})
           /\ Changed(w, c, url).history.updates = w.history.updates
<1> DEFINE x1 == CancelImage(w, c)
           x2 == WithUrl(x1, c, url)
           x3 == WithAnimated(x2, c, NoUrl)
           x4 == Undeclined(x3, c)
<1>1. w.component[c] \in Parts
  BY PartIs DEF Good
<1>2. /\ Good(x1, limit, loader, {c}) /\ x1.history = w.history
      /\ x1.component[c] = [w.component[c] EXCEPT !.request = NoRequest]
  <2>1. {} \cup {c} = {c}
    OBVIOUS
  <2> QED
    BY <2>1, CancelImageGood
<1>3. x1.component[c].state = "live" /\ x1.component[c].request = NoRequest
  BY <1>1, <1>2 DEF Parts
<1>4. Changed(w, c, url) = IF hasLoader THEN Ask(x4, c, url) ELSE SetSrc(x4, <<c, 0>>, url)
  BY DEF Changed, WithUrl, WithAnimated, Undeclined, Ask
<1> HIDE DEF x1
<1>5. /\ Good(x2, limit, loader, {c}) /\ x2.history = x1.history /\ x2.component[c].state = "live"
      /\ x2.component[c].request = NoRequest /\ x2.component[c].url = url
  <2>1. /\ Good(x1, limit, loader, {c}) /\ x1.component[c].state = "live" /\ x1.component[c].request = NoRequest
        /\ c \in {c} /\ url \in Urls \cup {NoUrl}
    BY <1>2, <1>3
  <2> QED
    BY <2>1, UrlGood
<1> HIDE DEF x2
<1>6. /\ Good(x3, limit, loader, {c}) /\ x3.history = x2.history /\ x3.component[c].state = "live"
      /\ x3.component[c].request = NoRequest /\ x3.component[c].url = url
  BY <1>5, AnimatedGood
<1> HIDE DEF x3
<1>7. Good(x4, limit, loader, {c}) /\ x4.component = x3.component /\ x4.history.updates = x3.history.updates
  BY <1>6, UndeclinedGood
<1> HIDE DEF x4
<1>8. Good(Ask(x4, c, url), limit, loader, {}) /\ Ask(x4, c, url).history = x4.history
  <2>1. /\ Good(Ask(x4, c, url), limit, loader, {c}) /\ Waits(Ask(x4, c, url), c) /\ ShowsUrl(Ask(x4, c, url), c)
        /\ Ask(x4, c, url).history = x4.history
    BY <1>6, <1>7, AskGood
  <2> QED
    BY <2>1, DoneGood
<1>9. Good(SetSrc(x4, <<c, 0>>, url), limit, loader, {}) /\ SetSrc(x4, <<c, 0>>, url).history = x4.history
  <2> DEFINE y == SetSrc(x4, <<c, 0>>, url)
  <2>1. <<c, 0>> \in DOMAIN x4.node /\ x4.node[<<c, 0>>].alive
    BY <1>6, <1>7, LiveNodes
  <2>2. /\ Good(y, limit, loader, {c}) /\ y.component = x4.component /\ y.history = x4.history /\ ShowsUrl(y, c)
    BY <1>6, <1>7, <2>1, SetSrcGood
  <2> HIDE DEF y
  <2>3. Waits(y, c)
    BY <1>6, <1>7, <2>2 DEF Waits
  <2> QED
    BY <2>2, <2>3, DoneGood DEF y
<1> QED
  BY <1>2, <1>4, <1>5, <1>6, <1>7, <1>8, <1>9

LEMMA ApplyUrlGood ==
    ASSUME NEW w, NEW limit, NEW loader, Good(w, limit, loader, {}),
           NEW c \in Images, w.component[c].state = "live", NEW url \in Urls \cup {NoUrl, "absent"}
    PROVE  /\ Good(ApplyUrl(w, c, url), limit, loader, {})
           /\ ApplyUrl(w, c, url).history.updates = w.history.updates
<1>1. "absent" \notin Urls /\ NoUrl \notin Urls /\ NoUrl # "absent"
  BY ImageAssumption DEF NoUrl
<1>2. CASE url = "absent"
  <2>1. ApplyUrl(w, c, url) = Reapply(w, c)
    BY <1>1, <1>2 DEF ApplyUrl
  <2> QED
    BY <2>1, ReapplyGood
<1>3. CASE url = NoUrl
  <2> DEFINE x == CancelImage(w, c)
             y == WithUrl(x, c, NoUrl)
  <2>1. ApplyUrl(w, c, url) = y
    BY <1>1, <1>3 DEF ApplyUrl, WithUrl
  <2>2. /\ Good(x, limit, loader, {c}) /\ x.history = w.history
        /\ x.component[c] = [w.component[c] EXCEPT !.request = NoRequest]
    <3>1. {} \cup {c} = {c}
      OBVIOUS
    <3> QED
      BY <3>1, CancelImageGood
  <2>3. w.component[c] \in Parts
    BY PartIs DEF Good
  <2>4. x.component[c].state = "live" /\ x.component[c].request = NoRequest
    BY <2>2, <2>3 DEF Parts
  <2> HIDE DEF x
  <2>5. /\ Good(y, limit, loader, {c}) /\ y.history = x.history
        /\ y.component[c].request = NoRequest /\ y.component[c].url = NoUrl
    <3>1. /\ Good(x, limit, loader, {c}) /\ x.component[c].state = "live" /\ x.component[c].request = NoRequest
          /\ c \in {c} /\ NoUrl \in Urls \cup {NoUrl}
      BY <2>2, <2>4
    <3> QED
      BY <3>1, UrlGood
  <2> HIDE DEF y
  <2>6. Waits(y, c) /\ ShowsUrl(y, c)
    BY <2>5 DEF Waits, ShowsUrl
  <2> QED
    BY <2>1, <2>2, <2>5, <2>6, DoneGood
<1>4. CASE url \in Urls /\ url = w.component[c].url
  <2>1. ApplyUrl(w, c, url) = SetSrc(w, <<c, 0>>, url)
    BY <1>1, <1>4 DEF ApplyUrl
  <2>2. <<c, 0>> \in DOMAIN w.node /\ w.node[<<c, 0>>].alive
    BY LiveNodes
  <2>3. Good(SetSrc(w, <<c, 0>>, url), limit, loader, {}) /\ SetSrc(w, <<c, 0>>, url).history = w.history
    BY <1>4, <2>2, SetSrcGood
  <2> QED
    BY <2>1, <2>3
<1>5. CASE url \in Urls /\ url # w.component[c].url
  <2>1. ApplyUrl(w, c, url) = Changed(w, c, url)
    BY <1>1, <1>5 DEF ApplyUrl
  <2> QED
    BY <1>5, <2>1, ChangedGood
<1> QED
  BY <1>2, <1>3, <1>4, <1>5
-----------------------------------------------------------------------------
(* Answers and reports. *)

Declined(w, c) == [w EXCEPT !.history.declined = @ \cup {c}]

LEMMA DeclinedGood ==
    ASSUME NEW w, NEW limit, NEW loader, NEW c \in Images, Good(w, limit, loader, {c}),
           w.component[c].request = NoRequest
    PROVE  LET x == Declined(w, c)
           IN  Good(x, limit, loader, {}) /\ x.history.updates = w.history.updates /\ x.request = w.request
<1> DEFINE past == [updates |-> w.history.updates, dead |-> w.history.dead,
                    declined |-> w.history.declined \cup {c}]
           x == [component |-> w.component, node |-> w.node, request |-> w.request, pending |-> w.pending,
                 loads |-> w.loads, history |-> past]
<1>1. IsWorld(w)
  BY DEF Good
<1>2. Declined(w, c) = x
  <2>1. w = [component |-> w.component, node |-> w.node, request |-> w.request, pending |-> w.pending,
             loads |-> w.loads, history |-> w.history]
    BY <1>1 DEF IsWorld
  <2>2. w.history = [updates |-> w.history.updates, dead |-> w.history.dead, declined |-> w.history.declined]
    BY <1>1 DEF IsWorld
  <2>3. [w.history EXCEPT !.declined = w.history.declined \cup {c}] = past
    <3>1. \A s : [w.history EXCEPT !.declined = s]
                     = [updates |-> w.history.updates, dead |-> w.history.dead, declined |-> s]
      BY <2>2
    <3> QED
      BY <3>1
  <2>4. Declined(w, c) = [w EXCEPT !.history = [w.history EXCEPT !.declined = w.history.declined \cup {c}]]
    BY DEF Declined
  <2> HIDE DEF past
  <2>5. [w EXCEPT !.history = past] = x
    BY <2>1
  <2> QED
    BY <2>3, <2>4, <2>5
<1>3. IsWorld(x)
  BY <1>1 DEF IsWorld
<1>4. /\ x.component = w.component /\ x.node = w.node /\ x.request = w.request /\ x.pending = w.pending
      /\ x.loads = w.loads /\ x.history.declined = w.history.declined \cup {c}
      /\ x.history.updates = w.history.updates
  OBVIOUS
<1> HIDE DEF x
<1>5. ASSUME NEW d \in Images PROVE PartOK(x, d, limit)
  <2>1. PartOK(w, d, limit)
    BY DEF Good
  <2> QED
    BY <1>4, <2>1 DEF PartOK
<1>6. ASSUME NEW g \in DOMAIN x.node PROVE NodeOK(x, g)
  <2>1. NodeOK(w, g)
    BY <1>4 DEF Good
  <2> QED
    BY <1>4, <2>1 DEF NodeOK
<1>7. /\ \A r \in DOMAIN x.request : OrderOK(x, r)
      /\ \A r \in x.pending : Owned(x, r, loader)
  <2>1. ASSUME NEW r \in DOMAIN x.request PROVE OrderOK(x, r)
    <3>1. OrderOK(w, r)
      BY <1>4 DEF Good
    <3> QED
      BY <1>4, <3>1 DEF OrderOK
  <2>2. ASSUME NEW r \in x.pending PROVE Owned(x, r, loader)
    <3>1. Owned(w, r, loader)
      BY <1>4 DEF Good
    <3> QED
      BY <1>4, <3>1 DEF Owned
  <2> QED
    BY <2>1, <2>2
<1>8. ASSUME NEW d \in Images PROVE Waits(x, d) /\ ShowsUrl(x, d)
  <2>1. d = c \/ (Waits(w, d) /\ ShowsUrl(w, d))
    BY DEF Good
  <2> QED
    BY <1>4, <2>1 DEF Waits, ShowsUrl
<1>9. Good(x, limit, loader, {})
  BY <1>3, <1>4, <1>5, <1>6, <1>7, <1>8 DEF Good
<1> QED
  BY <1>2, <1>4, <1>9

\* A request that is not pending is forgotten already.
LEMMA ForgottenTwice ==
    ASSUME NEW w, IsWorld(w), NEW r, r \notin w.pending
    PROVE  Forgotten(w, r) = w
<1>1. w = [component |-> w.component, node |-> w.node, request |-> w.request, pending |-> w.pending,
           loads |-> w.loads, history |-> w.history]
  BY DEF IsWorld
<1>2. w.pending \ {r} = w.pending
  OBVIOUS
<1>3. Forgotten(w, r) = [w EXCEPT !.pending = w.pending]
  BY <1>2 DEF Forgotten
<1> QED
  BY <1>1, <1>3

LEMMA ImageAnsweredGood ==
    ASSUME NEW w, NEW limit, NEW loader, NEW c \in Images, Good(w, limit, loader, {c}),
           NEW r, r \notin w.pending, w.request[r].image = c,
           w.component[c].state = "live", w.component[c].request = r,
           NEW outcome \in {"success", "failure", "cancelled"},
           outcome = "success" => w.node[<<c, 0>>].url = w.component[c].url
    PROVE  LET x == ImageAnswered(w, r, outcome)
           IN  Good(x, limit, loader, {}) /\ x.history.updates = w.history.updates /\ x.request = w.request
<1> DEFINE x == CancelImage(w, c)
<1>1. IsWorld(w) /\ w.component[c] \in Parts
  BY PartIs DEF Good
<1>2. x = [w EXCEPT !.component[c].request = NoRequest]
  <2>1. Cancel(w, r) = w
    BY <1>1, ForgottenTwice DEF Cancel, Forgotten
  <2> QED
    BY <2>1 DEF CancelImage
<1>3. ImageAnswered(w, r, outcome)
          = CASE outcome = "success" -> x
              [] outcome = "failure" -> SetSrc(x, <<c, 0>>, x.component[c].url)
              [] outcome = "cancelled" -> Declined(x, c)
  BY <1>2 DEF ImageAnswered, Declined
<1>4. /\ Good(x, limit, loader, {c}) /\ x.node = w.node /\ x.history = w.history /\ x.request = w.request
      /\ x.component[c] = [w.component[c] EXCEPT !.request = NoRequest]
  <2>1. {c} \cup {c} = {c}
    OBVIOUS
  <2> QED
    BY <2>1, CancelImageGood
<1>5. /\ x.component[c].state = "live" /\ x.component[c].request = NoRequest
      /\ x.component[c].url = w.component[c].url /\ x.component[c].url \in Urls \cup {NoUrl}
  BY <1>1, <1>4 DEF Parts
<1> HIDE DEF x
<1>6. CASE outcome = "success"
  <2>1. Waits(x, c) /\ ShowsUrl(x, c)
    BY <1>4, <1>5, <1>6 DEF Waits, ShowsUrl
  <2> QED
    BY <1>3, <1>4, <1>6, <2>1, DoneGood
<1>7. CASE outcome = "failure"
  <2> DEFINE url == x.component[c].url
             y == SetSrc(x, <<c, 0>>, url)
  <2>1. <<c, 0>> \in DOMAIN x.node /\ x.node[<<c, 0>>].alive
    BY <1>4, <1>5, LiveNodes
  <2>2. /\ Good(y, limit, loader, {c}) /\ y.component = x.component /\ y.history = x.history /\ ShowsUrl(y, c)
        /\ y.request = x.request
    <3>1. /\ Good(x, limit, loader, {c}) /\ <<c, 0>>[1] = c /\ <<c, 0>>[2] = 0
          /\ url \in Urls \cup {NoUrl} /\ x.component[c].url \in {NoUrl, url}
      BY <1>4, <1>5
    <3> HIDE DEF url
    <3> QED
      BY <2>1, <3>1, SetSrcGood
  <2>3. ImageAnswered(w, r, outcome) = y
    BY <1>3, <1>7
  <2> HIDE DEF y
  <2>4. Waits(y, c)
    BY <1>5, <2>2 DEF Waits
  <2> QED
    BY <1>4, <2>2, <2>3, <2>4, DoneGood
<1>8. CASE outcome = "cancelled"
  <2>1. ImageAnswered(w, r, outcome) = Declined(x, c)
    BY <1>3, <1>8
  <2> QED
    <3>1. Good(x, limit, loader, {c}) /\ x.component[c].request = NoRequest
      BY <1>4, <1>5
    <3>2. /\ Good(Declined(x, c), limit, loader, {}) /\ Declined(x, c).history.updates = x.history.updates
          /\ Declined(x, c).request = x.request
      BY <3>1, DeclinedGood
    <3> QED
      BY <1>4, <2>1, <3>2
<1> QED
  BY <1>6, <1>7, <1>8

\* What a pending request says of its component and its node.
LEMMA PendingIs ==
    ASSUME NEW w, NEW limit, NEW loader, NEW excused, Good(w, limit, loader, excused), NEW r \in w.pending
    PROVE  LET c == w.request[r].image
               h == w.request[r].node
           IN  /\ c \in Images /\ r \in DOMAIN w.request /\ r # NoRequest /\ w.request[r].url \in Urls
               /\ h \in DOMAIN w.node /\ w.node[h].alive /\ h[1] = c /\ h = <<c, h[2]>>
               /\ w.component[c].state = "live"
               /\ h[2] = 0 => w.component[c].request = r /\ w.component[c].url = w.request[r].url
               /\ h[2] # 0 => w.component[c].backgroundUrl = w.request[r].url
               /\ \A d \in Images : w.component[d].request = r => d = c /\ h[2] = 0
<1>1. IsWorld(w) /\ r \in DOMAIN w.request
  BY DEF Good, IsWorld
<1>2. /\ w.request[r].image \in Images /\ w.request[r].url \in Urls /\ w.request[r].node[2] \in Nat
      /\ w.request[r].node = <<w.request[r].node[1], w.request[r].node[2]>> /\ r # NoRequest
  BY <1>1, OrderIs DEF NoRequest
<1>3. OrderOK(w, r) /\ Owned(w, r, loader)
  BY <1>1 DEF Good
<1>4. NodeOK(w, w.request[r].node)
  BY <1>3 DEF Good, OrderOK
<1>5. w.node[w.request[r].node].alive
  BY <1>3, <1>4 DEF NodeOK, OrderOK, Owned
<1>6. ASSUME NEW d \in Images, w.component[d].request = r
      PROVE  d = w.request[r].image /\ w.request[r].node[2] = 0
  <2>1. PartOK(w, d, limit)
    BY DEF Good
  <2>2. w.request[r].node = <<d, 0>>
    BY <1>2, <1>6, <2>1 DEF PartOK
  <2> QED
    BY <1>3, <2>2 DEF OrderOK
<1> QED
  BY <1>1, <1>2, <1>3, <1>5, <1>6 DEF OrderOK, Owned

LEMMA AnsweredGood ==
    ASSUME NEW w, NEW limit, NEW loader, Good(w, limit, loader, {}), NEW r,
           NEW outcome \in {"success", "failure", "cancelled"}
    PROVE  /\ Good(Answered(w, r, outcome), limit, loader \ {r}, {})
           /\ Answered(w, r, outcome).history.updates = w.history.updates
           /\ Answered(w, r, outcome).request = w.request
<1> DEFINE x == Forgotten(w, r)
           left == loader \ {r}
           c == w.request[r].image
           h == w.request[r].node
           url == w.request[r].url
<1>1. IsWorld(w)
  BY DEF Good
<1>2. /\ IsWorld(x) /\ x.component = w.component /\ x.node = w.node /\ x.request = w.request
      /\ x.loads = w.loads /\ x.history = w.history /\ x.pending = w.pending \ {r}
  BY <1>1, WorldPending
<1>3. CASE r \notin w.pending
  <2>1. \A d \in Images : w.component[d].request = r /\ r # NoRequest => d \in {}
    BY <1>3 DEF Good, Waits
  <2>2. Good(x, limit, left, {} \cup {})
    BY <2>1, ForgetGood
  <2>3. x = w /\ {} \cup {} = {}
    BY <1>1, <1>3, ForgottenTwice
  <2> QED
    BY <1>3, <2>2, <2>3 DEF Answered
<1>4. CASE r \in w.pending
  <2> DEFINE picture == SetPicture(x, r)
             y == IF outcome = "success" THEN picture ELSE x
             others == IF h[2] = 0 THEN {c} ELSE {}
  <2>1. /\ c \in Images /\ r \in DOMAIN w.request /\ r # NoRequest /\ url \in Urls
        /\ h \in DOMAIN w.node /\ w.node[h].alive /\ h[1] = c /\ h = <<c, h[2]>>
        /\ w.component[c].state = "live"
        /\ h[2] = 0 => w.component[c].request = r /\ w.component[c].url = url
        /\ h[2] # 0 => w.component[c].backgroundUrl = url
        /\ \A d \in Images : w.component[d].request = r => d = c /\ h[2] = 0
    BY <1>4, PendingIs
  <2>2. Good(x, limit, left, others)
    <3>1. \A d \in Images : w.component[d].request = r /\ r # NoRequest => d \in others
      BY <2>1
    <3>2. {} \cup others = others
      OBVIOUS
    <3> HIDE DEF others
    <3>3. Good(x, limit, left, {} \cup others)
      BY <3>1, ForgetGood
    <3> QED
      BY <3>2, <3>3
  <2>3. Answered(w, r, outcome)
            = IF h[2] = 0 THEN ImageAnswered(y, r, outcome) ELSE BackgroundAnswered(y, r, outcome)
    BY <1>4 DEF Answered
  <2>4. /\ Good(picture, limit, left, others)
        /\ picture.component = w.component /\ picture.request = w.request /\ picture.pending = x.pending
        /\ picture.history = w.history /\ picture.node[h].url = url
    <3>1. Touched(x, h, "picture") = x
      BY <1>2, <2>1 DEF Touched
    <3>2. picture = WithPicture(x, h, "loader", url)
      BY <1>2, <3>1 DEF SetPicture, WithPicture
    <3>3. PICK k \in Nodes : /\ WithPicture(x, h, "loader", url) = PutNode(x, h, k)
                             /\ k.alive = x.node[h].alive /\ k.url = url
      <4>1. IsWorld(x) /\ h \in DOMAIN x.node /\ url \in Urls \cup {NoUrl} /\ "loader" \in {"native", "loader"}
        BY <1>2, <2>1
      <4> HIDE DEF x, h, url
      <4> QED
        BY <4>1, PutFields
    <3>4. PutNode(x, h, k).node[h] = k
      <4>1. IsWorld(x) /\ h \in DOMAIN x.node
        BY <1>2, <2>1
      <4> HIDE DEF x, h
      <4> QED
        BY <4>1, PutTwice
    <3>5. /\ h \in DOMAIN x.node /\ x.node[h].alive
          /\ h[2] = 0 => x.component[h[1]].url \in {NoUrl, k.url}
          /\ h[2] # 0 => x.component[h[1]].backgroundUrl = k.url
      BY <1>2, <2>1, <3>3
    <3> HIDE DEF x, picture, left, others, h, url
    <3>6. LET z == PutNode(x, h, k)
          IN  /\ Good(z, limit, left, others)
              /\ z.component = x.component /\ z.request = x.request /\ z.pending = x.pending
              /\ z.history = x.history
      BY ZenonT(30), <2>2, <3>3, <3>5, PictureGood
    <3> QED
      BY <1>2, <3>2, <3>3, <3>4, <3>6
  <2>5. /\ Good(y, limit, left, others)
        /\ y.component = w.component /\ y.request = w.request /\ r \notin y.pending
        /\ y.history = w.history
        /\ outcome = "success" => y.node[h].url = url
    BY <1>2, <2>2, <2>4
  <2> HIDE DEF y, x, picture
  <2>6. CASE h[2] = 0
    <3>1. /\ Good(y, limit, left, {c}) /\ r \notin y.pending /\ y.request[r].image = c
          /\ y.component[c].state = "live" /\ y.component[c].request = r
          /\ outcome = "success" => y.node[<<c, 0>>].url = y.component[c].url
      <4>1. h = <<c, 0>>
        BY <2>1, <2>6
      <4>2. others = {c}
        BY <2>6
      <4>3. y.request[r].image = c
        BY <2>5
      <4>4. y.component[c] = w.component[c]
        BY <2>5
      <4>5. Good(y, limit, left, {c}) /\ r \notin y.pending
        BY <2>5, <4>2
      <4>6. y.component[c].state = "live" /\ y.component[c].request = r /\ y.component[c].url = url
        BY <2>1, <2>6, <4>4
      <4>7. outcome = "success" => y.node[<<c, 0>>].url = url
        BY <2>5, <4>1
      <4> HIDE DEF c, h, url
      <4> QED
        BY <4>3, <4>5, <4>6, <4>7
    <3> HIDE DEF c, h, left, others
    <3>2. c \in Images
      BY <2>1
    <3>3. /\ Good(ImageAnswered(y, r, outcome), limit, left, {})
          /\ ImageAnswered(y, r, outcome).history.updates = y.history.updates
          /\ ImageAnswered(y, r, outcome).request = y.request
      BY <3>1, <3>2, ImageAnsweredGood
    <3> QED
      <4>1. Answered(w, r, outcome) = ImageAnswered(y, r, outcome)
        BY <2>3, <2>6
      <4> QED
        BY <2>5, <3>3, <4>1 DEF left
  <2>7. CASE h[2] # 0
    <3>1. Good(y, limit, left, {})
      BY <2>5, <2>7
    <3>2. BackgroundAnswered(y, r, outcome) = y \/ BackgroundAnswered(y, r, outcome) = SetSrc(x, h, url)
      BY <2>5 DEF BackgroundAnswered, y
    <3>3. Good(x, limit, left, {})
      BY <2>2, <2>7
    <3>4. /\ h \in DOMAIN x.node /\ x.node[h].alive /\ url \in Urls \cup {NoUrl}
          /\ h[2] = 0 => x.component[h[1]].url \in {NoUrl, url}
          /\ h[2] # 0 => x.component[h[1]].backgroundUrl = url
      BY <1>2, <2>1
    <3>5. /\ Good(SetSrc(x, h, url), limit, left, {}) /\ SetSrc(x, h, url).history = x.history
          /\ SetSrc(x, h, url).request = x.request
      <4> HIDE DEF h, url, left
      <4> QED
        BY <3>3, <3>4, SetSrcGood
    <3> QED
      <4>1. Answered(w, r, outcome) = BackgroundAnswered(y, r, outcome)
        BY <2>3, <2>7
      <4>2. x.history = w.history /\ x.request = w.request
        BY <1>2
      <4> QED
        BY <2>5, <3>1, <3>2, <3>5, <4>1, <4>2
  <2> QED
    BY <2>6, <2>7
<1> QED
  BY <1>3, <1>4

\* A node that stays alive and shows what it showed.
LEMMA MarkGood ==
    ASSUME NEW w, NEW limit, NEW loader, NEW excused, Good(w, limit, loader, excused),
           NEW h \in DOMAIN w.node, NEW k \in Nodes,
           k.alive = w.node[h].alive, k.by = w.node[h].by, k.url = w.node[h].url
    PROVE  LET x == PutNode(w, h, k)
           IN  /\ Good(x, limit, loader, excused) /\ x.component = w.component /\ x.history = w.history
               /\ DOMAIN x.node = DOMAIN w.node /\ x.node[h] = k
<1> DEFINE x == PutNode(w, h, k)
<1>1. IsWorld(w)
  BY DEF Good
<1>2. /\ IsWorld(x) /\ x.component = w.component /\ x.request = w.request /\ x.pending = w.pending
      /\ x.loads = w.loads /\ x.history = w.history /\ DOMAIN x.node = DOMAIN w.node
      /\ x.node[h] = k /\ \A g \in DOMAIN w.node \ {h} : x.node[g] = w.node[g]
  BY <1>1, WorldNode
<1> HIDE DEF x
<1>3. \A g \in DOMAIN w.node : /\ x.node[g].alive = w.node[g].alive /\ x.node[g].by = w.node[g].by
                               /\ x.node[g].url = w.node[g].url
  BY <1>2
<1>4. ASSUME NEW c \in Images PROVE PartOK(x, c, limit)
  <2>1. PartOK(w, c, limit)
    BY DEF Good
  <2> QED
    BY <1>2, <2>1 DEF PartOK
<1>5. ASSUME NEW g \in DOMAIN x.node PROVE NodeOK(x, g)
  <2>1. NodeOK(w, g) /\ g \in DOMAIN w.node
    BY <1>2 DEF Good
  <2> QED
    BY <1>2, <1>3, <2>1 DEF NodeOK
<1>6. /\ \A r \in DOMAIN x.request : OrderOK(x, r)
      /\ \A r \in x.pending : Owned(x, r, loader)
  <2>1. ASSUME NEW r \in DOMAIN x.request PROVE OrderOK(x, r)
    <3>1. OrderOK(w, r)
      BY <1>2 DEF Good
    <3> QED
      BY <1>2, <3>1 DEF OrderOK
  <2>2. ASSUME NEW r \in x.pending PROVE Owned(x, r, loader)
    <3>1. Owned(w, r, loader)
      BY <1>2 DEF Good
    <3> QED
      BY <1>2, <3>1 DEF Owned
  <2> QED
    BY <2>1, <2>2
<1>7. ASSUME NEW c \in Images, c \notin excused PROVE Waits(x, c) /\ ShowsUrl(x, c)
  <2>1. Waits(w, c) /\ ShowsUrl(w, c)
    BY <1>7 DEF Good
  <2>2. <<c, 0>> \in DOMAIN w.node \/ w.component[c].state # "live"
    BY DEF Good, PartOK
  <2> QED
    BY <1>2, <1>3, <2>1, <2>2 DEF Waits, ShowsUrl
<1>8. Good(x, limit, loader, excused)
  BY <1>2, <1>4, <1>5, <1>6, <1>7 DEF Good
<1> QED
  BY <1>2, <1>8 DEF x

NotLoading(w, h) == [w EXCEPT !.node[h].loading = FALSE]
Tried(w, h, n) == [w EXCEPT !.node[h].tries = n]

LEMMA IdleGood ==
    ASSUME NEW w, NEW limit, NEW loader, NEW excused, Good(w, limit, loader, excused), NEW h \in DOMAIN w.node
    PROVE  LET x == NotLoading(w, h)
           IN  /\ Good(x, limit, loader, excused) /\ x.component = w.component /\ x.history = w.history
               /\ DOMAIN x.node = DOMAIN w.node /\ x.node[h].alive = w.node[h].alive
<1> DEFINE k == [w.node[h] EXCEPT !.loading = FALSE]
<1>1. w.node[h] \in Nodes
  BY NodeIs DEF Good
<1>2. k \in Nodes /\ k.alive = w.node[h].alive /\ k.by = w.node[h].by /\ k.url = w.node[h].url
  BY <1>1 DEF Nodes
<1>3. NotLoading(w, h) = PutNode(w, h, k)
  BY DEF NotLoading, PutNode
<1> HIDE DEF k
<1> QED
  BY <1>2, <1>3, MarkGood

LEMMA TriedGood ==
    ASSUME NEW w, NEW limit, NEW loader, NEW excused, Good(w, limit, loader, excused), NEW h \in DOMAIN w.node,
           NEW n \in {0, 1}
    PROVE  LET x == Tried(w, h, n)
           IN  /\ Good(x, limit, loader, excused) /\ x.component = w.component /\ x.history = w.history
               /\ DOMAIN x.node = DOMAIN w.node /\ x.node[h].alive = w.node[h].alive
<1> DEFINE k == [w.node[h] EXCEPT !.tries = n]
<1>1. w.node[h] \in Nodes
  BY NodeIs DEF Good
<1>2. k \in Nodes /\ k.alive = w.node[h].alive /\ k.by = w.node[h].by /\ k.url = w.node[h].url
  BY <1>1 DEF Nodes
<1>3. Tried(w, h, n) = PutNode(w, h, k)
  BY DEF Tried, PutNode
<1> HIDE DEF k
<1> QED
  BY <1>2, <1>3, MarkGood

\* The node of an image has reported.
Rested(w, h) == [w EXCEPT !.node[h].loading = FALSE, !.node[h].tries = 0]

LEMMA RestedGood ==
    ASSUME NEW w, NEW limit, NEW loader, NEW excused, Good(w, limit, loader, excused), NEW h \in DOMAIN w.node
    PROVE  LET x == Rested(w, h)
           IN  /\ Good(x, limit, loader, excused) /\ x.component = w.component /\ x.history = w.history
               /\ DOMAIN x.node = DOMAIN w.node /\ x.node[h].alive = w.node[h].alive
<1> DEFINE y == NotLoading(w, h)
<1>1. Rested(w, h) = Tried(y, h, 0)
  BY DEF Rested, Tried, NotLoading
<1>2. /\ Good(y, limit, loader, excused) /\ y.component = w.component /\ y.history = w.history
      /\ DOMAIN y.node = DOMAIN w.node /\ y.node[h].alive = w.node[h].alive
  BY IdleGood
<1> HIDE DEF y
<1>3. h \in DOMAIN y.node /\ 0 \in {0, 1}
  BY <1>2
<1>4. LET x == Tried(y, h, 0)
      IN  /\ Good(x, limit, loader, excused) /\ x.component = y.component /\ x.history = y.history
          /\ DOMAIN x.node = DOMAIN y.node /\ x.node[h].alive = y.node[h].alive
  BY <1>2, <1>3, TriedGood
<1> QED
  BY <1>1, <1>2, <1>4

\* A url that is tried again, or not.
LEMMA RetriedGood ==
    ASSUME NEW w, NEW limit, NEW loader, Good(w, limit, loader, {}),
           NEW c \in Images, w.component[c].state = "live", node[<<c, 0>>].tries \in {0, 1}
    PROVE  Good(Retried(w, c), limit, loader, {}) /\ Retried(w, c).history = w.history
<1> DEFINE url == w.component[c].url
           h == <<c, 0>>
           x == WithAnimated(w, c, url)
           y == SetSrc(x, h, x.component[c].url)
           n == 1 - node[h].tries
<1>1. url \in Urls \cup {NoUrl}
  BY PartIs DEF Good, Parts
<1>2. n \in {0, 1}
  OBVIOUS
<1>3. /\ Good(x, limit, loader, {}) /\ x.history = w.history
      /\ x.component[c].state = "live" /\ x.component[c].url = url
  <2> HIDE DEF url
  <2> QED
    BY <1>1, AnimatedGood DEF url
<1>4. Retried(w, c) = Tried(y, h, n)
  BY DEF Retried, TryAgain, Tried, WithAnimated
<1> HIDE DEF x, n
<1>5. h \in DOMAIN x.node /\ x.node[h].alive
  BY <1>3, LiveNodes
<1>6. Good(y, limit, loader, {}) /\ y.component = x.component /\ y.history = x.history
  BY <1>1, <1>3, <1>5, SetSrcGood
<1> HIDE DEF y
<1>7. h \in DOMAIN y.node
  BY <1>3, <1>6, LiveNodes
<1>8. Good(Tried(y, h, n), limit, loader, {}) /\ Tried(y, h, n).history = y.history
  <2> HIDE DEF h
  <2> QED
    BY <1>2, <1>6, <1>7, TriedGood
<1> QED
  BY <1>3, <1>4, <1>6, <1>8

\* The component that nothing is pending for goes with its node.
Gone(w, c) == [Dispose(w, <<c, 0>>) EXCEPT !.component[c].state = "gone"]

LEMMA GoneGood ==
    ASSUME NEW w, NEW limit, NEW loader, NEW c \in Images, Good(w, limit, loader, {c}),
           w.component[c].state = "live", w.component[c].request = NoRequest, w.component[c].background = 0
    PROVE  Good(Gone(w, c), limit, loader, {}) /\ Gone(w, c).history = w.history
<1> DEFINE h == <<c, 0>>
           p == [w.component[c] EXCEPT !.state = "gone"]
<1>1. IsWorld(w) /\ w.component[c] \in Parts /\ limit \in Nat
  BY PartIs DEF Good
<1>2. /\ p \in Parts /\ p.state = "gone" /\ p.url = w.component[c].url
      /\ p.request = NoRequest /\ p.backgroundRequest = w.component[c].backgroundRequest /\ p.background = 0
      /\ p.made = w.component[c].made
  BY <1>1 DEF Parts
<1>3. h \in DOMAIN w.node /\ w.node[h].alive /\ PartOK(w, c, limit) /\ NodeOK(w, h)
  BY LiveNodes DEF Good
<1>4. PICK k \in Nodes : Dispose(w, h) = PutNode(w, h, k) /\ ~k.alive
  BY <1>1, <1>3, DisposeIs
<1> DEFINE y == PutNode(w, h, k)
           x == PutPart(y, c, p)
<1>5. /\ IsWorld(y) /\ y.component = w.component /\ y.request = w.request /\ y.pending = w.pending
      /\ y.loads = w.loads /\ y.history = w.history /\ DOMAIN y.node = DOMAIN w.node
      /\ y.node[h] = k /\ \A g \in DOMAIN w.node \ {h} : y.node[g] = w.node[g]
  <2>1. IsWorld(w) /\ h \in DOMAIN w.node
    BY <1>1, <1>3
  <2> HIDE DEF h
  <2> QED
    BY <2>1, WorldNode
<1> HIDE DEF y
<1>6. Gone(w, c) = x
  <2>1. [y EXCEPT !.component[c].state = "gone"] = PutPart(y, c, [y.component[c] EXCEPT !.state = "gone"])
    BY DEF PutPart
  <2> QED
    BY <1>4, <1>5, <2>1 DEF Gone, y
<1> HIDE DEF p
<1>7. /\ IsWorld(x) /\ x.node = y.node /\ x.request = y.request /\ x.pending = y.pending
      /\ x.loads = y.loads /\ x.history = y.history
      /\ x.component[c] = p /\ \A d \in Images \ {c} : x.component[d] = y.component[d]
  BY <1>2, <1>5, WorldParts
<1> HIDE DEF x
<1>8. PartOK(x, c, limit)
  BY SMTT(30), <1>2, <1>3, <1>5, <1>7 DEF PartOK
<1>9. ASSUME NEW g \in DOMAIN x.node, g[1] = c PROVE NodeOK(x, g)
  <2>1. NodeOK(w, g) /\ g = <<c, g[2]>> /\ g \in DOMAIN w.node
    BY <1>1, <1>5, <1>7, <1>9, NodeIs DEF Good
  <2>2. x.component[g[1]] = p /\ g[2] <= p.made
    BY <1>2, <1>7, <1>9, <2>1 DEF NodeOK
  <2>3. x.node[g].alive = FALSE
    <3>1. CASE g = h
      BY <1>4, <1>5, <1>7, <3>1 DEF Nodes
    <3>2. CASE g # h
      <4>1. g[2] # 0 /\ x.node[g] = w.node[g]
        BY <1>5, <1>7, <2>1, <3>2
      <4> QED
        BY <1>9, <2>1, <4>1 DEF NodeOK
    <3> QED
      BY <3>1, <3>2
  <2> QED
    BY <1>2, <2>2, <2>3 DEF NodeOK
<1>10. ASSUME NEW r \in x.pending, x.request[r].image = c PROVE FALSE
  <2>1. Owned(w, r, loader) /\ r \in DOMAIN w.request /\ w.request[r].image = c
    BY <1>1, <1>5, <1>7, <1>10 DEF Good, IsWorld
  <2>2. r # NoRequest
    BY <1>1, <2>1, OrderIs DEF NoRequest
  <2> QED
    BY <2>1, <2>2 DEF Owned
<1>11. Waits(x, c) /\ ShowsUrl(x, c)
  BY <1>2, <1>7 DEF Waits, ShowsUrl
<1>12. \A r \in DOMAIN x.request : x.request[r].image = c => OrderOK(x, r)
  BY <1>5, <1>7 DEF Good, OrderOK
<1>13. /\ \A d \in Images \ {c} : x.component[d] = w.component[d]
       /\ \A g \in DOMAIN w.node : g \in DOMAIN x.node /\ (g[1] # c => x.node[g] = w.node[g])
       /\ \A g \in DOMAIN x.node : g \in DOMAIN w.node
       /\ x.request = w.request /\ x.pending = w.pending /\ x.loads = w.loads /\ x.history = w.history
  BY <1>5, <1>7
<1>14. Good(x, limit, loader, {c})
  BY <1>1, <1>7, <1>8, <1>9, <1>10, <1>11, <1>12, <1>13, FrameGood
<1> QED
  BY <1>6, <1>11, <1>13, <1>14, DoneGood

\* A task that leaves the queue of the thread-safe function reaches the loader.
Popped(w) == [w EXCEPT !.loads = Tail(@)]

LEMMA PoppedGood ==
    ASSUME NEW w, NEW limit, NEW loader, Good(w, limit, loader, {}), w.loads # <<>>
    PROVE  LET x == Popped(w)
               r == Head(w.loads)
           IN  /\ Good(x, limit, loader \cup {r}, {}) /\ x.history = w.history
               /\ x.request = w.request /\ r \in DOMAIN w.request
<1> DEFINE rest == Tail(w.loads)
           r == Head(w.loads)
           x == [component |-> w.component, node |-> w.node, request |-> w.request, pending |-> w.pending,
                 loads |-> rest, history |-> w.history]
<1>1. IsWorld(w)
  BY DEF Good
<1>2. Popped(w) = x
  <2>1. w = [component |-> w.component, node |-> w.node, request |-> w.request, pending |-> w.pending,
             loads |-> w.loads, history |-> w.history]
    BY <1>1 DEF IsWorld
  <2>2. Popped(w) = [w EXCEPT !.loads = rest]
    BY DEF Popped
  <2> HIDE DEF rest
  <2>3. [w EXCEPT !.loads = rest] = x
    BY <2>1
  <2> QED
    BY <2>2, <2>3
<1>3. /\ rest \in Seq(Nat) /\ r \in DOMAIN w.request
      /\ \A n \in DOMAIN rest : rest[n] \in DOMAIN w.request
      /\ \A n \in DOMAIN w.loads : w.loads[n] = r \/ \E k \in DOMAIN rest : rest[k] = w.loads[n]
  <2>1. w.loads \in Seq(Nat) /\ \A n \in DOMAIN w.loads : w.loads[n] \in DOMAIN w.request
    BY <1>1 DEF IsWorld
  <2>2. \A s \in Seq(Nat) : s # <<>> =>
           /\ Tail(s) \in Seq(Nat) /\ Head(s) = s[1] /\ 1 \in DOMAIN s
           /\ \A n \in DOMAIN Tail(s) : n + 1 \in DOMAIN s /\ Tail(s)[n] = s[n + 1]
           /\ \A n \in DOMAIN s : n = 1 \/ (n - 1 \in DOMAIN Tail(s) /\ Tail(s)[n - 1] = s[n])
    OBVIOUS
  <2>3. /\ rest \in Seq(Nat) /\ r = w.loads[1] /\ 1 \in DOMAIN w.loads
        /\ \A n \in DOMAIN rest : n + 1 \in DOMAIN w.loads /\ rest[n] = w.loads[n + 1]
        /\ \A n \in DOMAIN w.loads : n = 1 \/ (n - 1 \in DOMAIN rest /\ rest[n - 1] = w.loads[n])
    BY <2>1, <2>2
  <2> HIDE DEF rest, r
  <2> QED
    BY <2>1, <2>3
<1> HIDE DEF rest, r
<1>4. IsWorld(x)
  BY <1>1, <1>3 DEF IsWorld
<1>5. /\ x.component = w.component /\ x.node = w.node /\ x.request = w.request /\ x.pending = w.pending
      /\ x.loads = rest /\ x.history = w.history
  OBVIOUS
<1> HIDE DEF x
<1>6. ASSUME NEW d \in Images PROVE PartOK(x, d, limit)
  <2>1. PartOK(w, d, limit)
    BY DEF Good
  <2> QED
    BY <1>5, <2>1 DEF PartOK
<1>7. ASSUME NEW g \in DOMAIN x.node PROVE NodeOK(x, g)
  <2>1. NodeOK(w, g)
    BY <1>5 DEF Good
  <2> QED
    BY <1>5, <2>1 DEF NodeOK
<1>8. \A q \in DOMAIN x.request : OrderOK(x, q)
  BY <1>5 DEF Good, OrderOK
<1>9. ASSUME NEW q \in x.pending PROVE Owned(x, q, loader \cup {r})
  <2>1. Owned(w, q, loader)
    BY <1>5, <1>9 DEF Good
  <2>2. q \in loader \cup {r} \/ \E k \in DOMAIN rest : rest[k] = q
    BY <1>3, <2>1 DEF Owned
  <2> QED
    BY <1>5, <2>1, <2>2 DEF Owned
<1>10. \A d \in Images : Waits(x, d) /\ ShowsUrl(x, d)
  BY <1>5 DEF Good, Waits, ShowsUrl
<1>11. Good(x, limit, loader \cup {r}, {})
  <2>1. limit \in Nat /\ loader \cup {r} \subseteq DOMAIN x.request
    BY <1>3, <1>5 DEF Good
  <2> QED
    BY <1>4, <1>6, <1>7, <1>8, <1>9, <1>10, <2>1 DEF Good
<1> QED
  BY <1>2, <1>3, <1>5, <1>11 DEF r

\* Nothing else of the history matters to the images but who was declined.
LEMMA HistoryGood ==
    ASSUME NEW w, NEW limit, NEW loader, Good(w, limit, loader, {}),
           NEW past, past = [updates |-> past.updates, dead |-> past.dead, declined |-> past.declined],
           past.updates \in Nat, past.dead \subseteq {"animation"}, past.declined = w.history.declined
    PROVE  Good([w EXCEPT !.history = past], limit, loader, {})
<1> DEFINE x == [component |-> w.component, node |-> w.node, request |-> w.request, pending |-> w.pending,
                 loads |-> w.loads, history |-> past]
<1>1. IsWorld(w)
  BY DEF Good
<1>2. [w EXCEPT !.history = past] = x
  <2>1. w = [component |-> w.component, node |-> w.node, request |-> w.request, pending |-> w.pending,
             loads |-> w.loads, history |-> w.history]
    BY <1>1 DEF IsWorld
  <2> QED
    BY <2>1
<1>3. IsWorld(x)
  BY <1>1 DEF IsWorld
<1>4. /\ x.component = w.component /\ x.node = w.node /\ x.request = w.request /\ x.pending = w.pending
      /\ x.loads = w.loads /\ x.history.declined = w.history.declined
  OBVIOUS
<1> HIDE DEF x
<1>5. ASSUME NEW d \in Images PROVE PartOK(x, d, limit)
  <2>1. PartOK(w, d, limit)
    BY DEF Good
  <2> QED
    BY <1>4, <2>1 DEF PartOK
<1>6. ASSUME NEW g \in DOMAIN x.node PROVE NodeOK(x, g)
  <2>1. NodeOK(w, g)
    BY <1>4 DEF Good
  <2> QED
    BY <1>4, <2>1 DEF NodeOK
<1>7. /\ \A r \in DOMAIN x.request : OrderOK(x, r)
      /\ \A r \in x.pending : Owned(x, r, loader)
  <2>1. ASSUME NEW r \in DOMAIN x.request PROVE OrderOK(x, r)
    <3>1. OrderOK(w, r)
      BY <1>4 DEF Good
    <3> QED
      BY <1>4, <3>1 DEF OrderOK
  <2>2. ASSUME NEW r \in x.pending PROVE Owned(x, r, loader)
    <3>1. Owned(w, r, loader)
      BY <1>4 DEF Good
    <3> QED
      BY <1>4, <3>1 DEF Owned
  <2> QED
    BY <2>1, <2>2
<1>8. ASSUME NEW d \in Images PROVE Waits(x, d) /\ ShowsUrl(x, d)
  <2>1. Waits(w, d) /\ ShowsUrl(w, d)
    BY DEF Good
  <2> QED
    BY <1>4, <2>1 DEF Waits, ShowsUrl
<1>9. Good(x, limit, loader, {})
  BY <1>3, <1>4, <1>5, <1>6, <1>7, <1>8 DEF Good
<1> QED
  BY <1>2, <1>9

\* A component and its node come into being.
LEMMA CreatedGood ==
    ASSUME NEW w, NEW limit, NEW loader, Good(w, limit, loader, {}), NEW c \in Images,
           w.component[c].state = "unborn"
    PROVE  Good(AddNode([w EXCEPT !.component[c].state = "live"], <<c, 0>>), limit, loader, {})
<1> DEFINE h == <<c, 0>>
           p == [w.component[c] EXCEPT !.state = "live"]
           y == PutPart(w, c, p)
           x == AddNode(y, h)
<1>1. IsWorld(w) /\ w.component[c] \in Parts /\ limit \in Nat /\ PartOK(w, c, limit) /\ h \in Images \X Nat
  BY PartIs DEF Good
<1>2. w.component[c] = Fresh
  BY <1>1 DEF PartOK
<1>3. /\ p \in Parts /\ p.state = "live" /\ p.url = NoUrl /\ p.request = NoRequest
      /\ p.backgroundRequest = NoRequest /\ p.background = 0 /\ p.made = 0
  BY <1>1, <1>2 DEF Parts, Fresh
<1>4. [w EXCEPT !.component[c].state = "live"] = y
  BY DEF PutPart
<1> HIDE DEF p
<1>5. /\ IsWorld(y) /\ y.node = w.node /\ y.request = w.request /\ y.pending = w.pending
      /\ y.loads = w.loads /\ y.history = w.history
      /\ y.component[c] = p /\ \A d \in Images \ {c} : y.component[d] = w.component[d]
  BY <1>1, <1>3, WorldParts
<1> HIDE DEF y, h
<1>6. /\ IsWorld(x) /\ x.component = y.component /\ x.request = y.request /\ x.pending = y.pending
      /\ x.loads = y.loads /\ x.history = y.history /\ DOMAIN x.node = DOMAIN y.node \cup {h}
      /\ x.node[h] = NewNode /\ \A g \in DOMAIN y.node \ {h} : x.node[g] = y.node[g]
  BY <1>1, <1>5, AddNodeIs
<1> HIDE DEF x
<1>7. PartOK(x, c, limit)
  <2>1. h \in DOMAIN x.node /\ x.component[c] = p /\ 0 <= limit
    BY <1>1, <1>5, <1>6
  <2> QED
    BY <1>3, <2>1 DEF PartOK, h
<1>8. ASSUME NEW g \in DOMAIN x.node, g[1] = c PROVE NodeOK(x, g)
  <2>1. g = h
    <3>1. CASE g \in DOMAIN w.node
      <4>1. NodeOK(w, g) /\ g[2] \in Nat /\ g = <<c, g[2]>>
        BY <1>1, <1>8, <3>1, NodeIs DEF Good
      <4>2. g[2] <= 0
        BY <1>2, <1>8, <4>1 DEF NodeOK, Fresh
      <4> QED
        BY <4>1, <4>2 DEF h
    <3> QED
      BY <1>5, <1>6, <3>1
  <2>2. x.node[g].alive = TRUE /\ x.node[g].by = "nothing" /\ g[2] = 0
    BY <1>6, <2>1 DEF NewNode, h
  <2>3. x.component[g[1]] = p
    BY <1>5, <1>6, <1>8
  <2>4. (p.state = "live" /\ g[2] \in {0, p.background}) = TRUE
    BY <1>3, <2>2
  <2>5. g[2] <= p.made
    BY <1>3, <2>2
  <2> QED
    BY <2>2, <2>3, <2>4, <2>5 DEF NodeOK
<1>9. ASSUME NEW q \in x.pending, x.request[q].image = c PROVE FALSE
  <2>1. Owned(w, q, loader) /\ w.request[q].image = c
    BY <1>5, <1>6, <1>9 DEF Good
  <2> QED
    BY <2>1 DEF Owned
<1>10. \A q \in DOMAIN x.request : x.request[q].image = c => OrderOK(x, q)
  BY <1>5, <1>6 DEF Good, OrderOK
<1>11. Waits(x, c) /\ ShowsUrl(x, c)
  BY <1>3, <1>5, <1>6 DEF Waits, ShowsUrl
<1>12. /\ \A d \in Images \ {c} : x.component[d] = w.component[d]
       /\ \A g \in DOMAIN w.node : g \in DOMAIN x.node /\ (g[1] # c => x.node[g] = w.node[g])
       /\ \A g \in DOMAIN x.node : g[1] # c => g \in DOMAIN w.node
       /\ x.request = w.request /\ x.pending = w.pending /\ x.loads = w.loads /\ x.history = w.history
  BY <1>5, <1>6 DEF h
<1>13. Good(x, limit, loader, {})
  BY <1>1, <1>6, <1>7, <1>8, <1>9, <1>10, <1>11, <1>12, FrameGood
<1> QED
  BY <1>4, <1>13 DEF x, h
-----------------------------------------------------------------------------
(* The actions. *)

\* With the bound of the updates, what the state's types need.
ImageBound == history.updates <= MaxUpdates

LEMMA WorldIs ==
    ASSUME NEW w, IsWorld(w), Becomes(w)
    PROVE  World' = w
  BY DEF World, Becomes, IsWorld

LEMMA ImageInit == Init => ImageInv /\ ImageBound
<1> SUFFICES ASSUME Init PROVE ImageInv /\ ImageBound
  OBVIOUS
<1>1. /\ World.component = [c \in Images |-> Fresh] /\ World.node = <<>> /\ World.request = <<>>
      /\ World.pending = {} /\ World.loads = <<>>
      /\ World.history = [updates |-> 0, dead |-> {}, declined |-> {}]
      /\ World = [component |-> World.component, node |-> World.node, request |-> World.request,
                  pending |-> World.pending, loads |-> World.loads, history |-> World.history]
  BY DEF Init, World
<1>2. Fresh \in Parts
  BY DEF Fresh, Parts, NoRequest
<1>3. DOMAIN <<>> = {} /\ <<>> \in [{} -> Nodes] /\ <<>> \in Seq(Orders) /\ <<>> \in Seq(Nat)
  OBVIOUS
<1>4. IsWorld(World)
  BY <1>1, <1>2, <1>3 DEF IsWorld
<1>5. ASSUME NEW c \in Images PROVE PartOK(World, c, 0) /\ Waits(World, c) /\ ShowsUrl(World, c)
  BY <1>1 DEF PartOK, Waits, ShowsUrl, Fresh, NoRequest
<1>6. asked = {} /\ history.updates = 0
  BY DEF Init
<1>7. ImageInv
  BY <1>1, <1>3, <1>4, <1>5, <1>6 DEF ImageInv, Good
<1> QED
  BY <1>6, <1>7, ImageAssumption DEF ImageBound

LEMMA ImageStep == ImageInv /\ ImageBound /\ [Next]_vars => ImageInv' /\ ImageBound'
<1> DEFINE n == history.updates
<1> SUFFICES ASSUME ImageInv, ImageBound, [Next]_vars
             PROVE  ImageInv' /\ ImageBound'
  OBVIOUS
<1>1. /\ Good(World, n, asked, {}) /\ IsWorld(World) /\ n \in Nat
      /\ World.component = component /\ World.node = node /\ World.request = request
      /\ World.pending = pending /\ World.loads = loads /\ World.history = history
      /\ asked \subseteq DOMAIN request
  BY DEF ImageInv, Good, World
<1>2. ASSUME NEW w, Becomes(w), Good(w, w.history.updates, asked', {}), w.history.updates <= MaxUpdates
      PROVE  ImageInv' /\ ImageBound'
  <2>1. World' = w
    BY <1>2, WorldIs DEF Good
  <2>2. history' = w.history
    BY <1>2 DEF Becomes
  <2> QED
    BY <1>2, <2>1, <2>2 DEF ImageInv, ImageBound
<1>3. n <= MaxUpdates
  BY DEF ImageBound
<1>4. ASSUME NEW c \in Images, Create(c) PROVE ImageInv' /\ ImageBound'
  <2> DEFINE w == AddNode([World EXCEPT !.component[c].state = "live"], <<c, 0>>)
  <2>1. Good(w, n, asked, {})
    <3>1. World.component[c].state = "unborn"
      BY <1>1, <1>4 DEF Create
    <3> QED
      BY <1>1, <3>1, CreatedGood
  <2>2. Becomes(w) /\ w.history = history
    <3>1. w = [component |-> [component EXCEPT ![c].state = "live"], node |-> WithNode(node, <<c, 0>>),
               request |-> request, pending |-> pending, loads |-> loads, history |-> history]
      <4> DEFINE parts == [component EXCEPT ![c].state = "live"]
                 v == [component |-> parts, node |-> node, request |-> request, pending |-> pending,
                       loads |-> loads, history |-> history]
                 nodes == WithNode(node, <<c, 0>>)
      <4>1. [World EXCEPT !.component[c].state = "live"] = [World EXCEPT !.component = parts]
        BY DEF World
      <4> HIDE DEF parts
      <4>2. [World EXCEPT !.component = parts] = v
        BY DEF World
      <4>3. AddNode(v, <<c, 0>>) = [v EXCEPT !.node = nodes]
        BY DEF AddNode
      <4> HIDE DEF nodes
      <4>4. [v EXCEPT !.node = nodes] = [component |-> parts, node |-> nodes, request |-> request,
                                         pending |-> pending, loads |-> loads, history |-> history]
        OBVIOUS
      <4> HIDE DEF v
      <4> QED
        BY <4>1, <4>2, <4>3, <4>4 DEF parts, nodes
    <3> HIDE DEF w
    <3>2. /\ component' = [component EXCEPT ![c].state = "live"] /\ node' = WithNode(node, <<c, 0>>)
          /\ request' = request /\ pending' = pending /\ loads' = loads /\ history' = history
      BY <1>4 DEF Create, bridge
    <3> QED
      BY <3>1, <3>2 DEF Becomes
  <2>3. asked' = asked
    BY <1>4 DEF Create, bridge
  <2> HIDE DEF w
  <2> QED
    BY <1>2, <1>3, <2>1, <2>2, <2>3
<1>5. ASSUME NEW c \in Images, NEW url \in Urls \cup {NoUrl, "absent"}, NEW background \in Urls \cup {NoUrl},
             Update(c, url, background)
      PROVE  ImageInv' /\ ImageBound'
  <2> DEFINE x == ApplyBackground(World, c, background)
             y == ApplyUrl(x, c, url)
             past == [y.history EXCEPT !.updates = y.history.updates + 1]
             w == [y EXCEPT !.history = past]
  <2>1. Good(x, n + 1, asked, {}) /\ x.history = history /\ x.component[c].state = "live"
    <3>1. World.component[c].state = "live"
      BY <1>1, <1>5 DEF Update
    <3> QED
      BY <1>1, <3>1, ApplyBackgroundGood
  <2>2. Becomes(w) /\ asked' = asked /\ n < MaxUpdates
    BY <1>5 DEF Update
  <2> HIDE DEF x
  <2>3. Good(y, n + 1, asked, {}) /\ y.history.updates = n
    BY <2>1, ApplyUrlGood
  <2> HIDE DEF y
  <2>4. /\ past = [updates |-> past.updates, dead |-> past.dead, declined |-> past.declined]
        /\ past.updates = n + 1 /\ past.dead \subseteq {"animation"} /\ past.declined = y.history.declined
    <3>1. /\ y.history = [updates |-> y.history.updates, dead |-> y.history.dead, declined |-> y.history.declined]
          /\ y.history.dead \subseteq {"animation"}
      BY <2>3 DEF Good, IsWorld
    <3> QED
      BY <2>3, <3>1
  <2> HIDE DEF past
  <2>5. Good(w, n + 1, asked, {})
    <3>1. past.updates \in Nat
      BY <1>1, <2>4
    <3> QED
      BY <2>3, <2>4, <3>1, HistoryGood
  <2>6. w.history = past
    <3>1. y = [component |-> y.component, node |-> y.node, request |-> y.request, pending |-> y.pending,
               loads |-> y.loads, history |-> y.history]
      BY <2>3 DEF Good, IsWorld
    <3> QED
      BY <3>1
  <2>7. n + 1 <= MaxUpdates
    BY <1>1, <2>2, ImageAssumption
  <2> HIDE DEF w
  <2> QED
    BY <1>2, <2>2, <2>4, <2>5, <2>6, <2>7
<1>6. ASSUME NEW c \in Images, Destroy(c) PROVE ImageInv' /\ ImageBound'
  <2> DEFINE x == CancelImage(World, c)
             y == CancelBackground(x, c)
             z == DropBackground(y, c)
             w == IF x.component[c].background = 0 THEN x ELSE z
  <2>1. World.component[c].state = "live" /\ World.component[c] \in Parts
    BY <1>1, <1>6, PartIs DEF Destroy
  <2>2. /\ Good(x, n, asked, {c}) /\ x.history = history
        /\ x.component[c] = [World.component[c] EXCEPT !.request = NoRequest]
    <3>1. {} \cup {c} = {c}
      OBVIOUS
    <3> QED
      BY <1>1, <3>1, CancelImageGood
  <2>3. x.component[c] \in Parts /\ x.component[c].state = "live" /\ x.component[c].request = NoRequest
    BY <2>1, <2>2 DEF Parts, NoRequest
  <2>4. Becomes(Gone(w, c)) /\ asked' = asked
    BY <1>6 DEF Destroy, Gone
  <2> HIDE DEF x
  <2>5. /\ Good(y, n, asked, {c}) /\ y.history = x.history
        /\ y.component[c] = [x.component[c] EXCEPT !.backgroundRequest = NoRequest]
    <3>1. Good(x, n, asked, {c})
      BY <2>2
    <3> HIDE DEF n
    <3> QED
      BY <3>1, CancelBackgroundGood
  <2>6. /\ y.component[c] \in Parts /\ y.component[c].state = "live" /\ y.component[c].request = NoRequest
        /\ y.component[c].backgroundRequest = NoRequest
    BY <2>3, <2>5 DEF Parts, NoRequest
  <2> HIDE DEF y
  <2>7. /\ Good(z, n, asked, {c}) /\ z.history = y.history
        /\ z.component[c] = [y.component[c] EXCEPT !.background = 0]
    <3>1. Good(y, n, asked, {c}) /\ y.component[c].state = "live" /\ y.component[c].backgroundRequest = NoRequest
      BY <2>5, <2>6
    <3> QED
      BY <3>1, DropBackgroundGood
  <2>8. z.component[c].state = "live" /\ z.component[c].request = NoRequest /\ z.component[c].background = 0
    BY <2>6, <2>7 DEF Parts
  <2> HIDE DEF z
  <2>9. /\ Good(w, n, asked, {c}) /\ w.history = history /\ w.component[c].state = "live"
        /\ w.component[c].request = NoRequest /\ w.component[c].background = 0
    BY <2>2, <2>3, <2>5, <2>7, <2>8
  <2> HIDE DEF w, n
  <2>10. Good(Gone(w, c), n, asked, {}) /\ Gone(w, c).history = w.history
    BY <2>9, GoneGood
  <2> QED
    BY <1>2, <1>3, <2>4, <2>9, <2>10 DEF n
<1>7. ASSUME RegisterLoader PROVE ImageInv' /\ ImageBound'
  BY <1>7 DEF RegisterLoader, ImageInv, ImageBound, World
<1>8. ASSUME RunLoad PROVE ImageInv' /\ ImageBound'
  <2> DEFINE r == Head(loads)
             x == Popped(World)
             y == Answered(x, r, "failure")
  <2>1. Good(x, n, asked \cup {r}, {}) /\ x.history = history /\ x.request = request /\ r \in DOMAIN request
    <3>1. World.loads # <<>> /\ Head(World.loads) = r
      BY <1>1, <1>8 DEF RunLoad
    <3> QED
      BY <1>1, <3>1, PoppedGood
  <2>2. \/ asked' = asked \cup {r} /\ Becomes(x)
        \/ asked' = asked /\ Becomes(y)
    BY <1>8 DEF RunLoad, Popped
  <2> HIDE DEF x
  <2>3. Good(y, n, (asked \cup {r}) \ {r}, {}) /\ y.history.updates = n /\ y.request = x.request
    BY <2>1, AnsweredGood
  <2>4. Good(y, n, asked, {})
    <3>1. n <= n /\ n \in Nat /\ (asked \cup {r}) \ {r} \subseteq asked
      BY <1>1
    <3>2. asked \subseteq DOMAIN y.request
      BY <1>1, <2>1, <2>3
    <3>3. \A d \in Images : d \in {} => d \in {} \/ (Waits(y, d) /\ ShowsUrl(y, d))
      OBVIOUS
    <3> QED
      BY <2>3, <3>1, <3>2, <3>3, MoreGood
  <2> HIDE DEF y
  <2> QED
    BY <1>2, <1>3, <2>1, <2>2, <2>3, <2>4
<1>9. ASSUME NEW r \in Requests, Answer(r) PROVE ImageInv' /\ ImageBound'
  <2>1. PICK outcome \in {"success", "failure", "cancelled"} : Becomes(Answered(World, r, outcome))
    BY <1>9 DEF Answer
  <2>2. asked' = asked \ {r}
    BY <1>9 DEF Answer
  <2>3. /\ Good(Answered(World, r, outcome), n, asked \ {r}, {})
        /\ Answered(World, r, outcome).history.updates = n
    BY <1>1, AnsweredGood
  <2> QED
    BY <1>2, <1>3, <2>1, <2>2, <2>3
<1>10. ASSUME NEW c \in Images, Loaded(c) PROVE ImageInv' /\ ImageBound'
  <2> DEFINE h == <<c, 0>>
             x == Rested(World, h)
             y == WithAnimated(x, c, component[c].url)
  <2>1. World.component[c].state = "live" /\ component[c].url \in Urls \cup {NoUrl} /\ asked' = asked
    <3>1. component[c] \in Parts
      BY <1>1, PartIs
    <3> QED
      BY <1>1, <1>10, <3>1 DEF Loaded, bridge, Parts
  <2>2. h \in DOMAIN World.node
    BY <1>1, <2>1, LiveNodes
  <2>3. Good(x, n, asked, {}) /\ x.component = component /\ x.history = history
    <3>1. Good(World, n, asked, {})
      BY <1>1
    <3> HIDE DEF h
    <3> QED
      BY <1>1, <2>2, <3>1, RestedGood
  <2>4. /\ x = [World EXCEPT !.node = [node EXCEPT ![h].loading = FALSE, ![h].tries = 0]]
        /\ y = [x EXCEPT !.component = [component EXCEPT ![c].animated = component[c].url]]
    BY <1>1, <2>3 DEF Rested, WithAnimated
  <2>5. Good(y, n, asked, {}) /\ y.history = history
    <3>1. Good(x, n, asked, {}) /\ x.component[c].state = "live" /\ component[c].url \in Urls \cup {NoUrl}
      BY <1>1, <2>1, <2>3
    <3> HIDE DEF x
    <3> QED
      BY <2>3, <3>1, AnimatedGood
  <2>6. Becomes(x) \/ Becomes(y)
    <3> HIDE DEF x, y
    <3> QED
      BY <1>10, <2>4 DEF Loaded, Becomes, bridge, World
  <2> HIDE DEF x, y
  <2> QED
    BY <1>2, <1>3, <2>1, <2>3, <2>5, <2>6
<1>11. ASSUME NEW c \in Images, NotLoaded(c) PROVE ImageInv' /\ ImageBound'
  <2> DEFINE h == <<c, 0>>
             x == Rested(World, h)
             y == WithAnimated(x, c, component[c].url)
  <2>1. World.component[c].state = "live" /\ component[c].url \in Urls \cup {NoUrl} /\ asked' = asked
    <3>1. component[c] \in Parts
      BY <1>1, PartIs
    <3> QED
      BY <1>1, <1>11, <3>1 DEF NotLoaded, Parts
  <2>2. h \in DOMAIN World.node /\ node[h].tries \in {0, 1}
    <3>1. h \in DOMAIN World.node
      BY <1>1, <2>1, LiveNodes
    <3>2. World.node[h] \in Nodes
      BY <1>1, <3>1, NodeIs
    <3> QED
      BY <1>1, <3>1, <3>2 DEF Nodes
  <2>3. Good(x, n, asked, {}) /\ x.component = component /\ x.history = history
    <3>1. Good(World, n, asked, {})
      BY <1>1
    <3> HIDE DEF h
    <3> QED
      BY <1>1, <2>2, <3>1, RestedGood
  <2>4. Becomes(Retried(x, c)) \/ Becomes(x) \/ Becomes(y)
    BY <1>11 DEF NotLoaded, Rested, WithAnimated
  <2>5. Good(x, n, asked, {}) /\ x.component[c].state = "live"
    BY <1>1, <2>1, <2>3
  <2> HIDE DEF x
  <2>6. Good(y, n, asked, {}) /\ y.history = history
    BY <2>1, <2>3, <2>5, AnimatedGood
  <2>7. Good(Retried(x, c), n, asked, {}) /\ Retried(x, c).history = history
    BY <2>2, <2>3, <2>5, RetriedGood
  <2> HIDE DEF y
  <2> QED
    BY <1>2, <1>3, <2>1, <2>3, <2>4, <2>6, <2>7
<1>12. ASSUME NEW h \in DOMAIN node, BackgroundReports(h) PROVE ImageInv' /\ ImageBound'
  <2> DEFINE x == NotLoading(World, h)
  <2>1. Good(x, n, asked, {}) /\ x.history = history
    BY <1>1, IdleGood
  <2>2. x = [World EXCEPT !.node = [node EXCEPT ![h].loading = FALSE]]
    BY <1>1 DEF NotLoading
  <2>3. Becomes(x) /\ asked' = asked
    <3> HIDE DEF x
    <3> QED
      BY <1>12, <2>2 DEF BackgroundReports, Becomes, bridge, World
  <2> HIDE DEF x
  <2> QED
    BY <1>2, <1>3, <2>1, <2>3
<1>13. ASSUME NEW h \in DOMAIN node, AnimatorEnds(h) PROVE ImageInv' /\ ImageBound'
  <2> DEFINE past == Touched(World, h, "animation").history
             x == [World EXCEPT !.history = past]
  <2>1. /\ history = [updates |-> history.updates, dead |-> history.dead, declined |-> history.declined]
        /\ history.dead \subseteq {"animation"}
    BY <1>1 DEF IsWorld
  <2>2. past = history \/ past = [history EXCEPT !.dead = history.dead \cup {"animation"}]
    BY <1>1 DEF Touched, World
  <2> HIDE DEF past
  <2>3. /\ past = [updates |-> past.updates, dead |-> past.dead, declined |-> past.declined]
        /\ past.updates = n /\ past.dead \subseteq {"animation"} /\ past.declined = World.history.declined
    BY <1>1, <2>1, <2>2
  <2>4. Good(x, n, asked, {})
    <3>1. past.updates \in Nat
      BY <1>1, <2>3
    <3> QED
      BY <1>1, <2>3, <3>1, HistoryGood
  <2>5. Becomes(x) /\ asked' = asked /\ x.history = past
    BY <1>13 DEF AnimatorEnds, Becomes, bridge, World, past
  <2> HIDE DEF x
  <2> QED
    BY <1>2, <1>3, <2>3, <2>4, <2>5
<1>14. ASSUME UNCHANGED vars PROVE ImageInv' /\ ImageBound'
  BY <1>14 DEF vars, bridge, ImageInv, ImageBound, World
<1> QED
  BY <1>4, <1>5, <1>6, <1>7, <1>8, <1>9, <1>10, <1>11, <1>12, <1>13, <1>14 DEF Next, Reports

LEMMA ImageFacts == Spec => [](ImageInv /\ ImageBound)
  BY ImageInit, ImageStep, PTL DEF Spec

\* The invariant of the images and their requests: components, nodes and requests
\* belong together between any two callbacks of the renderer's main thread.
THEOREM ImageInvariant == Spec => []ImageInv
  BY ImageFacts, PTL

LEMMA ImageTypes == ImageInv /\ ImageBound => TypeOK
<1> SUFFICES ASSUME ImageInv, ImageBound PROVE TypeOK
  OBVIOUS
<1>1. /\ IsWorld(World) /\ history.updates \in Nat /\ history.updates <= MaxUpdates
      /\ World.component = component /\ World.node = node /\ World.request = request
      /\ World.pending = pending /\ asked \subseteq DOMAIN request
  BY DEF ImageInv, Good, ImageBound, World
<1>2. ASSUME NEW c \in Images
      PROVE  /\ component[c] \in Parts /\ component[c].made <= history.updates
             /\ component[c].background <= component[c].made
             /\ component[c].request \in {NoRequest} \cup DOMAIN request
             /\ component[c].backgroundRequest \in {NoRequest} \cup DOMAIN request
  <2>1. PartOK(World, c, history.updates) /\ component[c] \in Parts
    BY <1>1, PartIs DEF ImageInv, Good
  <2> QED
    BY <1>1, <2>1 DEF PartOK
<1>3. ASSUME NEW c \in Images
      PROVE  /\ component[c].state \in {"unborn", "live", "gone"}
             /\ {component[c].url, component[c].animated, component[c].backgroundUrl} \subseteq Urls \cup {NoUrl}
             /\ {component[c].request, component[c].backgroundRequest} \subseteq {NoRequest} \cup DOMAIN request
             /\ component[c].background \in 0..component[c].made
  BY <1>2 DEF Parts
<1>4. ASSUME NEW h \in DOMAIN node
      PROVE  /\ h \in Handles /\ node[h].by \in {"nothing", "native", "loader"}
             /\ node[h].alive = (component[h[1]].state = "live" /\ h[2] \in {0, component[h[1]].background})
  <2>1. NodeOK(World, h)
    BY <1>1 DEF ImageInv, Good
  <2>2. node[h] \in Nodes /\ h[1] \in Images /\ h[2] \in Nat /\ h = <<h[1], h[2]>>
    BY <1>1, NodeIs
  <2>3. h[2] <= component[h[1]].made
    BY <1>1, <2>1 DEF NodeOK
  <2>4. h[2] \in 0..MaxRequests + MaxUpdates
    <3>1. component[h[1]].made \in Nat /\ component[h[1]].made <= history.updates
      BY <1>2, <2>2 DEF Parts
    <3> QED
      BY <1>1, <2>2, <2>3, <3>1, ImageAssumption
  <2>5. h \in Handles
    BY <2>2, <2>4 DEF Handles
  <2>6. node[h].alive = (component[h[1]].state = "live" /\ h[2] \in {0, component[h[1]].background})
    BY <1>1, <2>1 DEF NodeOK
  <2> QED
    BY <2>2, <2>5, <2>6 DEF Nodes
<1>5. pending \cup asked \subseteq DOMAIN request
  BY <1>1 DEF IsWorld
<1>6. \A r \in DOMAIN request : request[r].node \in DOMAIN node
  BY <1>1 DEF ImageInv, Good, OrderOK
<1> QED
  BY <1>3, <1>4, <1>5, <1>6 DEF TypeOK

\* What the invariant says of the requests.
LEMMA OwnedIs == ImageInv /\ ImageBound => RequestsAreOwned
<1> SUFFICES ASSUME ImageInv, ImageBound PROVE RequestsAreOwned
  OBVIOUS
<1>1. TypeOK
  BY ImageTypes
<1>2. /\ Good(World, history.updates, asked, {})
      /\ World.component = component /\ World.node = node /\ World.request = request
      /\ World.pending = pending /\ World.loads = loads
  BY DEF ImageInv, World
<1>3. ASSUME NEW r \in pending
      PROVE  LET c == request[r].image
                 own == request[r].node[2] = 0
             IN  /\ component[c].state = "live" /\ node[request[r].node].alive
                 /\ IF own THEN component[c].request = r /\ component[c].url = request[r].url
                    ELSE /\ component[c].backgroundRequest = r /\ component[c].backgroundUrl = request[r].url
                         /\ component[c].background = request[r].node[2]
                 /\ r \in asked \/ \E n \in DOMAIN loads : loads[n] = r
  <2>1. Owned(World, r, asked) /\ node[request[r].node].alive
    BY <1>2, PendingIs DEF Good
  <2> QED
    BY <1>2, <2>1 DEF Owned
<1>4. \A c \in Images : component[c].request # NoRequest => component[c].request \in pending
  BY <1>2 DEF Good, Waits
<1> QED
  BY <1>1, <1>3, <1>4 DEF RequestsAreOwned

\* A request that the bridge still answers is the current one of a live component,
\* for its url and one of its nodes, and will be answered.
THEOREM PendingRequestsAreOwned == Spec => []RequestsAreOwned
  BY OwnedIs, ImageFacts, PTL

\* What it says of the pictures.
LEMMA CurrentIs == ImageInv => ShownIsCurrent
<1> SUFFICES ASSUME ImageInv PROVE ShownIsCurrent
  OBVIOUS
<1>1. /\ Good(World, history.updates, asked, {}) /\ IsWorld(World)
      /\ World.component = component /\ World.node = node /\ World.history = history
  BY DEF ImageInv, Good, World
<1>2. history.dead \subseteq {"animation"}
  BY <1>1 DEF IsWorld
<1>3. ASSUME NEW c \in Images, component[c].state = "live", component[c].url # NoUrl,
             node[<<c, 0>>].url # component[c].url
      PROVE  component[c].request # NoRequest \/ c \in history.declined
  <2>1. ShowsUrl(World, c)
    BY <1>1 DEF Good
  <2> QED
    BY <1>1, <1>3, <2>1 DEF ShowsUrl
<1>4. ASSUME NEW h \in DOMAIN node, h[2] # 0, node[h].alive, node[h].by # "nothing"
      PROVE  node[h].url = component[h[1]].backgroundUrl
  <2>1. NodeOK(World, h)
    BY <1>1 DEF Good
  <2> QED
    BY <1>1, <1>4, <2>1 DEF NodeOK
<1> QED
  BY <1>2, <1>3, <1>4 DEF ShownIsCurrent

\* No node is touched after it was disposed of but by an animator, and the picture
\* on a node is that of the current url unless the component waits for it.
THEOREM PicturesAreCurrent == Spec => []ShownIsCurrent
  BY CurrentIs, ImageInvariant, PTL
-----------------------------------------------------------------------------
(* The players. *)

Medias == [kind : MediaKinds, alive : BOOLEAN, url : Sources \cup {NoSource},
           state : {"", "destroyed"} \cup (PlayerStates \ {"resetting", "released"}), playing : BOOLEAN,
           pendingPrepare : BOOLEAN, pendingPlay : BOOLEAN, autoPlay : BOOLEAN, late : BOOLEAN]
Players == [state : PlayerStates, source : Sources \cup {NoSource}]
ReportNames == {"initialized"} \cup (PlayerStates \ {"resetting", "released"})
Worlds == [media : Medias, player : Players, reports : Seq(ReportNames)]

\* The states in which an audio component resets the player for a new url.
Busy == {"playing", "paused", "prepared", "completed", "error"}

\* What the player plays: an idle player has no source, and the source of the
\* others is the url, or it came too late.
Sourced(w) ==
    /\ w.player.state = "idle" => w.player.source = NoSource
    /\ w.player.state # "resetting" => w.player.source \in {NoSource, w.media.url} \/ w.media.late

\* What is heard one after the other.
Ordered(w) ==
    \A n \in DOMAIN w.reports :
        /\ w.reports[n] = "initialized" => IF n = 1 THEN ~w.media.playing ELSE w.reports[n - 1] = "idle"
        /\ w.reports[n] = "prepared" => IF n = 1 THEN ~w.media.playing ELSE w.reports[n - 1] = "initialized"

\* What is heard last: where the player is.
LastTells(w) ==
    w.player.state # "resetting" /\ w.reports # <<>> =>
        w.reports[Len(w.reports)] = IF w.player.state = "preparing" THEN "initialized" ELSE w.player.state

\* What the component knows when nothing is left to hear.
Heard(w) ==
    w.player.state # "resetting" /\ w.reports = <<>> =>
        /\ w.media.playing = (w.player.state = "playing")
        /\ w.media.kind = "audio" /\ w.player.state \in Busy => w.media.state \in Busy

\* The world of a component that is not released.
StageOK(w) ==
    /\ w \in Worlds /\ w.media.alive /\ w.player.state # "released"
    /\ Sourced(w) /\ Ordered(w) /\ LastTells(w) /\ Heard(w)

WindowOK == window \in [current : Nat, made : Nat, sources : Nat, clicks : Nat] /\ window.current \in 0..window.made

MediaInv ==
    /\ Stage \in Worlds /\ WindowOK
    /\ media.alive => StageOK(Stage)
-----------------------------------------------------------------------------
(* The player's reports. *)

LEMMA AppendedReport ==
    ASSUME NEW queue \in Seq(ReportNames), NEW state \in ReportNames
    PROVE  /\ Append(queue, state) \in Seq(ReportNames) /\ Append(queue, state) # <<>>
           /\ Len(queue) \in Nat /\ DOMAIN queue = 1..Len(queue)
           /\ Len(Append(queue, state)) = Len(queue) + 1
           /\ DOMAIN Append(queue, state) = 1..Len(queue) + 1
           /\ \A n \in 1..Len(queue) : Append(queue, state)[n] = queue[n]
           /\ Append(queue, state)[Len(queue) + 1] = state
           /\ queue = <<>> <=> Len(queue) = 0
  OBVIOUS

LEMMA HeadReport ==
    ASSUME NEW queue \in Seq(ReportNames), queue # <<>>
    PROVE  /\ Tail(queue) \in Seq(ReportNames) /\ Head(queue) = queue[1] /\ queue[1] \in ReportNames
           /\ Len(queue) \in Nat \ {0} /\ DOMAIN queue = 1..Len(queue)
           /\ Len(Tail(queue)) = Len(queue) - 1 /\ DOMAIN Tail(queue) = 1..Len(queue) - 1
           /\ \A n \in 1..Len(queue) - 1 : Tail(queue)[n] = queue[n + 1]
           /\ Tail(queue) = <<>> <=> Len(queue) = 1
<1>1. /\ Tail(queue) \in Seq(ReportNames) /\ Head(queue) = queue[1] /\ queue[1] \in ReportNames
      /\ Len(queue) \in Nat \ {0} /\ DOMAIN queue = 1..Len(queue)
      /\ Len(Tail(queue)) = Len(queue) - 1 /\ DOMAIN Tail(queue) = 1..Len(queue) - 1
      /\ \A n \in 1..Len(queue) - 1 : Tail(queue)[n] = queue[n + 1]
  OBVIOUS
<1>2. \A rest \in Seq(ReportNames) : rest = <<>> <=> Len(rest) = 0
  OBVIOUS
<1>3. Tail(queue) = <<>> <=> Len(Tail(queue)) = 0
  BY <1>1, <1>2
<1>4. \A n \in Nat : n - 1 = 0 <=> n = 1
  OBVIOUS
<1>5. Tail(queue) = <<>> <=> Len(queue) = 1
  BY <1>1, <1>3, <1>4
<1> QED
  BY <1>1, <1>5

\* What a state that the player enters does to the world.
LEMMA EntersWorld ==
    ASSUME NEW w \in Worlds, NEW state \in PlayerStates \ {"resetting", "released"}
    PROVE  /\ Enters(w, state) \in Worlds /\ Enters(w, state).media = w.media
           /\ Enters(w, state).player.state = state /\ Enters(w, state).player.source = w.player.source
           /\ Enters(w, state).reports = Append(w.reports, state)
<1>1. state \in ReportNames /\ state \in PlayerStates
  BY DEF ReportNames
<1>2. Append(w.reports, state) \in Seq(ReportNames)
  BY <1>1 DEF Worlds
<1> QED
  BY <1>1, <1>2 DEF Enters, Worlds, Players

\* A report more keeps the order, when it is one that may come.
LEMMA OrderGrows ==
    ASSUME NEW w \in Worlds, NEW x \in Worlds, NEW state \in ReportNames, Ordered(w),
           x.media.playing = w.media.playing, x.reports = Append(w.reports, state),
           state = "initialized" =>
               IF w.reports = <<>> THEN ~w.media.playing ELSE w.reports[Len(w.reports)] = "idle",
           state = "prepared" =>
               IF w.reports = <<>> THEN ~w.media.playing ELSE w.reports[Len(w.reports)] = "initialized"
    PROVE  Ordered(x)
<1> DEFINE queue == w.reports
           longer == x.reports
<1>1. queue \in Seq(ReportNames)
  BY DEF Worlds
<1>2. /\ Len(queue) \in Nat /\ DOMAIN queue = 1..Len(queue) /\ DOMAIN longer = 1..Len(queue) + 1
      /\ \A n \in 1..Len(queue) : longer[n] = queue[n]
      /\ longer[Len(queue) + 1] = state /\ (queue = <<>> <=> Len(queue) = 0)
  BY <1>1, AppendedReport
<1> SUFFICES ASSUME NEW n \in DOMAIN longer
             PROVE  /\ longer[n] = "initialized" => IF n = 1 THEN ~w.media.playing ELSE longer[n - 1] = "idle"
                    /\ longer[n] = "prepared" => IF n = 1 THEN ~w.media.playing ELSE longer[n - 1] = "initialized"
  BY DEF Ordered
<1>3. \A k \in DOMAIN queue :
          /\ queue[k] = "initialized" => IF k = 1 THEN ~w.media.playing ELSE queue[k - 1] = "idle"
          /\ queue[k] = "prepared" => IF k = 1 THEN ~w.media.playing ELSE queue[k - 1] = "initialized"
  BY DEF Ordered
<1> HIDE DEF queue, longer
<1>4. CASE n = Len(queue) + 1
  BY <1>2, <1>4 DEF queue
<1>5. CASE n # Len(queue) + 1
  <2>1. n \in 1..Len(queue) /\ (n # 1 => n - 1 \in 1..Len(queue))
    BY <1>2, <1>5
  <2> QED
    BY <1>2, <1>3, <2>1
<1> QED
  BY <1>4, <1>5

\* A state that follows another one without a new source.
LEMMA EntersGood ==
    ASSUME NEW w, StageOK(w), w.player.state # "resetting",
           NEW state \in {"prepared", "playing", "paused", "completed", "error"},
           state = "prepared" => w.player.state = "preparing"
    PROVE  StageOK(Enters(w, state))
<1> DEFINE x == Enters(w, state)
<1>1. w \in Worlds /\ state \in PlayerStates \ {"resetting", "released"} /\ state \in ReportNames
  BY DEF StageOK, PlayerStates, ReportNames
<1>2. /\ x \in Worlds /\ x.media = w.media /\ x.player.state = state
      /\ x.player.source = w.player.source /\ x.reports = Append(w.reports, state)
  BY <1>1, EntersWorld
<1>3. /\ x.reports # <<>> /\ x.reports[Len(x.reports)] = state
      /\ Len(w.reports) \in Nat
  BY <1>1, <1>2, AppendedReport DEF Worlds
<1> HIDE DEF x
<1>4. Ordered(x)
  <2>1. state # "initialized"
    OBVIOUS
  <2>2. state = "prepared" =>
            IF w.reports = <<>> THEN ~w.media.playing ELSE w.reports[Len(w.reports)] = "initialized"
    BY DEF StageOK, LastTells, Heard
  <2>3. Ordered(w)
    BY DEF StageOK
  <2> QED
    BY <1>1, <1>2, <2>1, <2>2, <2>3, OrderGrows
<1>5. Sourced(x) /\ LastTells(x) /\ Heard(x)
  BY <1>2, <1>3 DEF StageOK, Sourced, LastTells, Heard
<1> QED
  BY <1>1, <1>2, <1>4, <1>5 DEF StageOK, x

\* Whatever it played, the player plays nothing once it is idle.
LEMMA StillGood ==
    ASSUME NEW w \in Worlds, w.media.alive, Ordered(w)
    PROVE  StageOK(Idle(w))
<1> DEFINE y == [w EXCEPT !.player.source = NoSource]
           x == Enters(y, "idle")
<1>1. y \in Worlds /\ y.media = w.media /\ y.reports = w.reports /\ y.player.source = NoSource
  BY DEF Worlds, Players
<1>2. "idle" \in PlayerStates \ {"resetting", "released"} /\ "idle" \in ReportNames
  BY DEF PlayerStates, ReportNames
<1> HIDE DEF y
<1>3. /\ x \in Worlds /\ x.media = w.media /\ x.player.state = "idle"
      /\ x.player.source = NoSource /\ x.reports = Append(w.reports, "idle")
  BY <1>1, <1>2, EntersWorld
<1>4. x.reports # <<>> /\ x.reports[Len(x.reports)] = "idle"
  BY <1>1, <1>2, <1>3, AppendedReport DEF Worlds
<1> HIDE DEF x
<1>5. Ordered(x)
  BY <1>2, <1>3, OrderGrows
<1>6. Sourced(x) /\ LastTells(x) /\ Heard(x)
  BY <1>3, <1>4 DEF Sourced, LastTells, Heard
<1>7. StageOK(x)
  BY <1>3, <1>5, <1>6 DEF StageOK
<1> QED
  BY <1>7 DEF Idle, x, y

\* A reset frees the player from its source, now or later; an idle player had
\* none to begin with.
LEMMA ResetsGood ==
    ASSUME NEW w \in Worlds, w.media.alive, Ordered(w), w.player.state = "idle" => StageOK(w)
    PROVE  \A x \in Resets(w) : StageOK(x)
<1>1. CASE w.player.state = "idle"
  BY <1>1 DEF Resets
<1>2. CASE w.player.state # "idle"
  <2> DEFINE y == [w EXCEPT !.player.state = "resetting"]
  <2>1. /\ y \in Worlds /\ y.media = w.media /\ y.reports = w.reports /\ y.player.state = "resetting"
    BY DEF Worlds, Players, PlayerStates
  <2>2. Resets(w) = {Idle(w), y}
    BY <1>2 DEF Resets
  <2> HIDE DEF y
  <2>3. StageOK(y)
    BY <2>1 DEF StageOK, Sourced, Ordered, LastTells, Heard
  <2> QED
    BY <2>2, <2>3, StillGood
<1> QED
  BY <1>1, <1>2

\* The url that the player is given is the component's.
LEMMA PrepareGood ==
    ASSUME NEW w, StageOK(w), NEW url \in Sources \cup {NoSource}, url = w.media.url
    PROVE  StageOK(Prepare(w, url))
<1>1. CASE ~Takes(w, url)
  BY <1>1 DEF Prepare
<1>2. CASE Takes(w, url)
  <2> DEFINE longer == Append(w.reports, "initialized")
             x == [media |-> [w.media EXCEPT !.late = FALSE], player |-> [state |-> "preparing", source |-> url],
                   reports |-> longer]
  <2>1. w \in Worlds /\ w.player.state = "idle" /\ "initialized" \in ReportNames
    BY <1>2 DEF StageOK, Takes, ReportNames
  <2>2. Prepare(w, url) = x
    BY <1>2, <2>1 DEF Prepare, Enters, Worlds, Players
  <2>3. /\ longer \in Seq(ReportNames) /\ longer # <<>> /\ longer[Len(longer)] = "initialized"
        /\ Len(w.reports) \in Nat
    BY <2>1, AppendedReport DEF Worlds
  <2> HIDE DEF longer
  <2>4. /\ x \in Worlds /\ x.media.alive = w.media.alive /\ x.media.playing = w.media.playing
        /\ x.media.url = url /\ x.reports = longer /\ x.player.state = "preparing" /\ x.player.source = url
    BY <2>1, <2>3 DEF Worlds, Medias, Players, PlayerStates
  <2> HIDE DEF x
  <2>5. Ordered(x)
    <3>1. IF w.reports = <<>> THEN ~w.media.playing ELSE w.reports[Len(w.reports)] = "idle"
      BY <2>1 DEF StageOK, LastTells, Heard
    <3>2. Ordered(w)
      BY DEF StageOK
    <3> QED
      BY <2>1, <2>4, <3>1, <3>2, OrderGrows DEF longer
  <2>6. Sourced(x) /\ LastTells(x) /\ Heard(x)
    BY <2>3, <2>4 DEF Sourced, LastTells, Heard
  <2>7. StageOK(x)
    BY <2>4, <2>5, <2>6 DEF StageOK
  <2> QED
    BY <2>2, <2>7
<1> QED
  BY <1>1, <1>2

LEMMA PlayGood ==
    ASSUME NEW w, StageOK(w)
    PROVE  StageOK(Play(w))
  BY EntersGood DEF Play

LEMMA PauseGood ==
    ASSUME NEW w, StageOK(w)
    PROVE  StageOK(Pause(w))
  BY EntersGood DEF Pause
-----------------------------------------------------------------------------
(* The component. *)

\* What only the component keeps may change, if an audio component goes on to
\* know a busy player.
LEMMA ChangeGood ==
    ASSUME NEW w, StageOK(w), NEW m \in Medias, m.alive, m.kind = w.media.kind, m.url = w.media.url,
           m.late = w.media.late, m.playing = w.media.playing,
           w.reports = <<>> /\ w.player.state \in Busy => m.kind = "video" \/ m.state \in {w.media.state} \cup Busy
    PROVE  StageOK([w EXCEPT !.media = m])
<1> DEFINE x == [w EXCEPT !.media = m]
<1>1. x \in Worlds /\ x.media = m /\ x.player = w.player /\ x.reports = w.reports
  BY DEF StageOK, Worlds
<1> HIDE DEF x
<1>2. Sourced(x) /\ Ordered(x) /\ LastTells(x) /\ Heard(x)
  BY <1>1 DEF StageOK, Sourced, Ordered, LastTells, Heard
<1>3. StageOK(x)
  BY <1>1, <1>2 DEF StageOK
<1> QED
  BY <1>3 DEF x

\* A new url: nothing is wrong when the player is idle, and when it comes too
\* late the component knows of no player that plays.
LEMMA NewUrl ==
    ASSUME NEW w, StageOK(w), NEW x \in Worlds, x.player = w.player, x.reports = w.reports, x.media.alive,
           x.media.kind = w.media.kind, x.media.state = w.media.state,
           x.media.playing \in {FALSE, w.media.playing}
    PROVE  /\ Ordered(x)
           /\ x.player.state = "idle" => StageOK(x)
           /\ /\ x.media.late
              /\ \/ x.media.playing = w.media.playing
                 \/ x.media.kind = "audio" /\ x.media.state \notin Busy
              => StageOK(x)
<1>1. Ordered(x) /\ LastTells(x) /\ w \in Worlds
  BY ZenonT(30) DEF StageOK, Ordered, LastTells
<1>2. ASSUME x.player.state = "idle" PROVE Sourced(x) /\ Heard(x)
  BY <1>1, <1>2 DEF StageOK, Sourced, Heard, Busy, Worlds, Medias
<1>3. ASSUME x.media.late, \/ x.media.playing = w.media.playing
                           \/ x.media.kind = "audio" /\ x.media.state \notin Busy
      PROVE  Sourced(x) /\ Heard(x)
  <2>1. Sourced(x)
    BY <1>3 DEF StageOK, Sourced
  <2>2. Heard(w) /\ w.media.kind = x.media.kind /\ w.media.state = x.media.state
    BY DEF StageOK
  <2>3. CASE x.media.playing = w.media.playing
    BY <2>1, <2>2, <2>3 DEF Heard
  <2>4. CASE x.media.kind = "audio" /\ x.media.state \notin Busy
    <3>1. x.player.state # "resetting" /\ x.reports = <<>> => x.player.state \notin Busy /\ ~w.media.playing
      BY <2>2, <2>4 DEF Heard, Busy
    <3>2. w.media.playing \in BOOLEAN /\ x.media.playing \in {FALSE, w.media.playing}
      BY <1>1 DEF Worlds, Medias
    <3>3. "playing" \in Busy
      BY DEF Busy
    <3>4. x.player.state # "resetting" /\ x.reports = <<>> => x.media.playing = FALSE /\ x.player.state # "playing"
      BY <3>1, <3>2, <3>3
    <3> QED
      BY <2>1, <3>1, <3>4 DEF Heard
  <2> QED
    BY <1>3, <2>3, <2>4
<1> QED
  BY <1>1, <1>2, <1>3 DEF StageOK

LEMMA ToldGood ==
    ASSUME NEW w, StageOK(w), w.reports # <<>>
    PROVE  StageOK(Told([w EXCEPT !.reports = Tail(@)], Head(w.reports)))
<1> DEFINE state == Head(w.reports)
           rest == Tail(w.reports)
           playing == IF w.media.kind = "video" /\ state \in {"initialized", "prepared"} THEN w.media.playing
                      ELSE state = "playing"
           m == [w.media EXCEPT !.state = IF state = "initialized" THEN "preparing" ELSE state,
                                !.playing = playing]
           x == [media |-> m, player |-> w.player, reports |-> rest]
<1>1. w \in Worlds /\ w.reports \in Seq(ReportNames) /\ w.media \in Medias
  BY DEF StageOK, Worlds
<1>2. /\ rest \in Seq(ReportNames) /\ state = w.reports[1] /\ state \in ReportNames
      /\ Len(w.reports) \in Nat \ {0} /\ DOMAIN w.reports = 1..Len(w.reports)
      /\ Len(rest) = Len(w.reports) - 1 /\ DOMAIN rest = 1..Len(w.reports) - 1
      /\ \A n \in 1..Len(w.reports) - 1 : rest[n] = w.reports[n + 1]
      /\ rest = <<>> <=> Len(w.reports) = 1
  BY <1>1, HeadReport
<1>3. Told([w EXCEPT !.reports = Tail(@)], Head(w.reports)) = x
  <2> DEFINE y == [media |-> w.media, player |-> w.player, reports |-> rest]
  <2>1. [w EXCEPT !.reports = Tail(@)] = y
    <3>1. w = [media |-> w.media, player |-> w.player, reports |-> w.reports]
      BY <1>1 DEF Worlds
    <3>2. [w EXCEPT !.reports = Tail(@)] = [w EXCEPT !.reports = rest]
      OBVIOUS
    <3>3. \A queue : [w EXCEPT !.reports = queue]
                         = [media |-> w.media, player |-> w.player, reports |-> queue]
      BY <3>1
    <3> QED
      BY <3>2, <3>3
  <2>2. y.media = w.media /\ Told(y, state) = [y EXCEPT !.media = m]
    BY DEF Told
  <2> QED
    BY <2>1, <2>2
<1>4. playing \in BOOLEAN
  BY <1>1 DEF Medias
<1>5. state \in {"initialized", "prepared"} => ~w.media.playing
  <2>1. 1 \in DOMAIN w.reports /\ Ordered(w) /\ state = w.reports[1]
    BY <1>2 DEF StageOK
  <2> HIDE DEF state
  <2> QED
    BY <2>1 DEF Ordered
<1>6. state # "playing" => ~playing \/ (w.media.playing /\ state \in {"initialized", "prepared"})
  BY <1>4
<1>7. (state # "playing" => ~playing) /\ (state = "playing" => playing)
  BY <1>4, <1>5, <1>6
<1> HIDE DEF state, rest, playing
<1>8. /\ m \in Medias /\ m.kind = w.media.kind /\ m.alive = w.media.alive /\ m.url = w.media.url
      /\ m.late = w.media.late /\ m.playing = playing
      /\ m.state = IF state = "initialized" THEN "preparing" ELSE state
  <2>1. (IF state = "initialized" THEN "preparing" ELSE state) \in PlayerStates \ {"resetting", "released"}
    BY <1>2 DEF ReportNames, PlayerStates
  <2> QED
    BY <1>1, <1>4, <2>1 DEF Medias
<1> HIDE DEF m
<1>9. /\ x \in Worlds /\ x.media = m /\ x.player = w.player /\ x.reports = rest
  BY <1>1, <1>2, <1>8 DEF Worlds
<1> HIDE DEF x
<1>10. Ordered(x)
  <2> SUFFICES ASSUME NEW n \in DOMAIN rest
               PROVE  /\ rest[n] = "initialized" => IF n = 1 THEN ~playing ELSE rest[n - 1] = "idle"
                      /\ rest[n] = "prepared" => IF n = 1 THEN ~playing ELSE rest[n - 1] = "initialized"
    BY <1>8, <1>9 DEF Ordered
  <2>1. n \in 1..Len(w.reports) - 1 /\ rest[n] = w.reports[n + 1]
    BY <1>2
  <2>2. /\ n + 1 \in DOMAIN w.reports /\ (n + 1) - 1 = n /\ n + 1 # 1
        /\ (n # 1 => n - 1 \in 1..Len(w.reports) - 1 /\ (n - 1) + 1 = n)
    <3>1. \A length \in Nat : \A k \in 1..length - 1 :
              /\ k + 1 \in 1..length /\ (k + 1) - 1 = k /\ k + 1 # 1
              /\ (k # 1 => k - 1 \in 1..length - 1 /\ (k - 1) + 1 = k)
      OBVIOUS
    <3>2. Len(w.reports) \in Nat /\ DOMAIN w.reports = 1..Len(w.reports)
      BY <1>2
    <3> QED
      BY <2>1, <3>1, <3>2
  <2>3. /\ w.reports[n + 1] = "initialized" => w.reports[n] = "idle"
        /\ w.reports[n + 1] = "prepared" => w.reports[n] = "initialized"
    BY <2>2 DEF StageOK, Ordered
  <2>4. CASE n = 1
    BY <1>2, <1>7, <2>1, <2>3, <2>4
  <2>5. CASE n # 1
    <3>1. rest[n - 1] = w.reports[n]
      BY <1>2, <2>2, <2>5
    <3> QED
      BY <2>1, <2>3, <2>5, <3>1
  <2> QED
    BY <2>4, <2>5
<1>11. Sourced(x)
  BY <1>8, <1>9 DEF StageOK, Sourced
<1>12. LastTells(x)
  <2>1. rest # <<>> => rest[Len(rest)] = w.reports[Len(w.reports)]
    BY <1>2
  <2> QED
    BY <1>9, <2>1 DEF StageOK, LastTells
<1>13. Heard(x)
  <2> SUFFICES ASSUME w.player.state # "resetting", rest = <<>>
               PROVE  /\ playing = (w.player.state = "playing")
                      /\ w.player.state \in Busy => m.state \in Busy
    BY <1>8, <1>9 DEF Heard
  <2>1. state = IF w.player.state = "preparing" THEN "initialized" ELSE w.player.state
    BY <1>2 DEF StageOK, LastTells
  <2>2. w.player.state \in Busy => m.state \in Busy
    BY <1>8, <2>1 DEF Busy
  <2>3. (state = "playing") = (w.player.state = "playing")
    BY <2>1
  <2>4. playing = (state = "playing")
    BY <1>4, <1>7
  <2> QED
    BY <2>2, <2>3, <2>4
<1>14. StageOK(x)
  BY <1>8, <1>9, <1>10, <1>11, <1>12, <1>13 DEF StageOK
<1> QED
  BY <1>3, <1>14 DEF state

LEMMA VideoStateGood ==
    ASSUME NEW w, StageOK(w), NEW state
    PROVE  StageOK(VideoStateChange(w, state))
<1> DEFINE m == [w.media EXCEPT !.pendingPrepare = FALSE]
           x == [w EXCEPT !.media = m]
<1>1. w \in Worlds
  BY DEF StageOK
<1>2. /\ m \in Medias /\ m.alive = w.media.alive /\ m.kind = w.media.kind /\ m.url = w.media.url
      /\ m.late = w.media.late /\ m.playing = w.media.playing /\ m.state = w.media.state
  BY <1>1 DEF Worlds, Medias
<1>3. w.media.alive
  BY DEF StageOK
<1> HIDE DEF m
<1>4. StageOK(x) /\ x.media = m
  <2>1. StageOK(x)
    BY <1>2, <1>3, ChangeGood
  <2> QED
    BY <1>1, <2>1 DEF Worlds
<1>5. w.media.url \in Sources \cup {NoSource}
  BY <1>1 DEF Worlds, Medias
<1> HIDE DEF x
<1>6. StageOK(HandleVideoPrepare(x, w.media.url))
  BY <1>2, <1>4, <1>5, PrepareGood DEF HandleVideoPrepare
<1>7. StageOK(Play(w))
  BY PlayGood
<1>8. x = [w EXCEPT !.media.pendingPrepare = FALSE]
  BY DEF x, m
<1> QED
  BY <1>6, <1>7, <1>8 DEF VideoStateChange

LEMMA AudioStateGood ==
    ASSUME NEW w, StageOK(w), NEW state
    PROVE  StageOK(AudioStateChange(w, state))
<1> DEFINE m == [w.media EXCEPT !.pendingPlay = FALSE]
           x == [w EXCEPT !.media = m]
           y == Play(x)
           z == [y EXCEPT !.media = [y.media EXCEPT !.state = "error"]]
<1>1. w \in Worlds /\ w.media.alive
  BY DEF StageOK
<1>2. /\ m \in Medias /\ m.alive = w.media.alive /\ m.kind = w.media.kind /\ m.url = w.media.url
      /\ m.late = w.media.late /\ m.playing = w.media.playing /\ m.state = w.media.state
  BY <1>1 DEF Worlds, Medias
<1> HIDE DEF m
<1>3. StageOK(x)
  BY <1>1, <1>2, ChangeGood
<1>4. x = [w EXCEPT !.media.pendingPlay = FALSE]
  BY DEF x, m
<1> HIDE DEF x
<1>5. StageOK(y)
  BY <1>3, PlayGood
<1> HIDE DEF y
<1>6. StageOK(z)
  <2> DEFINE n == [y.media EXCEPT !.state = "error"]
  <2>1. y \in Worlds /\ y.media.alive
    BY <1>5 DEF StageOK
  <2>2. /\ n \in Medias /\ n.alive /\ n.kind = y.media.kind /\ n.url = y.media.url
        /\ n.late = y.media.late /\ n.playing = y.media.playing /\ n.state \in Busy
    BY <2>1 DEF Worlds, Medias, Busy, PlayerStates
  <2> HIDE DEF n
  <2>3. StageOK([y EXCEPT !.media = n])
    BY <1>5, <2>2, ChangeGood
  <2> QED
    BY <2>3 DEF n
<1>7. z = [y EXCEPT !.media.state = "error"]
  OBVIOUS
<1> HIDE DEF z
<1> QED
  BY <1>3, <1>4, <1>5, <1>6, <1>7 DEF AudioStateChange, y

LEMMA ClickAudioGood ==
    ASSUME NEW w, StageOK(w)
    PROVE  StageOK(ClickAudio(w))
<1> DEFINE m == [w.media EXCEPT !.pendingPlay = TRUE, !.state = "preparing"]
           x == [w EXCEPT !.media = m]
<1>1. w \in Worlds /\ w.media.alive
  BY DEF StageOK
<1>2. /\ m \in Medias /\ m.alive = w.media.alive /\ m.kind = w.media.kind /\ m.url = w.media.url
      /\ m.late = w.media.late /\ m.playing = w.media.playing
  BY <1>1 DEF Worlds, Medias, PlayerStates
<1>3. x = [w EXCEPT !.media.pendingPlay = TRUE, !.media.state = "preparing"]
  BY <1>1 DEF Worlds
<1> HIDE DEF m
<1>4. ASSUME ThinksIdle(w) PROVE StageOK(HandleAudioPrepare(x, w.media.url))
  <2>1. w.media.kind = "video" \/ w.media.kind = "audio"
    BY <1>1, MediaAssumption DEF Worlds, Medias
  <2>2. w.reports = <<>> /\ w.player.state \in Busy => w.media.kind = "video"
    BY <1>4, <2>1 DEF StageOK, Heard, ThinksIdle, Busy
  <2>3. StageOK(x)
    BY <1>1, <1>2, <2>2, ChangeGood
  <2>4. x.media.url = w.media.url /\ w.media.url \in Sources \cup {NoSource}
    BY <1>1, <1>2 DEF Worlds, Medias
  <2> HIDE DEF x
  <2> QED
    BY <2>3, <2>4, PrepareGood DEF HandleAudioPrepare
<1> HIDE DEF x
<1> QED
  BY <1>3, <1>4, PlayGood, PauseGood DEF ClickAudio
-----------------------------------------------------------------------------
(* A new url. *)

LEMMA StageFields ==
    /\ Stage.media = media /\ Stage.player = player /\ Stage.reports = reports
  BY DEF Stage

LEMMA VideoUrlGood ==
    ASSUME StageOK(Stage), NEW url \in Sources
    PROVE  \A x \in SetVideoUrl(url) : StageOK(x)
<1> DEFINE m == [media EXCEPT !.url = url, !.pendingPrepare = FALSE, !.late = Mistaken]
           w == [Stage EXCEPT !.media = m]
           n == [m EXCEPT !.pendingPrepare = TRUE]
           x == [Stage EXCEPT !.media = n]
<1>1. Stage \in Worlds /\ media \in Medias /\ media.alive
  BY DEF StageOK, Stage, Worlds
<1>2. Mistaken \in BOOLEAN
  BY DEF Mistaken
<1>3. /\ m \in Medias /\ m.alive /\ m.kind = media.kind /\ m.url = url /\ m.state = media.state
      /\ m.playing = media.playing /\ m.late = Mistaken
  BY <1>1, <1>2 DEF Medias
<1>4. w = [Stage EXCEPT !.media.url = url, !.media.pendingPrepare = FALSE, !.media.late = Mistaken]
  BY DEF Stage
<1>5. x = [w EXCEPT !.media.pendingPrepare = TRUE]
  BY DEF Stage
<1> HIDE DEF m
<1>6. /\ n \in Medias /\ n.alive /\ n.kind = media.kind /\ n.state = media.state /\ n.playing = media.playing
  BY <1>3 DEF Medias
<1> HIDE DEF n
<1>7. /\ w \in Worlds /\ w.media = m /\ w.player = player /\ w.reports = reports
      /\ x \in Worlds /\ x.media = n /\ x.player = player /\ x.reports = reports
  BY <1>1, <1>3, <1>6 DEF Worlds, Stage
<1> HIDE DEF w, x
<1>8. /\ player.state = "idle" => StageOK(w)
      /\ Mistaken => StageOK(w)
  BY <1>3, <1>7, NewUrl, StageFields
<1>9. /\ Ordered(x) /\ (player.state = "idle" => StageOK(x))
  BY <1>6, <1>7, NewUrl, StageFields
<1>10. CASE media.url = url /\ media.state \notin {"", "error"}
  BY <1>10 DEF SetVideoUrl
<1>11. ASSUME ~(media.url = url /\ media.state \notin {"", "error"}), ThinksIdle(w)
       PROVE  \A y \in SetVideoUrl(url) : StageOK(y)
  <2>1. ThinksIdle(Stage)
    BY <1>3, <1>7, <1>11, StageFields DEF ThinksIdle
  <2>2. StageOK(w)
    BY <1>8, <2>1 DEF Mistaken
  <2>3. StageOK(HandleVideoPrepare(w, url))
    BY <1>3, <1>7, <2>2, PrepareGood DEF HandleVideoPrepare
  <2> QED
    BY <1>4, <1>11, <2>3 DEF SetVideoUrl
<1>12. ASSUME ~(media.url = url /\ media.state \notin {"", "error"}), ~ThinksIdle(w)
       PROVE  \A y \in SetVideoUrl(url) : StageOK(y)
  <2>1. \A y \in Resets(x) : StageOK(y)
    BY <1>6, <1>7, <1>9, ResetsGood
  <2> QED
    BY <1>4, <1>5, <1>12, <2>1 DEF SetVideoUrl
<1> QED
  BY <1>10, <1>11, <1>12

LEMMA AudioUrlGood ==
    ASSUME StageOK(Stage), media.kind = "audio", NEW url \in Sources
    PROVE  \A x \in SetAudioUrl(url) : StageOK(x)
<1> DEFINE late == media.state \notin Busy /\ player.state # "idle"
           m == [media EXCEPT !.url = url, !.playing = FALSE, !.pendingPlay = FALSE, !.late = late]
           w == [Stage EXCEPT !.media = m]
           Prepared(x) == IF Takes(x, url)
                          THEN HandleAudioPrepare([x EXCEPT !.media.state = "preparing"], url)
                          ELSE [x EXCEPT !.media.state = "error"]
           outcomes == IF media.state \in Busy THEN Resets(w) ELSE {w}
<1>1. Stage \in Worlds /\ media \in Medias /\ media.alive
  BY DEF StageOK, Stage, Worlds
<1>2. /\ m \in Medias /\ m.alive /\ m.kind = "audio" /\ m.url = url /\ m.state = media.state
      /\ m.playing = FALSE /\ m.late = late
  BY <1>1 DEF Medias
<1>3. w = [Stage EXCEPT !.media.url = url, !.media.playing = FALSE, !.media.pendingPlay = FALSE, !.media.late = late]
  BY DEF Stage
<1> HIDE DEF m
<1>4. /\ w \in Worlds /\ w.media = m /\ w.player = player /\ w.reports = reports
  BY <1>1, <1>2 DEF Worlds, Stage
<1> HIDE DEF w
<1>5. /\ Ordered(w) /\ (player.state = "idle" => StageOK(w))
      /\ late => StageOK(w)
  BY <1>2, <1>4, NewUrl, StageFields
<1>6. \A x \in outcomes : StageOK(x)
  <2>1. CASE media.state \in Busy
    BY <1>2, <1>4, <1>5, <2>1, ResetsGood
  <2>2. CASE media.state \notin Busy
    BY <1>5, <2>2
  <2> QED
    BY <2>1, <2>2
<1>7. \A x \in outcomes : x.media.url = url
  <2>1. w.media.url = url
    BY <1>2, <1>4
  <2>2. \A x \in Resets(w) : x.media = w.media
    <3>1. w = [media |-> w.media, player |-> w.player, reports |-> w.reports]
      BY <1>4 DEF Worlds
    <3>2. "idle" \in PlayerStates \ {"resetting", "released"}
      BY DEF PlayerStates
    <3>3. [w EXCEPT !.player.source = NoSource] \in Worlds /\ [w EXCEPT !.player.source = NoSource].media = w.media
      BY <1>4 DEF Worlds, Players
    <3>4. Idle(w).media = w.media
      BY <3>2, <3>3, EntersWorld DEF Idle
    <3>5. [w EXCEPT !.player.state = "resetting"].media = w.media
      BY <1>4 DEF Worlds
    <3> QED
      BY <3>4, <3>5 DEF Resets
  <2> QED
    BY <2>1, <2>2
<1> HIDE DEF outcomes
<1>8. ASSUME NEW x \in outcomes PROVE StageOK(Prepared(x))
  <2> DEFINE p == [x.media EXCEPT !.state = "preparing"]
             e == [x.media EXCEPT !.state = "error"]
  <2>1. StageOK(x) /\ x \in Worlds /\ x.media \in Medias /\ x.media.alive /\ x.media.url = url
    BY <1>6, <1>7, <1>8 DEF StageOK, Worlds
  <2>2. /\ p \in Medias /\ p.alive /\ p.kind = x.media.kind /\ p.url = url
        /\ p.late = x.media.late /\ p.playing = x.media.playing
    BY <2>1 DEF Medias, PlayerStates
  <2>3. /\ e \in Medias /\ e.alive /\ e.kind = x.media.kind /\ e.url = url
        /\ e.late = x.media.late /\ e.playing = x.media.playing /\ e.state \in Busy
    BY <2>1 DEF Medias, PlayerStates, Busy
  <2>4. [x EXCEPT !.media = p].media = p
    BY <2>1 DEF Worlds
  <2>5. Prepared(x) = IF Takes(x, url) THEN HandleAudioPrepare([x EXCEPT !.media = p], url)
                      ELSE [x EXCEPT !.media = e]
    OBVIOUS
  <2> HIDE DEF p, e, Prepared
  <2>6. ASSUME Takes(x, url) PROVE StageOK(HandleAudioPrepare([x EXCEPT !.media = p], url))
    <3>1. StageOK([x EXCEPT !.media = p])
      BY <2>1, <2>2, <2>6, ChangeGood DEF Takes, Busy
    <3> QED
      BY <2>2, <2>4, <3>1, PrepareGood DEF HandleAudioPrepare
  <2>7. StageOK([x EXCEPT !.media = e])
    BY <2>1, <2>3, ChangeGood
  <2> QED
    BY <2>5, <2>6, <2>7
<1>9. SetAudioUrl(url) = IF media.url = url THEN {Stage} ELSE {Prepared(x) : x \in outcomes}
  BY <1>3 DEF SetAudioUrl, Busy, outcomes
<1> HIDE DEF Prepared
<1> QED
  BY <1>8, <1>9
-----------------------------------------------------------------------------
LEMMA PlaysWorld ==
    ASSUME NEW w \in Worlds, Plays(w)
    PROVE  Stage' = w
  BY DEF Plays, Stage, Worlds

\* A step of the component or the player that leaves a good world.
LEMMA PlaysGood ==
    ASSUME NEW w, StageOK(w), Plays(w), WindowOK'
    PROVE  MediaInv'
<1>1. w \in Worlds
  BY DEF StageOK
<1>2. Stage' = w
  BY <1>1, PlaysWorld
<1>3. Stage' \in Worlds /\ StageOK(Stage')
  BY <1>1, <1>2
<1> QED
  BY <1>3 DEF MediaInv, StageOK

LEMMA StageGood ==
    ASSUME MediaInv, media.alive
    PROVE  StageOK(Stage)
  BY DEF MediaInv

\* What each of the player's own steps does to a component that is not released.
LEMMA PlayerStepInv ==
    ASSUME MediaInv, NEW from, NEW state \in {"prepared", "playing", "paused", "completed", "error"},
           PlayerStep(from, Enters(Stage, state)), state = "prepared" => from = {"preparing"},
           {"resetting", "released"} \cap from = {}
    PROVE  MediaInv'
<1>1. /\ player.state \in from /\ Plays(Enters(Stage, state)) /\ WindowOK' /\ player.state # "resetting"
      /\ state = "prepared" => player.state = "preparing"
  BY DEF PlayerStep, MediaInv, WindowOK
<1>2. CASE media.alive
  <2>1. StageOK(Enters(Stage, state))
    BY <1>1, <1>2, StageGood, EntersGood, StageFields
  <2> QED
    BY <1>1, <2>1, PlaysGood
<1>3. CASE ~media.alive
  <2>1. Stage \in Worlds /\ state \in PlayerStates \ {"resetting", "released"}
    BY DEF MediaInv, PlayerStates
  <2>2. Enters(Stage, state) \in Worlds /\ Enters(Stage, state).media = media
    BY <2>1, EntersWorld, StageFields
  <2>3. Stage' \in Worlds /\ Stage' = Enters(Stage, state)
    BY <1>1, <2>2, PlaysWorld
  <2>4. media' = media
    BY <1>1, <2>2 DEF Plays
  <2> QED
    BY <1>1, <1>3, <2>3, <2>4 DEF MediaInv
<1> QED
  BY <1>2, <1>3

\* A player that was just made is idle.
LEMMA MediaAtFirst == MediaInit => MediaInv
<1> SUFFICES ASSUME MediaInit PROVE MediaInv
  OBVIOUS
<1>1. /\ media \in Medias /\ media.url = NoSource /\ media.playing = FALSE /\ media.alive
      /\ player = [state |-> "idle", source |-> NoSource] /\ reports = <<>>
  BY DEF MediaInit, Medias
<1>2. Stage \in Worlds
  BY <1>1 DEF Stage, Worlds, Players, PlayerStates
<1>3. Sourced(Stage) /\ Ordered(Stage) /\ LastTells(Stage) /\ Heard(Stage)
  <2>1. player.state = "idle" /\ player.source = NoSource /\ "idle" \notin Busy /\ DOMAIN reports = {}
    BY <1>1 DEF Busy
  <2> QED
    BY <1>1, <2>1, StageFields DEF Sourced, Ordered, LastTells, Heard
<1>4. WindowOK
  <2>1. window = [current |-> 0, made |-> 0, sources |-> 0, clicks |-> 0]
    BY DEF MediaInit, NoWindow
  <2>2. window \in [current : Nat, made : Nat, sources : Nat, clicks : Nat]
    BY <2>1
  <2>3. window.current = 0 /\ window.made = 0
    BY <2>1
  <2>4. 0 \in 0..0
    OBVIOUS
  <2> QED
    BY <2>2, <2>3, <2>4 DEF WindowOK
<1> QED
  BY <1>1, <1>2, <1>3, <1>4, StageFields DEF MediaInv, StageOK

\* No step of the component, its window or its player makes the invariant false.
LEMMA MediaStays == MediaInv /\ [MediaNext]_mediaVars => MediaInv'
<1> SUFFICES ASSUME MediaInv, [MediaNext]_mediaVars PROVE MediaInv'
  OBVIOUS
<1>1. ASSUME NEW url \in Sources, SetUrl(url) PROVE MediaInv'
  <2>1. media.alive /\ WindowOK'
    BY <1>1 DEF SetUrl, MediaInv, WindowOK
  <2>2. PICK w \in IF media.kind = "video" THEN SetVideoUrl(url) ELSE SetAudioUrl(url) : Plays(w)
    BY <1>1 DEF SetUrl
  <2>3. media.kind = "video" \/ media.kind = "audio"
    BY MediaAssumption DEF MediaInv, Stage, Worlds, Medias
  <2>4. StageOK(w)
    BY <2>1, <2>2, <2>3, StageGood, VideoUrlGood, AudioUrlGood
  <2> QED
    BY <2>1, <2>2, <2>4, PlaysGood
<1>2. CASE Click
  <2> DEFINE w == IF media.kind = "video" THEN ClickVideo(Stage) ELSE ClickAudio(Stage)
  <2>1. media.alive /\ WindowOK' /\ Plays(w)
    BY <1>2 DEF Click, MediaInv, WindowOK
  <2>2. StageOK(w)
    BY <2>1, StageGood, PlayGood, PauseGood, ClickAudioGood DEF ClickVideo
  <2> QED
    BY <2>1, <2>2, PlaysGood
<1>3. CASE RunReport
  <2> DEFINE state == Head(reports)
             w == Told([Stage EXCEPT !.reports = Tail(@)], state)
             x == IF media.kind = "video" THEN VideoStateChange(w, state) ELSE AudioStateChange(w, state)
  <2>1. WindowOK' /\ reports # <<>>
    BY <1>3 DEF RunReport, MediaInv, WindowOK
  <2>2. CASE media.alive
    <3>1. Plays(x)
      BY <1>3, <2>2 DEF RunReport
    <3>2. StageOK(w)
      BY <2>1, <2>2, StageGood, StageFields, ToldGood
    <3> HIDE DEF w
    <3>3. StageOK(x)
      BY <3>2, VideoStateGood, AudioStateGood
    <3> QED
      BY <2>1, <3>1, <3>3, PlaysGood
  <2>3. CASE ~media.alive
    <3>1. reports' = Tail(reports) /\ UNCHANGED <<media, player>>
      BY <1>3, <2>3 DEF RunReport
    <3>2. Tail(reports) \in Seq(ReportNames) /\ media \in Medias /\ player \in Players
      BY <2>1, HeadReport DEF MediaInv, Stage, Worlds
    <3>3. Stage' \in Worlds
      BY <3>1, <3>2 DEF Stage, Worlds
    <3> QED
      BY <2>1, <2>3, <3>1, <3>3 DEF MediaInv
  <2> QED
    BY <2>2, <2>3
<1>4. CASE DestroyMedia
  <2>1. ~media'.alive /\ Stage' \in Worlds
    <3>1. media \in Medias /\ reports \in Seq(ReportNames)
      BY DEF MediaInv, Stage, Worlds
    <3>2. media' = [media EXCEPT !.alive = FALSE, !.playing = FALSE, !.pendingPlay = FALSE, !.state = "destroyed"]
      BY <1>4 DEF DestroyMedia
    <3>3. media' \in Medias /\ ~media'.alive
      BY <3>1, <3>2 DEF Medias
    <3>4. player' \in Players
      BY <1>4 DEF DestroyMedia, Players, PlayerStates
    <3>5. reports' = reports
      BY <1>4 DEF DestroyMedia
    <3> QED
      BY <3>1, <3>3, <3>4, <3>5 DEF Stage, Worlds
  <2>2. WindowOK'
    BY <1>4 DEF DestroyMedia, MediaInv, WindowOK, NoWindow
  <2> QED
    BY <2>1, <2>2 DEF MediaInv
<1>5. CASE SurfaceCreated
  <2> DEFINE w == IF media.url = NoSource THEN Stage ELSE Prepare(Stage, media.url)
  <2>1. media.alive /\ Plays(w)
    BY <1>5 DEF SurfaceCreated
  <2>2. WindowOK'
    <3>1. window' = [window EXCEPT !.current = window.made + 1, !.made = @ + 1]
      BY <1>5 DEF SurfaceCreated
    <3>2. window \in [current : Nat, made : Nat, sources : Nat, clicks : Nat]
      BY DEF MediaInv, WindowOK
    <3>3. /\ window' \in [current : Nat, made : Nat, sources : Nat, clicks : Nat]
          /\ window'.current = window.made + 1 /\ window'.made = window.made + 1 /\ window.made \in Nat
      <4> DEFINE y == [current |-> window.made + 1, made |-> window.made,
                       sources |-> window.sources, clicks |-> window.clicks]
      <4>1. [window EXCEPT !.current = window.made + 1] = y
        BY <3>2
      <4>2. window' = [y EXCEPT !.made = @ + 1]
        BY <3>1, <4>1
      <4>3. window' = [current |-> window.made + 1, made |-> window.made + 1,
                       sources |-> window.sources, clicks |-> window.clicks]
        BY <3>2, <4>2
      <4> QED
        BY <3>2, <4>3
    <3>4. \A n \in Nat : n + 1 \in 0..(n + 1)
      OBVIOUS
    <3> QED
      BY <3>3, <3>4 DEF WindowOK
  <2>3. media.url \in Sources \cup {NoSource}
    BY DEF MediaInv, Stage, Worlds, Medias
  <2>4. StageOK(w)
    BY <2>1, <2>3, StageGood, StageFields, PrepareGood
  <2> QED
    BY <2>1, <2>2, <2>4, PlaysGood
<1>6. CASE SurfaceDestroyed
  <2>1. UNCHANGED <<media, player, reports>>
    BY <1>6 DEF SurfaceDestroyed
  <2>2. Stage' = Stage /\ WindowOK'
    BY <1>6, <2>1 DEF SurfaceDestroyed, Stage, MediaInv, WindowOK, NoWindow
  <2> QED
    BY <2>1, <2>2 DEF MediaInv
<1>7. CASE PlayerResets
  <2>1. WindowOK' /\ Plays(Idle(Stage))
    BY <1>7 DEF PlayerResets, PlayerStep, MediaInv, WindowOK
  <2>2. CASE media.alive
    <3>1. StageOK(Idle(Stage))
      BY <2>2, StageGood, StillGood, StageFields DEF StageOK
    <3> QED
      BY <2>1, <3>1, PlaysGood
  <2>3. CASE ~media.alive
    <3> DEFINE y == [Stage EXCEPT !.player.source = NoSource]
    <3>1. y \in Worlds /\ y.media = media /\ "idle" \in PlayerStates \ {"resetting", "released"}
      BY DEF MediaInv, Stage, Worlds, Players, PlayerStates
    <3> HIDE DEF y
    <3>2. Enters(y, "idle") \in Worlds /\ Enters(y, "idle").media = media
      BY <3>1, EntersWorld
    <3>3. Plays(Enters(y, "idle"))
      BY <2>1 DEF Idle, y
    <3>4. Stage' \in Worlds /\ media' = media
      BY <3>2, <3>3, PlaysWorld DEF Plays
    <3> QED
      BY <2>1, <2>3, <3>4 DEF MediaInv
  <2> QED
    BY <2>2, <2>3
<1>8. CASE PlayerPrepares
  BY <1>8, PlayerStepInv DEF PlayerPrepares
<1>9. CASE PlayerCompletes
  BY <1>9, PlayerStepInv DEF PlayerCompletes
<1>10. CASE PlayerFails
  BY <1>10, PlayerStepInv DEF PlayerFails
<1>11. CASE UNCHANGED mediaVars
  <2>1. Stage' = Stage /\ UNCHANGED <<media, window>>
    BY <1>11 DEF mediaVars, Stage
  <2> QED
    BY <2>1 DEF MediaInv, WindowOK
<1> QED
  BY <1>1, <1>2, <1>3, <1>4, <1>5, <1>6, <1>7, <1>8, <1>9, <1>10, <1>11 DEF MediaNext

\* The invariant of a player and its reports: what the looper still holds tells
\* where the player is.
THEOREM MediaInvariant == MediaSpec => []MediaInv
  BY MediaAtFirst, MediaStays, PTL DEF MediaSpec

\* What the invariant says of the url.
LEMMA PlaysIs == MediaInv => PlaysItsUrl
<1> SUFFICES ASSUME MediaInv PROVE PlaysItsUrl
  OBVIOUS
<1>1. Stage \in Worlds /\ media \in Medias /\ player \in Players /\ reports \in Seq(ReportNames)
  BY DEF MediaInv, Stage, Worlds
<1>2. reports \in Seq(PlayerStates \cup {"initialized"})
  BY <1>1 DEF ReportNames
<1>3. MediaTypeOK
  BY <1>1, <1>2 DEF MediaTypeOK, MediaInv, WindowOK, Medias, Players
<1> QED
  BY <1>3, StageFields DEF PlaysItsUrl, MediaInv, StageOK, Sourced, Heard

\* The player never has another source than the component's url, except while
\* it is being reset and when that url came too late to reset it; and once the
\* looper is empty the button shows "pause" exactly while the player plays.
THEOREM PlayerPlaysItsUrl == MediaSpec => []PlaysItsUrl
  BY PlaysIs, MediaInvariant, PTL
-----------------------------------------------------------------------------
(* The inputs. *)

Keys == {"value", "pattern", "checks"}

Tells(queue, key) == \E n \in DOMAIN queue : key \in DOMAIN queue[n]

LatestTells(queue, snapshot) ==
    \A key \in Keys : \A n \in DOMAIN queue :
        (key \in DOMAIN queue[n] /\ \A k \in DOMAIN queue : k > n => key \notin DOMAIN queue[k])
            => queue[n][key] = snapshot[key]

Anything == (SUBSET Items) \cup Patterns \cup BOOLEAN
Notices == UNION {[keys -> Anything] : keys \in SUBSET Keys}
Snapshots == [Keys -> Anything]

\* A report is put behind the others: it tells what is new, and what it leaves
\* out has not changed.
LEMMA ReportTells ==
    ASSUME NEW queue \in Seq(Notices), NEW old \in Snapshots, NEW new \in Snapshots, LatestTells(queue, old)
    PROVE  /\ Reported(queue, old, new) \in Seq(Notices)
           /\ LatestTells(Reported(queue, old, new), new)
           /\ \A key \in Keys : ~Tells(Reported(queue, old, new), key)
                                    => ~Tells(queue, key) /\ new[key] = old[key]
<1> DEFINE diff == Diff(old, new)
           longer == Append(queue, diff)
<1>1. DOMAIN new = Keys /\ DOMAIN old = Keys
  BY DEF Snapshots
<1>2. CASE ChangedKeys(old, new) = {}
  <2>1. \A key \in Keys : new[key] = old[key]
    BY <1>1, <1>2 DEF ChangedKeys
  <2>2. Reported(queue, old, new) = queue
    BY <1>2 DEF Reported
  <2> QED
    BY <2>1, <2>2 DEF LatestTells
<1>3. CASE ChangedKeys(old, new) # {}
  <2>1. Reported(queue, old, new) = longer
    BY <1>3 DEF Reported
  <2>2. /\ DOMAIN diff = ChangedKeys(old, new)
        /\ \A key \in ChangedKeys(old, new) : diff[key] = new[key]
        /\ ChangedKeys(old, new) \subseteq Keys
        /\ \A key \in Keys \ ChangedKeys(old, new) : new[key] = old[key]
    BY <1>1 DEF Diff, ChangedKeys
  <2>3. diff \in Notices
    <3>1. diff \in [ChangedKeys(old, new) -> Anything]
      BY <1>1, <2>2 DEF Diff, Snapshots
    <3> QED
      BY <2>2, <3>1 DEF Notices
  <2>4. /\ longer \in Seq(Notices) /\ DOMAIN longer = 1..Len(queue) + 1 /\ DOMAIN queue = 1..Len(queue)
        /\ Len(queue) \in Nat /\ longer[Len(queue) + 1] = diff
        /\ \A n \in DOMAIN queue : longer[n] = queue[n]
    BY <2>3
  <2> HIDE DEF diff, longer
  <2>5. LatestTells(longer, new)
    <3> SUFFICES ASSUME NEW key \in Keys, NEW n \in DOMAIN longer, key \in DOMAIN longer[n],
                        \A k \in DOMAIN longer : k > n => key \notin DOMAIN longer[k]
                 PROVE  longer[n][key] = new[key]
      BY DEF LatestTells
    <3>1. CASE n = Len(queue) + 1
      BY <2>2, <2>4, <3>1
    <3>2. CASE n # Len(queue) + 1
      <4>1. n \in DOMAIN queue /\ key \notin DOMAIN diff
        BY <2>4, <3>2
      <4>2. \A k \in DOMAIN queue : k > n => key \notin DOMAIN queue[k]
        BY <2>4
      <4>3. queue[n][key] = old[key]
        BY <2>4, <4>1, <4>2 DEF LatestTells
      <4> QED
        BY <2>2, <2>4, <4>1, <4>3
    <3> QED
      BY <3>1, <3>2
  <2>6. ASSUME NEW key \in Keys, ~Tells(longer, key)
        PROVE  ~Tells(queue, key) /\ new[key] = old[key]
    BY <2>2, <2>4, <2>6 DEF Tells
  <2> QED
    BY <2>1, <2>4, <2>5, <2>6
<1> QED
  BY <1>2, <1>3

\* The first report is taken: a field that no later one has is told by it as the
\* snapshot has it.
LEMMA NoticeTells ==
    ASSUME NEW queue \in Seq(Notices), queue # <<>>, NEW snapshot \in Snapshots, LatestTells(queue, snapshot)
    PROVE  /\ Tail(queue) \in Seq(Notices) /\ Head(queue) \in Notices
           /\ LatestTells(Tail(queue), snapshot)
           /\ \A key \in Keys : ~Tells(Tail(queue), key) =>
                 IF key \in DOMAIN Head(queue) THEN Head(queue)[key] = snapshot[key] ELSE ~Tells(queue, key)
<1> DEFINE rest == Tail(queue)
<1>1. /\ rest \in Seq(Notices) /\ Head(queue) = queue[1] /\ queue[1] \in Notices /\ 1 \in DOMAIN queue
      /\ DOMAIN queue = 1..Len(queue) /\ DOMAIN rest = 1..Len(queue) - 1 /\ Len(queue) \in Nat \ {0}
      /\ \A n \in DOMAIN rest : rest[n] = queue[n + 1]
  OBVIOUS
<1> HIDE DEF rest
<1>2. LatestTells(rest, snapshot)
  <2> SUFFICES ASSUME NEW key \in Keys, NEW n \in DOMAIN rest, key \in DOMAIN rest[n],
                      \A k \in DOMAIN rest : k > n => key \notin DOMAIN rest[k]
               PROVE  rest[n][key] = snapshot[key]
    BY DEF LatestTells
  <2>1. n + 1 \in DOMAIN queue /\ key \in DOMAIN queue[n + 1] /\ n \in Nat
    BY <1>1
  <2>2. ASSUME NEW k \in DOMAIN queue, k > n + 1 PROVE key \notin DOMAIN queue[k]
    <3>1. k - 1 \in DOMAIN rest /\ k - 1 > n /\ (k - 1) + 1 = k
      BY <1>1, <2>1, <2>2
    <3> QED
      BY <1>1, <3>1
  <2> QED
    BY <1>1, <2>1, <2>2 DEF LatestTells
<1>3. ASSUME NEW key \in Keys, ~Tells(rest, key)
      PROVE  IF key \in DOMAIN queue[1] THEN queue[1][key] = snapshot[key] ELSE ~Tells(queue, key)
  <2>1. ASSUME NEW k \in DOMAIN queue, k > 1 PROVE key \notin DOMAIN queue[k]
    <3>1. k - 1 \in DOMAIN rest /\ (k - 1) + 1 = k
      BY <1>1, <2>1
    <3> QED
      BY <1>1, <1>3, <3>1 DEF Tells
  <2>2. CASE key \in DOMAIN queue[1]
    BY <1>1, <2>1, <2>2 DEF LatestTells
  <2>3. CASE key \notin DOMAIN queue[1]
    <3>1. \A k \in DOMAIN queue : k = 1 \/ k > 1
      BY <1>1
    <3> QED
      BY <2>1, <2>3, <3>1 DEF Tells
  <2> QED
    BY <2>2, <2>3
<1> QED
  BY <1>1, <1>2, <1>3 DEF rest
-----------------------------------------------------------------------------
Fields == [kind : InputKinds, value : SUBSET Items, pattern : Patterns, checks : BOOLEAN,
           edited : BOOLEAN, failed : BOOLEAN, rejected : BOOLEAN]

InputTypes ==
    /\ field \in Fields /\ field.value \in Values(field.kind)
    /\ core \in [required : BOOLEAN, value : SUBSET Items, pattern : Patterns, snapshot : Snapshots]
    /\ core.value \in Values(field.kind)
    /\ tasks \in Seq([op : {"sync", "data", "pattern"}, to : (SUBSET Items) \cup Patterns])
    /\ \A n \in DOMAIN tasks : tasks[n].to \in IF tasks[n].op = "pattern" THEN Patterns ELSE Values(field.kind)
    /\ notices \in Seq(Notices)
    /\ \A n \in DOMAIN notices :
          /\ "value" \in DOMAIN notices[n] => notices[n]["value"] \in Values(field.kind)
          /\ "pattern" \in DOMAIN notices[n] => notices[n]["pattern"] \in Patterns
          /\ "checks" \in DOMAIN notices[n] => notices[n]["checks"] \in BOOLEAN

Sent(value) == \E n \in DOMAIN tasks : tasks[n].op = "sync" /\ tasks[n].to = value

InputInv ==
    /\ InputTypes
    /\ core.snapshot = Shows(core.value, core.pattern, core.required)
    /\ LatestTells(notices, core.snapshot)
    /\ ~Tells(notices, "pattern") => field.pattern = core.pattern
    /\ ~Tells(notices, "checks") => field.checks = (~core.required \/ core.value # {})
    /\ ~Tells(notices, "value") => field.value = core.value \/ field.rejected \/ Sent(field.value)

\* The snapshot is a function on the keys, and says what it was made from.
LEMMA ShowsSnapshot ==
    ASSUME NEW value \in SUBSET Items, NEW pattern \in Patterns, NEW required \in BOOLEAN
    PROVE  /\ Shows(value, pattern, required) \in Snapshots
           /\ Shows(value, pattern, required).value = value
           /\ Shows(value, pattern, required).pattern = pattern
           /\ Shows(value, pattern, required).checks = (~required \/ value # {})
<1> DEFINE checks == ~required \/ value # {}
           shows == [value |-> value, pattern |-> pattern, checks |-> checks]
<1>1. checks \in BOOLEAN
  OBVIOUS
<1> HIDE DEF checks
<1>2. DOMAIN shows = Keys
  BY DEF Keys
<1>3. /\ shows["value"] \in Anything /\ shows["pattern"] \in Anything /\ shows["checks"] \in Anything
  BY <1>1 DEF Anything
<1>4. shows = [key \in Keys |-> shows[key]]
  BY <1>2
<1>5. \A key \in Keys : shows[key] \in Anything
  BY <1>3 DEF Keys
<1>6. shows \in Snapshots
  BY <1>4, <1>5 DEF Snapshots
<1> QED
  BY <1>6 DEF Shows, checks

LEMMA InvGivesAgreement == InputInv => InputsAgree
<1> SUFFICES ASSUME InputInv PROVE InputsAgree
  OBVIOUS
<1>1. InputTypeOK
  <2>1. \A n \in DOMAIN notices : notices[n] \in Notices
    BY DEF InputInv, InputTypes
  <2>2. \A n \in DOMAIN notices : DOMAIN notices[n] \subseteq Keys
    BY <2>1 DEF Notices
  <2> QED
    BY <2>2 DEF InputInv, InputTypes, InputTypeOK, Fields, Keys
<1>2. ASSUME tasks = <<>>, notices = <<>>
      PROVE  /\ field.value = core.value \/ field.rejected
             /\ field.checks = (~core.required \/ core.value # {})
             /\ field.pattern = core.pattern
  <2>1. \A key \in Keys : ~Tells(notices, key)
    BY <1>2 DEF Tells
  <2>2. ~Sent(field.value)
    BY <1>2 DEF Sent
  <2> QED
    BY <2>1, <2>2 DEF InputInv, Keys
<1> QED
  BY <1>1, <1>2 DEF InputsAgree

LEMMA InputInitInv == InputInit => InputInv
<1> SUFFICES ASSUME NEW kind \in InputKinds, NEW required \in BOOLEAN, NEW value \in Values(kind),
                    field = [kind |-> kind, value |-> value, pattern |-> NoPattern,
                             checks |-> Shows(value, NoPattern, required).checks,
                             edited |-> FALSE, failed |-> FALSE, rejected |-> FALSE],
                    core = [required |-> required, value |-> value, pattern |-> NoPattern,
                            snapshot |-> Shows(value, NoPattern, required)],
                    tasks = <<>>, notices = <<>>
             PROVE  InputInv
  BY DEF InputInit
<1>1. value \in SUBSET Items /\ NoPattern \in Patterns
  BY InputAssumption DEF Values
<1> DEFINE first == Shows(value, NoPattern, required)
<1>4. first \in Snapshots /\ first.checks = (~required \/ value # {}) /\ first.checks \in BOOLEAN
  BY <1>1, ShowsSnapshot
<1> HIDE DEF first
<1>2. InputTypes
  <2>1. field \in Fields
    BY <1>1, <1>4 DEF first, Fields
  <2>2. core \in [required : BOOLEAN, value : SUBSET Items, pattern : Patterns, snapshot : Snapshots]
    BY <1>1, <1>4 DEF first
  <2> QED
    BY <2>1, <2>2 DEF InputTypes
<1>3. LatestTells(notices, core.snapshot)
  BY DEF LatestTells
<1> QED
  BY <1>1, <1>2, <1>3, ShowsSnapshot DEF InputInv
-----------------------------------------------------------------------------
\* A component has one kind.
LEMMA ValuesAreSets == \A kind \in InputKinds : Values(kind) \subseteq SUBSET Items
  BY DEF Values

\* An edit that is sent: the task is behind the others.
LEMMA EditSent ==
    ASSUME InputInv, UNCHANGED <<core, notices>>, NEW value \in Values(field.kind),
           field' \in Fields, field'.kind = field.kind, field'.value = value,
           field'.pattern = field.pattern, field'.checks = field.checks, SyncState(value)
    PROVE  InputInv'
<1> DEFINE task == [op |-> "sync", to |-> value]
           Tasks == [op : {"sync", "data", "pattern"}, to : (SUBSET Items) \cup Patterns]
<1>1. tasks \in Seq(Tasks) /\ field.kind \in InputKinds
  BY DEF InputInv, InputTypes, Fields
<1>2. task \in Tasks /\ tasks' = Append(tasks, task)
  BY <1>1, ValuesAreSets DEF SyncState
<1>3. /\ tasks' \in Seq(Tasks) /\ DOMAIN tasks' = 1..Len(tasks) + 1 /\ DOMAIN tasks = 1..Len(tasks)
      /\ tasks'[Len(tasks) + 1] = task /\ \A n \in DOMAIN tasks : tasks'[n] = tasks[n]
      /\ Len(tasks) \in Nat
  BY <1>1, <1>2
<1>4. Sent(value)'
  <2>1. Len(tasks) + 1 \in DOMAIN tasks'
    BY <1>3
  <2> QED
    BY <1>3, <2>1 DEF Sent
<1>5. \A n \in DOMAIN tasks' : tasks'[n].to \in IF tasks'[n].op = "pattern" THEN Patterns ELSE Values(field.kind)
  <2> SUFFICES ASSUME NEW n \in DOMAIN tasks'
               PROVE  tasks'[n].to \in IF tasks'[n].op = "pattern" THEN Patterns ELSE Values(field.kind)
    OBVIOUS
  <2>1. n \in DOMAIN tasks \/ n = Len(tasks) + 1
    BY <1>3
  <2> QED
    BY <1>3, <2>1 DEF InputInv, InputTypes
<1>6. InputTypes'
  BY <1>3, <1>5 DEF InputInv, InputTypes
<1> QED
  BY <1>4, <1>6 DEF InputInv, Tells, Sent

LEMMA TextKeepsInv ==
    ASSUME InputInv, NEW text \in Values("text"), HandleTextChanged(text) PROVE InputInv'
<1> DEFINE edited == [field EXCEPT !.value = text, !.edited = TRUE]
           f == Validated(edited)
<1>1. field \in Fields /\ field.kind = "text" /\ text \in SUBSET Items /\ "text" \in InputKinds
  BY DEF HandleTextChanged, InputInv, InputTypes, Fields, Values
<1>2. edited \in Fields /\ edited.kind = "text" /\ edited.value = text
      /\ edited.pattern = field.pattern /\ edited.checks = field.checks
  BY <1>1 DEF Fields
<1>3. (edited.edited /\ edited.value \notin Matches[edited.pattern]) \in BOOLEAN
  OBVIOUS
<1> HIDE DEF edited
<1>4. f \in Fields /\ f.kind = "text" /\ f.value = text /\ f.pattern = field.pattern /\ f.checks = field.checks
  BY <1>2, <1>3 DEF Fields, Validated
<1>5. f.failed \in BOOLEAN
  BY <1>4 DEF Fields
<1>6. /\ field' = [f EXCEPT !.rejected = f.failed]
      /\ UNCHANGED <<core, notices>>
      /\ IF f.failed THEN UNCHANGED tasks ELSE SyncState(text)
  BY DEF HandleTextChanged, Edits, edited
<1> HIDE DEF f
<1>7. /\ field' \in Fields /\ field'.kind = field.kind /\ field'.value = text
      /\ field'.pattern = field.pattern /\ field'.checks = field.checks /\ field'.rejected = f.failed
  BY <1>1, <1>4, <1>5, <1>6 DEF Fields
<1>8. CASE f.failed
  <2>1. UNCHANGED <<core, notices, tasks>> /\ field'.rejected
    BY <1>6, <1>7, <1>8
  <2>2. InputTypes'
    BY <1>1, <1>7, <2>1 DEF InputInv, InputTypes
  <2> QED
    BY <1>7, <2>1, <2>2 DEF InputInv
<1>9. CASE ~f.failed
  <2>1. SyncState(text)
    BY <1>6, <1>9
  <2> QED
    BY <1>1, <1>6, <1>7, <2>1, EditSent
<1> QED
  BY <1>8, <1>9

LEMMA ClickKeepsInv ==
    ASSUME InputInv, NEW option \in Items, HandleOptionClick(option) PROVE InputInv'
<1>1. /\ field \in Fields /\ field.kind \in {"single", "multiple"} /\ field.kind \in InputKinds
      /\ field.value \in Values(field.kind)
      /\ field' = [field EXCEPT !.value = Picked(option)] /\ UNCHANGED <<core, notices>>
      /\ SyncState(Picked(option))
  BY DEF HandleOptionClick, Edits, InputInv, InputTypes, Fields
<1>2. Picked(option) \in Values(field.kind)
  BY <1>1 DEF Picked, Values
<1>3. Picked(option) \in SUBSET Items
  BY <1>1, <1>2, ValuesAreSets
<1>4. /\ field' \in Fields /\ field'.kind = field.kind /\ field'.value = Picked(option)
      /\ field'.pattern = field.pattern /\ field'.checks = field.checks
  BY <1>1, <1>3 DEF Fields
<1> QED
  BY <1>1, <1>2, <1>4, EditSent

\* A message of the agent takes its place in the queue.
LEMMA AgentKeepsInv ==
    ASSUME InputInv, NEW op \in {"data", "pattern"}, NEW to, AgentSends(op, to),
           to \in IF op = "pattern" THEN Patterns ELSE Values(field.kind)
    PROVE  InputInv'
<1> DEFINE task == [op |-> op, to |-> to]
           Tasks == [op : {"sync", "data", "pattern"}, to : (SUBSET Items) \cup Patterns]
<1>1. tasks \in Seq(Tasks) /\ field.kind \in InputKinds
  BY DEF InputInv, InputTypes, Fields
<1>2. task \in Tasks /\ tasks' = Append(tasks, task) /\ UNCHANGED <<field, core, notices>>
  BY <1>1, ValuesAreSets DEF AgentSends
<1>3. /\ tasks' \in Seq(Tasks) /\ DOMAIN tasks' = 1..Len(tasks) + 1 /\ DOMAIN tasks = 1..Len(tasks)
      /\ tasks'[Len(tasks) + 1] = task /\ \A n \in DOMAIN tasks : tasks'[n] = tasks[n]
      /\ Len(tasks) \in Nat
  BY <1>1, <1>2
<1>4. Sent(field.value) => Sent(field.value)'
  BY <1>2, <1>3 DEF Sent
<1>5. \A n \in DOMAIN tasks' : tasks'[n].to \in IF tasks'[n].op = "pattern" THEN Patterns ELSE Values(field.kind)
  <2> SUFFICES ASSUME NEW n \in DOMAIN tasks'
               PROVE  tasks'[n].to \in IF tasks'[n].op = "pattern" THEN Patterns ELSE Values(field.kind)
    OBVIOUS
  <2>1. n \in DOMAIN tasks \/ n = Len(tasks) + 1
    BY <1>3
  <2> QED
    BY <1>3, <2>1 DEF InputInv, InputTypes
<1>6. InputTypes'
  BY <1>2, <1>3, <1>5 DEF InputInv, InputTypes
<1> QED
  BY <1>2, <1>4, <1>6 DEF InputInv, Tells

LEMMA TaskKeepsInv == InputInv /\ RunTask => InputInv'
<1> SUFFICES ASSUME InputInv, RunTask PROVE InputInv'
  OBVIOUS
<1> DEFINE Tasks == [op : {"sync", "data", "pattern"}, to : (SUBSET Items) \cup Patterns]
           task == Head(tasks)
           value == IF task.op \in {"sync", "data"} THEN task.to ELSE core.value
           pattern == IF task.op = "pattern" THEN task.to ELSE core.pattern
           now == Shows(value, pattern, core.required)
           then == Reported(notices, core.snapshot, now)
<1>1. /\ tasks \in Seq(Tasks) /\ tasks # <<>> /\ tasks' = Tail(tasks) /\ field' = field
      /\ core' = [core EXCEPT !.value = value, !.pattern = pattern, !.snapshot = now]
      /\ notices' = then
  BY DEF RunTask, InputInv, InputTypes
<1>2. /\ task \in Tasks /\ task = tasks[1] /\ tasks' \in Seq(Tasks) /\ Len(tasks) \in Nat \ {0}
      /\ DOMAIN tasks = 1..Len(tasks) /\ DOMAIN tasks' = 1..Len(tasks) - 1
      /\ \A n \in DOMAIN tasks' : tasks'[n] = tasks[n + 1] /\ n + 1 \in DOMAIN tasks
  <2> HIDE DEF Tasks
  <2>1. /\ tasks' \in Seq(Tasks) /\ Len(tasks) \in Nat \ {0} /\ Len(tasks') = Len(tasks) - 1
        /\ DOMAIN tasks = 1..Len(tasks) /\ DOMAIN tasks' = 1..Len(tasks')
        /\ \A n \in 1..Len(tasks') : tasks'[n] = tasks[n + 1]
    BY <1>1
  <2>2. task = tasks[1] /\ tasks[1] \in Tasks
    BY <1>1, <2>1
  <2> QED
    BY <2>1, <2>2
<1>3. task.to \in IF task.op = "pattern" THEN Patterns ELSE Values(field.kind)
  <2>1. 1 \in DOMAIN tasks
    BY <1>2
  <2> QED
    BY <1>2, <2>1 DEF InputInv, InputTypes
<1>4. /\ field \in Fields /\ field.kind \in InputKinds /\ core.required \in BOOLEAN
      /\ core.value \in Values(field.kind) /\ core.pattern \in Patterns
      /\ core.snapshot \in Snapshots /\ notices \in Seq(Notices)
      /\ core \in [required : BOOLEAN, value : SUBSET Items, pattern : Patterns, snapshot : Snapshots]
  BY DEF InputInv, InputTypes, Fields
<1>5. value \in Values(field.kind) /\ pattern \in Patterns /\ value \in SUBSET Items
  BY <1>2, <1>3, <1>4, ValuesAreSets
<1> HIDE DEF value, pattern
<1>6. /\ now \in Snapshots /\ now.value = value /\ now.pattern = pattern
      /\ now.checks = (~core.required \/ value # {})
  BY <1>4, <1>5, ShowsSnapshot
<1>7. /\ core.snapshot.value = core.value /\ core.snapshot.pattern = core.pattern
      /\ core.snapshot.checks = (~core.required \/ core.value # {})
  BY <1>4, ShowsSnapshot DEF InputInv, InputTypes
<1>8. /\ then \in Seq(Notices) /\ LatestTells(then, now)
      /\ \A key \in Keys : ~Tells(then, key) => ~Tells(notices, key) /\ now[key] = core.snapshot[key]
  BY <1>4, <1>6, ReportTells DEF InputInv
<1>9. /\ core' \in [required : BOOLEAN, value : SUBSET Items, pattern : Patterns, snapshot : Snapshots]
      /\ core'.required = core.required /\ core'.value = value /\ core'.pattern = pattern /\ core'.snapshot = now
  BY <1>1, <1>4, <1>5, <1>6
<1>10. \A n \in DOMAIN then :
          /\ "value" \in DOMAIN then[n] => then[n]["value"] \in Values(field.kind)
          /\ "pattern" \in DOMAIN then[n] => then[n]["pattern"] \in Patterns
          /\ "checks" \in DOMAIN then[n] => then[n]["checks"] \in BOOLEAN
  <2> SUFFICES ASSUME NEW n \in DOMAIN then
               PROVE  /\ "value" \in DOMAIN then[n] => then[n]["value"] \in Values(field.kind)
                      /\ "pattern" \in DOMAIN then[n] => then[n]["pattern"] \in Patterns
                      /\ "checks" \in DOMAIN then[n] => then[n]["checks"] \in BOOLEAN
    OBVIOUS
  <2> HIDE DEF now
  <2>1. \/ n \in DOMAIN notices /\ then[n] = notices[n]
        \/ then[n] = Diff(core.snapshot, now)
    BY <1>4, <1>8 DEF Reported
  <2>2. CASE n \in DOMAIN notices /\ then[n] = notices[n]
    BY <2>2 DEF InputInv, InputTypes
  <2>3. CASE then[n] = Diff(core.snapshot, now)
    <3>1. (~core.required \/ value # {}) \in BOOLEAN
      OBVIOUS
    <3>2. \A key \in DOMAIN then[n] : then[n][key] = now[key]
      BY <2>3 DEF Diff
    <3> QED
      BY <1>5, <1>6, <3>1, <3>2
  <2> QED
    BY <2>1, <2>2, <2>3
<1> HIDE DEF now, then
<1>11. \A n \in DOMAIN tasks' : tasks'[n].to \in IF tasks'[n].op = "pattern" THEN Patterns ELSE Values(field.kind)
  BY <1>2 DEF InputInv, InputTypes
<1>12. InputTypes'
  <2>1. field' \in Fields /\ field'.value \in Values(field'.kind) /\ core'.value \in Values(field'.kind)
    BY <1>1, <1>4, <1>5, <1>9 DEF InputInv, InputTypes
  <2>2. /\ notices' \in Seq(Notices)
        /\ \A n \in DOMAIN notices' :
              /\ "value" \in DOMAIN notices'[n] => notices'[n]["value"] \in Values(field'.kind)
              /\ "pattern" \in DOMAIN notices'[n] => notices'[n]["pattern"] \in Patterns
              /\ "checks" \in DOMAIN notices'[n] => notices'[n]["checks"] \in BOOLEAN
    BY <1>1, <1>8, <1>10
  <2>3. \A n \in DOMAIN tasks' :
           tasks'[n].to \in IF tasks'[n].op = "pattern" THEN Patterns ELSE Values(field'.kind)
    BY <1>1, <1>11
  <2> QED
    BY <1>2, <1>9, <2>1, <2>2, <2>3 DEF InputTypes
<1>13. core'.snapshot = Shows(core'.value, core'.pattern, core'.required)
  BY <1>9 DEF now
<1>14. LatestTells(notices', core'.snapshot)
  BY <1>1, <1>8, <1>9
<1>15. ~Tells(notices', "pattern") => field'.pattern = core'.pattern
  BY <1>1, <1>6, <1>7, <1>8, <1>9 DEF Keys, InputInv
<1>16. ~Tells(notices', "checks") => field'.checks = (~core'.required \/ core'.value # {})
  <2> SUFFICES ASSUME ~Tells(notices', "checks") PROVE field.checks = (~core.required \/ value # {})
    BY <1>1, <1>9
  <2>1. ~Tells(notices, "checks") /\ now["checks"] = core.snapshot["checks"]
    BY <1>1, <1>8 DEF Keys
  <2>2. field.checks = (~core.required \/ core.value # {})
    BY <2>1 DEF InputInv
  <2> QED
    BY <1>6, <1>7, <2>1, <2>2
<1>17. ~Tells(notices', "value") => field'.value = core'.value \/ field'.rejected \/ Sent(field.value)'
  <2> SUFFICES ASSUME ~Tells(notices', "value"), field.value # value, ~field.rejected
               PROVE  Sent(field.value)'
    BY <1>1, <1>9
  <2>1. ~Tells(notices, "value") /\ value = core.value
    BY <1>1, <1>6, <1>7, <1>8 DEF Keys
  <2>2. Sent(field.value)
    BY <2>1 DEF InputInv
  <2>3. PICK n \in DOMAIN tasks : tasks[n].op = "sync" /\ tasks[n].to = field.value
    BY <2>2 DEF Sent
  <2>4. n # 1
    BY <1>2, <2>3 DEF value
  <2>5. n - 1 \in DOMAIN tasks' /\ tasks'[n - 1] = tasks[n]
    BY <1>2, <2>4
  <2> QED
    BY <1>1, <2>3, <2>5 DEF Sent
<1> QED
  BY <1>12, <1>13, <1>14, <1>15, <1>16, <1>17 DEF InputInv

LEMMA NoticeKeepsInv == InputInv /\ RunNotice => InputInv'
<1> SUFFICES ASSUME InputInv, RunNotice PROVE InputInv'
  OBVIOUS
<1> DEFINE notice == Head(notices)
           given == [field EXCEPT !.checks = Given(notice, "checks", @)]
<1>1. /\ notices \in Seq(Notices) /\ notices # <<>> /\ notices' = Tail(notices)
      /\ field \in Fields /\ field.kind \in InputKinds /\ field.value \in Values(field.kind)
      /\ core' = core /\ tasks' = tasks
      /\ field' = IF given.kind = "text" THEN TextFieldUpdated(given, notice) ELSE PickerUpdated(given, notice)
  BY DEF RunNotice, InputInv, InputTypes, Fields
<1>2. /\ core.snapshot \in Snapshots /\ core.snapshot.value = core.value
      /\ core.snapshot.pattern = core.pattern
      /\ core.snapshot.checks = (~core.required \/ core.value # {})
  BY ShowsSnapshot DEF InputInv, InputTypes
<1>3. /\ notices' \in Seq(Notices) /\ LatestTells(notices', core.snapshot)
      /\ \A key \in Keys : ~Tells(notices', key) =>
            IF key \in DOMAIN notice THEN notice[key] = core.snapshot[key] ELSE ~Tells(notices, key)
  BY <1>1, <1>2, NoticeTells DEF InputInv
<1>4. /\ notice = notices[1] /\ 1 \in DOMAIN notices
      /\ \A n \in DOMAIN notices' : notices'[n] = notices[n + 1] /\ n + 1 \in DOMAIN notices
  <2> HIDE DEF notice
  <2>1. /\ Len(notices) \in Nat \ {0} /\ Len(notices') = Len(notices) - 1
        /\ DOMAIN notices = 1..Len(notices) /\ DOMAIN notices' = 1..Len(notices')
        /\ \A n \in 1..Len(notices') : notices'[n] = notices[n + 1]
    BY <1>1
  <2>2. Head(notices) = notices[1]
    BY <1>1
  <2> QED
    BY <2>1, <2>2 DEF notice
<1>5. /\ "value" \in DOMAIN notice => notice["value"] \in Values(field.kind)
      /\ "pattern" \in DOMAIN notice => notice["pattern"] \in Patterns
      /\ "checks" \in DOMAIN notice => notice["checks"] \in BOOLEAN
  BY <1>4 DEF InputInv, InputTypes
<1>6. \A n \in DOMAIN notices' :
         /\ "value" \in DOMAIN notices'[n] => notices'[n]["value"] \in Values(field.kind)
         /\ "pattern" \in DOMAIN notices'[n] => notices'[n]["pattern"] \in Patterns
         /\ "checks" \in DOMAIN notices'[n] => notices'[n]["checks"] \in BOOLEAN
  BY <1>4 DEF InputInv, InputTypes
<1> HIDE DEF notice
<1> DEFINE value == Given(notice, "value", field.value)
           pattern == Given(notice, "pattern", field.pattern)
           checks == Given(notice, "checks", field.checks)
<1>7. value \in Values(field.kind) /\ value \in SUBSET Items /\ pattern \in Patterns
  BY <1>1, <1>5, ValuesAreSets DEF Given, Fields
<1>8. checks \in BOOLEAN
  BY <1>1, <1>5 DEF Given, Fields
<1> HIDE DEF value, pattern, checks
<1>9. /\ given \in Fields /\ given.kind = field.kind /\ given.value = field.value
      /\ given.pattern = field.pattern /\ given.checks = checks /\ given.rejected = field.rejected
  BY <1>1, <1>8 DEF Fields, checks
<1> HIDE DEF given
<1>10. /\ field' \in Fields /\ field'.kind = field.kind /\ field'.value = value /\ field'.checks = checks
       /\ field'.pattern = pattern
       /\ "value" \notin DOMAIN notice => field'.rejected = field.rejected
  <2>1. Given(notice, "value", given.value) = value /\ Given(notice, "pattern", given.pattern) = pattern
    BY <1>9 DEF value, pattern
  <2>2. CASE given.kind = "text"
    <3> DEFINE told == [given EXCEPT !.pattern = Given(notice, "pattern", @),
                                     !.value = Given(notice, "value", @),
                                     !.edited = given.edited /\ "value" \notin DOMAIN notice,
                                     !.rejected = given.rejected /\ "value" \notin DOMAIN notice]
               edited == given.edited /\ "value" \notin DOMAIN notice
               rejected == given.rejected /\ "value" \notin DOMAIN notice
    <3>1. field' = [told EXCEPT !.failed = told.edited /\ told.value \notin Matches[told.pattern]]
      BY <1>1, <2>2 DEF TextFieldUpdated, Validated
    <3>2. edited \in BOOLEAN /\ rejected \in BOOLEAN
      OBVIOUS
    <3>3. "value" \notin DOMAIN notice => rejected = given.rejected
      BY <1>9 DEF Fields
    <3>4. told = [given EXCEPT !.pattern = pattern, !.value = value, !.edited = edited, !.rejected = rejected]
      BY <1>9, <2>1 DEF Fields
    <3> HIDE DEF edited, rejected, told
    <3>5. /\ told \in Fields /\ told.kind = field.kind /\ told.value = value /\ told.checks = checks
          /\ told.pattern = pattern /\ told.rejected = rejected
      BY <1>7, <1>9, <3>2, <3>4 DEF Fields
    <3>6. (told.edited /\ told.value \notin Matches[told.pattern]) \in BOOLEAN
      OBVIOUS
    <3> DEFINE failed == told.edited /\ told.value \notin Matches[told.pattern]
    <3> HIDE DEF failed
    <3>7. field' = [told EXCEPT !.failed = failed] /\ failed \in BOOLEAN
      BY <3>1, <3>6 DEF failed
    <3> QED
      BY <1>9, <3>3, <3>5, <3>7 DEF Fields
  <2>3. CASE given.kind # "text"
    <3>1. field' = [given EXCEPT !.value = value, !.pattern = pattern]
      BY <1>1, <1>9, <2>1, <2>3 DEF PickerUpdated, Fields
    <3> QED
      BY <1>7, <1>9, <3>1 DEF Fields
  <2> QED
    BY <2>2, <2>3
<1>11. InputTypes'
  <2>1. field'.value \in Values(field'.kind) /\ core'.value \in Values(field'.kind)
    BY <1>1, <1>7, <1>10 DEF InputInv, InputTypes
  <2>2. /\ \A n \in DOMAIN tasks' :
              tasks'[n].to \in IF tasks'[n].op = "pattern" THEN Patterns ELSE Values(field'.kind)
        /\ tasks' \in Seq([op : {"sync", "data", "pattern"}, to : (SUBSET Items) \cup Patterns])
        /\ core' \in [required : BOOLEAN, value : SUBSET Items, pattern : Patterns, snapshot : Snapshots]
    BY <1>1, <1>10 DEF InputInv, InputTypes
  <2> QED
    BY <1>3, <1>6, <1>10, <2>1, <2>2 DEF InputTypes
<1>12. core'.snapshot = Shows(core'.value, core'.pattern, core'.required) /\ LatestTells(notices', core'.snapshot)
  BY <1>1, <1>3 DEF InputInv
<1>13. ~Tells(notices', "pattern") => field'.pattern = core'.pattern
  BY <1>1, <1>2, <1>3, <1>10 DEF InputInv, Given, Keys, pattern
<1>14. ~Tells(notices', "checks") => field'.checks = (~core'.required \/ core'.value # {})
  <2> SUFFICES ASSUME ~Tells(notices', "checks") PROVE checks = (~core.required \/ core.value # {})
    BY <1>1, <1>10
  <2>1. CASE "checks" \in DOMAIN notice
    BY <1>2, <1>3, <2>1 DEF Given, Keys, checks
  <2>2. CASE "checks" \notin DOMAIN notice
    <3>1. ~Tells(notices, "checks") /\ checks = field.checks
      BY <1>3, <2>2 DEF Given, Keys, checks
    <3> QED
      BY <3>1 DEF InputInv
  <2> QED
    BY <2>1, <2>2
<1>15. ~Tells(notices', "value") => field'.value = core'.value \/ field'.rejected \/ Sent(field.value)'
  <2>1. CASE "value" \in DOMAIN notice
    BY <1>1, <1>2, <1>3, <1>10, <2>1 DEF Given, Keys, value
  <2>2. CASE "value" \notin DOMAIN notice
    <3>1. field'.value = field.value /\ field'.rejected = field.rejected
      BY <1>10, <2>2 DEF Given, value
    <3>2. ~Tells(notices', "value") => ~Tells(notices, "value")
      BY <1>3, <2>2 DEF Keys
    <3> QED
      BY <1>1, <3>1, <3>2 DEF InputInv, Sent
  <2> QED
    BY <2>1, <2>2
<1> QED
  BY <1>11, <1>12, <1>13, <1>14, <1>15 DEF InputInv

\* No step of the input, the worker or the agent makes the invariant false.
LEMMA InputStays == InputInv /\ [InputNext]_inputVars => InputInv'
<1> SUFFICES ASSUME InputInv, [InputNext]_inputVars PROVE InputInv'
  OBVIOUS
<1>1. ASSUME NEW text \in Values("text"), HandleTextChanged(text) PROVE InputInv'
  BY <1>1, TextKeepsInv
<1>2. ASSUME NEW option \in Items, HandleOptionClick(option) PROVE InputInv'
  BY <1>2, ClickKeepsInv
<1>3. ASSUME NEW value \in Values(field.kind), AgentSends("data", value) PROVE InputInv'
  BY <1>3, AgentKeepsInv
<1>4. ASSUME NEW pattern \in Patterns, AgentSends("pattern", pattern) PROVE InputInv'
  BY <1>4, AgentKeepsInv
<1>5. CASE RunTask
  BY <1>5, TaskKeepsInv
<1>6. CASE RunNotice
  BY <1>6, NoticeKeepsInv
<1>7. CASE UNCHANGED inputVars
  BY <1>7 DEF inputVars, InputInv, InputTypes, Sent
<1> QED
  BY <1>1, <1>2, <1>3, <1>4, <1>5, <1>6, <1>7 DEF InputNext

\* What is shown and what the data model holds agree once no edit, no message
\* and no report is under way, in every order of theirs: syncState() and the
\* worker's queue, the diff of the snapshots and the main looper.
THEOREM InputsAlwaysAgree == InputSpec => []InputsAgree
  BY InputStays, InputInitInv, InvGivesAgreement, PTL DEF InputSpec
-----------------------------------------------------------------------------
(* The page. *)

\* What holds of the components of each class, whichever the page has.
PageInv == ImageInv /\ ImageBound /\ MediaInv /\ InputInv

\* A step of one class leaves the others alone.
LEMMA PageStays == PageInv /\ [PageNext]_pageVars => PageInv'
<1> SUFFICES ASSUME PageInv, [PageNext]_pageVars PROVE PageInv'
  OBVIOUS
<1>1. [Next]_vars
  BY DEF PageNext, pageVars
<1>2. [MediaNext]_mediaVars
  BY DEF PageNext, pageVars
<1>3. [InputNext]_inputVars
  BY DEF PageNext, pageVars
<1>4. ImageInv' /\ ImageBound'
  BY <1>1, ImageStep DEF PageInv
<1>5. MediaInv' /\ InputInv'
  BY <1>2, <1>3, MediaStays, InputStays DEF PageInv
<1> QED
  BY <1>4, <1>5 DEF PageInv

\* Images, players and inputs keep their promises on one page, for any bounds:
\* requests are owned, pictures are current, a player plays its component's url,
\* and an input shows what the data model holds.
THEOREM PageKeepsItsPromises ==
    PageSpec => [](RequestsAreOwned /\ ShownIsCurrent /\ PlaysItsUrl /\ InputsAgree)
<1>1. PageInit => PageInv
  BY ImageInit, MediaAtFirst, InputInitInv DEF PageInit, PageInv
<1>2. PageInv => RequestsAreOwned /\ ShownIsCurrent /\ PlaysItsUrl /\ InputsAgree
  BY OwnedIs, CurrentIs, PlaysIs, InvGivesAgreement DEF PageInv
<1> QED
  BY <1>1, <1>2, PageStays, PTL DEF PageSpec
=============================================================================
