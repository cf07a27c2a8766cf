----------------------------- MODULE CallProofs -----------------------------
(***************************************************************************)
(* Proofs about calls, for any number of connections, objects and calls: a *)
(* call is in one place at a time, its answer finds the caller, nothing is *)
(* taken out of a service's queue without a reason, and the broker         *)
(* implements CallService.                                                 *)
(***************************************************************************)
EXTENDS BrokerProofs

-----------------------------------------------------------------------------
(* Where a call is.                                                        *)

\* The call, or the answer to it, is in the cell of kind k that belongs to the
\* connection or object x; i is its position in a sequence of messages.
Cell(id, k, x, i) ==
  \/ k = "handler" /\ x \in Conn /\ i = 0 /\ local[x].call = id
  \/ k = "pending" /\ x \in Object /\ i = 0 /\ id \in services[x].pending
  \/ k = "todo" /\ x \in Conn /\ i = 0 /\ id \in todo[x]
  \/ k = "chan" /\ x \in Conn /\ i \in DOMAIN chan[x] /\ About(chan[x][i], id)
  \/ k = "out" /\ x \in Conn /\ i \in DOMAIN out[x] /\ About(out[x][i].msg, id)
  \/ k = "caller" /\ x = Nil /\ i = 0 /\ id \in answered

\* How far a call in the cell has come, and the connection it was handed to.
Stage(k, x, i) ==
  IF k = "todo" THEN "assigned"
  ELSE IF k = "chan" THEN (IF IsReply(chan[x][i]) THEN "replied" ELSE "assigned")
  ELSE IF k = "out" THEN (IF IsReply(out[x][i].msg) THEN "replied" ELSE "assigned")
  ELSE IF k = "caller" THEN "answered"
  ELSE "accepted"

With(k, x, i) ==
  IF k \in {"todo", "chan"} THEN x
  ELSE IF k = "out" THEN out[x][i].to
  ELSE Nil

At(k, x, i) ==
  IF k = "caller" THEN <<"caller">>
  ELSE IF k \in {"chan", "out"} THEN <<k, x, i>>
  ELSE <<k, x>>

\* A call is in one cell at most.
Once(id) ==
  \A k, x, i, l, y, j :
    Cell(id, k, x, i) /\ Cell(id, l, y, j) => k = l /\ x = y /\ i = j

\* Places is the set of the cells the call is in.
PlacesCells ==
  \A id : /\ \A k, x, i : Cell(id, k, x, i) =>
               Place(Stage(k, x, i), With(k, x, i), At(k, x, i)) \in Places(id)
          /\ \A p \in Places(id) : \E k, x, i :
               /\ Cell(id, k, x, i)
               /\ p = Place(Stage(k, x, i), With(k, x, i), At(k, x, i))

\* The places a call has according to BrokerProperties are the cells it is in.
LEMMA PlacesAreCells == PlacesCells
  <1> SUFFICES ASSUME NEW id
               PROVE  /\ \A k, x, i : Cell(id, k, x, i) =>
                           Place(Stage(k, x, i), With(k, x, i), At(k, x, i)) \in Places(id)
                      /\ \A p \in Places(id) : \E k, x, i :
                           /\ Cell(id, k, x, i)
                           /\ p = Place(Stage(k, x, i), With(k, x, i), At(k, x, i))
    BY DEF PlacesCells
  <1> DEFINE Found(p) == \E k, x, i : /\ Cell(id, k, x, i)
                                      /\ p = Place(Stage(k, x, i), With(k, x, i), At(k, x, i))
  <1>1. \A k, x, i : Cell(id, k, x, i) =>
          Place(Stage(k, x, i), With(k, x, i), At(k, x, i)) \in Places(id)
    <2> SUFFICES ASSUME NEW k, NEW x, NEW i, Cell(id, k, x, i)
                 PROVE  Place(Stage(k, x, i), With(k, x, i), At(k, x, i)) \in Places(id)
      OBVIOUS
    <2> DEFINE p == Place(Stage(k, x, i), With(k, x, i), At(k, x, i))
    <2>1. CASE k = "handler"
      BY <2>1 DEF Cell, Places, InHandlers, Stage, With, At
    <2>2. CASE k = "pending"
      BY <2>2 DEF Cell, Places, InQueues, Stage, With, At
    <2>3. CASE k = "todo"
      BY <2>3 DEF Cell, Places, InHands, Stage, With, At
    <2>4. CASE k = "chan"
      <3>1. x \in Conn /\ i \in {j \in DOMAIN chan[x] : About(chan[x][j], id)}
        BY <2>4 DEF Cell
      <3>2. p = Handed(chan[x][i], x, <<"chan", x, i>>)
        BY <2>4 DEF Stage, With, At, Handed
      <3>3. p \in InChannel(id, x)
        BY <3>1, <3>2 DEF InChannel
      <3> HIDE DEF p
      <3>4. p \in InAnyChannel(id)
        BY <3>1, <3>3 DEF InAnyChannel
      <3> QED BY <3>4 DEF Places, p
    <2>5. CASE k = "out"
      <3>1. x \in Conn /\ i \in {j \in DOMAIN out[x] : About(out[x][j].msg, id)}
        BY <2>5 DEF Cell
      <3>2. p = Handed(out[x][i].msg, out[x][i].to, <<"out", x, i>>)
        BY <2>5 DEF Stage, With, At, Handed
      <3>3. p \in InSends(id, x)
        BY <3>1, <3>2 DEF InSends
      <3> HIDE DEF p
      <3>4. p \in InAnySends(id)
        BY <3>1, <3>3 DEF InAnySends
      <3> QED BY <3>4 DEF Places, p
    <2>6. CASE k = "caller"
      <3>1. id \in {id} \cap answered
        BY <2>6 DEF Cell
      <3>2. p = Place("answered", Nil, <<"caller">>)
        BY <2>6 DEF Stage, With, At
      <3>3. p \in AtCaller(id)
        BY <3>1, <3>2 DEF AtCaller
      <3> QED BY <3>3 DEF Places
    <2> QED BY <2>1, <2>2, <2>3, <2>4, <2>5, <2>6 DEF Cell
  <1>2. ASSUME NEW p \in Places(id) PROVE Found(p)
    <2>1. ASSUME NEW c \in Conn, local[c].call = id, p = Place("accepted", Nil, <<"handler", c>>)
          PROVE  Found(p)
      <3>1. Cell(id, "handler", c, 0) /\ p = Place(Stage("handler", c, 0), With("handler", c, 0), At("handler", c, 0))
        BY <2>1 DEF Cell, Stage, With, At
      <3> QED BY <3>1
    <2>2. ASSUME NEW o \in Object, id \in services[o].pending, p = Place("accepted", Nil, <<"pending", o>>)
          PROVE  Found(p)
      <3>1. Cell(id, "pending", o, 0) /\ p = Place(Stage("pending", o, 0), With("pending", o, 0), At("pending", o, 0))
        BY <2>2 DEF Cell, Stage, With, At
      <3> QED BY <3>1
    <2>3. ASSUME NEW c \in Conn, id \in todo[c], p = Place("assigned", c, <<"todo", c>>)
          PROVE  Found(p)
      <3>1. Cell(id, "todo", c, 0) /\ p = Place(Stage("todo", c, 0), With("todo", c, 0), At("todo", c, 0))
        BY <2>3 DEF Cell, Stage, With, At
      <3> QED BY <3>1
    <2>4. ASSUME NEW c \in Conn, NEW i \in DOMAIN chan[c], About(chan[c][i], id),
                 p = Handed(chan[c][i], c, <<"chan", c, i>>)
          PROVE  Found(p)
      <3>1. Cell(id, "chan", c, i) /\ p = Place(Stage("chan", c, i), With("chan", c, i), At("chan", c, i))
        BY <2>4 DEF Cell, Stage, With, At, Handed
      <3> QED BY <3>1
    <2>5. ASSUME NEW c \in Conn, NEW i \in DOMAIN out[c], About(out[c][i].msg, id),
                 p = Handed(out[c][i].msg, out[c][i].to, <<"out", c, i>>)
          PROVE  Found(p)
      <3>1. Cell(id, "out", c, i) /\ p = Place(Stage("out", c, i), With("out", c, i), At("out", c, i))
        BY <2>5 DEF Cell, Stage, With, At, Handed
      <3> QED BY <3>1
    <2>6. ASSUME id \in answered, p = Place("answered", Nil, <<"caller">>)
          PROVE  Found(p)
      <3>1. Cell(id, "caller", Nil, 0) /\ p = Place(Stage("caller", Nil, 0), With("caller", Nil, 0), At("caller", Nil, 0))
        BY <2>6 DEF Cell, Stage, With, At
      <3> QED BY <3>1
    <2> HIDE DEF Found
    <2>7. CASE p \in InAnyChannel(id)
      <3>1. PICK c \in Conn : p \in InChannel(id, c)
        BY <2>7 DEF InAnyChannel
      <3> QED BY <2>4, <3>1 DEF InChannel
    <2>8. CASE p \in InAnySends(id)
      <3>1. PICK c \in Conn : p \in InSends(id, c)
        BY <2>8 DEF InAnySends
      <3> QED BY <2>5, <3>1 DEF InSends
    <2>9. CASE p \in InHandlers(id) \cup InQueues(id) \cup InHands(id) \cup AtCaller(id)
      BY <2>1, <2>2, <2>3, <2>6, <2>9 DEF InHandlers, InQueues, InHands, AtCaller
    <2> QED BY <2>7, <2>8, <2>9 DEF Places
  <1> QED BY <1>1, <1>2

\* The same in the next state.
LEMMA PlacesAreCellsNext == PlacesCells'
  BY PlacesAreCells, PTL

\* A call that is in one cell at most has at most one place.
LEMMA OncePlaces ==
  ASSUME NEW id, Once(id)
  PROVE  Places(id) = {} \/ \E p : Places(id) = {p}
  <1>1. \A p, q \in Places(id) : p = q
    <2> SUFFICES ASSUME NEW p \in Places(id), NEW q \in Places(id) PROVE p = q
      OBVIOUS
    <2>1. PICK k, x, i : /\ Cell(id, k, x, i)
                         /\ p = Place(Stage(k, x, i), With(k, x, i), At(k, x, i))
      BY PlacesAreCells DEF PlacesCells
    <2>2. PICK l, y, j : /\ Cell(id, l, y, j)
                         /\ q = Place(Stage(l, y, j), With(l, y, j), At(l, y, j))
      BY PlacesAreCells DEF PlacesCells
    <2>3. k = l /\ x = y /\ i = j
      BY <2>1, <2>2 DEF Once
    <2> QED BY <2>1, <2>2, <2>3
  <1>2. ASSUME NEW p \in Places(id) PROVE Places(id) = {p}
    BY <1>1, <1>2
  <1> QED BY <1>2

\* The state of a call in CallService, by the cell it is in.
CellStates ==
  \A id : Once(id) =>
    /\ origin[id] = Nil => StateOf(id) = [stage |-> "new", with |-> Nil]
    /\ origin[id] # Nil /\ (\A k, x, i : ~Cell(id, k, x, i)) =>
         StateOf(id) = [stage |-> "lost", with |-> Nil]
    /\ origin[id] # Nil => \A k, x, i : Cell(id, k, x, i) =>
         StateOf(id) = [stage |-> Stage(k, x, i), with |-> With(k, x, i)]

\* The refinement mapping in terms of cells: a call in no cell is lost, and the
\* state of any other is that of its cell.
LEMMA StateOfCell == CellStates
  <1> SUFFICES ASSUME NEW id, Once(id)
               PROVE  /\ origin[id] = Nil => StateOf(id) = [stage |-> "new", with |-> Nil]
                      /\ origin[id] # Nil /\ (\A k, x, i : ~Cell(id, k, x, i)) =>
                           StateOf(id) = [stage |-> "lost", with |-> Nil]
                      /\ origin[id] # Nil => \A k, x, i : Cell(id, k, x, i) =>
                           StateOf(id) = [stage |-> Stage(k, x, i), with |-> With(k, x, i)]
    BY DEF CellStates
  <1>1. origin[id] = Nil => StateOf(id) = [stage |-> "new", with |-> Nil]
    BY DEF StateOf
  <1>2. ASSUME origin[id] # Nil, \A k, x, i : ~Cell(id, k, x, i)
        PROVE  StateOf(id) = [stage |-> "lost", with |-> Nil]
    <2>1. Places(id) = {}
      BY <1>2, PlacesAreCells DEF PlacesCells
    <2> QED BY <1>2, <2>1 DEF StateOf
  <1>3. ASSUME origin[id] # Nil, NEW k, NEW x, NEW i, Cell(id, k, x, i)
        PROVE  StateOf(id) = [stage |-> Stage(k, x, i), with |-> With(k, x, i)]
    <2> DEFINE p == Place(Stage(k, x, i), With(k, x, i), At(k, x, i))
    <2>1. p \in Places(id)
      BY <1>3, PlacesAreCells DEF PlacesCells
    <2> HIDE DEF p
    <2>2. Places(id) = {p}
      BY <2>1, OncePlaces
    <2>3. Cardinality(Places(id)) = 1
      BY <2>2, FS_Singleton
    <2>4. (CHOOSE q \in Places(id) : TRUE) = p
      BY <2>2
    <2>5. Places(id) # {} /\ ~(Cardinality(Places(id)) > 1)
      BY <2>1, <2>3
    <2>6. StateOf(id) = [stage |-> p.stage, with |-> p.with]
      BY <1>3, <2>4, <2>5, Zenon DEF StateOf
    <2> QED BY <2>6 DEF p, Place
  <1> QED BY <1>1, <1>2, <1>3

\* The same in the next state.
LEMMA StateOfCellNext == CellStates'
  BY StateOfCell, PTL

-----------------------------------------------------------------------------
(* What a step does to a call.                                             *)

\* Taking the head off a sequence moves the cells behind it up by one.
Shift(k, x, i, K, X) == IF k = K /\ x = X THEN i + 1 ELSE i

\* The call stays where it is, or moves up in the sequence K of X.
Stays(id, K, X) ==
  /\ origin'[id] = origin[id]
  /\ \A k, x, i : Cell(id, k, x, i)' =>
       /\ Cell(id, k, x, Shift(k, x, i, K, X))
       /\ Stage(k, x, i)' = Stage(k, x, Shift(k, x, i, K, X))
       /\ With(k, x, i)' = With(k, x, Shift(k, x, i, K, X))
  /\ \A k, x, i : Cell(id, k, x, i) => \E j : Cell(id, k, x, j)'

\* The steps of a call that CallService allows, other than a loss.
Onward(id, stage, with, nextStage, nextWith) ==
  \/ nextStage = stage /\ nextWith = with
  \/ stage = "accepted" /\ with = Nil /\ nextStage = "assigned" /\ nextWith \in Conn
  \/ stage \in {"accepted", "assigned"} /\ nextStage = "replied" /\ nextWith = origin[id]
  \/ stage = "replied" /\ with = origin[id] /\ nextStage = "answered" /\ nextWith = Nil

\* It moves from one cell to another.
Moves(id, k, x, i, l, y, j) ==
  /\ origin'[id] = origin[id]
  /\ Cell(id, k, x, i) /\ Cell(id, l, y, j)'
  /\ \A m, z, n : Cell(id, m, z, n)' => m = l /\ z = y /\ n = j
  /\ Onward(id, Stage(k, x, i), With(k, x, i), Stage(l, y, j)', With(l, y, j)')

\* Calls may wait for a service: the value of Queues in the refinement.
Queueing == Activated # {} \/ Sends["RegisterService"] # {}

\* It is lost.
Leaves(id, k, x, i) ==
  /\ origin'[id] = origin[id]
  /\ Cell(id, k, x, i)
  /\ \A l, y, j : ~Cell(id, l, y, j)'
  /\ \/ Stage(k, x, i) = "accepted" /\ Queueing
     \/ /\ Stage(k, x, i) \in {"accepted", "assigned", "replied"}
        /\ {With(k, x, i), origin[id]} \cap Broken' # {}

\* It is made.
Enters(id, c) ==
  /\ origin[id] = Nil /\ origin'[id] = c /\ c \in Conn
  /\ Cell(id, "handler", c, 0)'
  /\ \A l, y, j : Cell(id, l, y, j)' => l = "handler" /\ y = c /\ j = 0

Fate(id) ==
  \/ \E K, X : Stays(id, K, X)
  \/ \E k, x, i, l, y, j : Moves(id, k, x, i, l, y, j)
  \/ \E k, x, i : Leaves(id, k, x, i)
  \/ \E c : Enters(id, c)

\* The call is on its way to a worker, or with one.
Served(id) ==
  \E k, x, i : /\ Cell(id, k, x, i)
               /\ \/ k = "pending" \/ Stage(k, x, i) = "assigned"
                  \/ k = "handler" /\ pc[x] = "call_service"

Routed(id) == Served(id) => calls[id] = origin[id] \/ origin[id] \in GoneFromCalls

\* An answer to it still finds the caller.
StaysRouted(id) ==
  Served(id)' => \/ calls'[id] = origin'[id] \/ origin'[id] \in GoneFromCalls'
                 \/ Served(id) /\ calls'[id] = calls[id] /\ origin'[id] = origin[id]

-----------------------------------------------------------------------------
(* The invariant.                                                          *)

\* A handler has sends only while it sends, and a call only in handle_call.
HandlerInv ==
  \A c \in Conn :
    /\ pc[c] # "send" => out[c] = <<>>
    /\ local[c].call # Nil => pc[c] \in {"call_insert", "call_service"}

\* No call waits for an object without a service, and without activation files
\* and RegisterService no object has one.
QueueInv ==
  /\ \A o \in Object : services[o].state = "Unknown" =>
       services[o].pending = {} /\ services[o].owner = Nil
  /\ ~Queueing => /\ \A o \in Object : services[o].state = "Unknown"
                  /\ \A c \in Conn : pc[c] # "register_service"

\* A call that was not made is nowhere; a caller has been accepted.
OriginInv ==
  \A id \in CallId :
    /\ origin[id] = Nil => \A k, x, i : ~Cell(id, k, x, i)
    /\ origin[id] # Nil => actor[origin[id]] # "absent"

PlaceInv == \A id \in CallId : Once(id) /\ Routed(id)

CallInv == HandlerInv /\ QueueInv /\ OriginInv /\ PlaceInv

Inv == TypeInv /\ LifeInv /\ RouteInv /\ CallInv

\* At the start no call has been made, so none is in a cell.
LEMMA CallInit == Init => CallInv
  <1> SUFFICES ASSUME Init PROVE CallInv
    OBVIOUS
  <1>1. \A id \in CallId : \A k, x, i : ~Cell(id, k, x, i)
    <2>1. \A c \in Conn : DOMAIN out[c] = {} /\ DOMAIN chan[c] = {}
      BY DEF Init
    <2>2. \A c \in Conn : local[c].call = Nil /\ todo[c] = {}
      BY DEF Init, NoLocal
    <2>3. \A o \in Object : services[o].pending = {}
      BY DEF Init, Entry
    <2>4. answered = {} /\ \A id \in CallId : id # Nil
      BY ConstantAssumption DEF ConstantAssumption, Init
    <2> QED BY <2>1, <2>2, <2>3, <2>4 DEF Cell
  <1>2. OriginInv /\ PlaceInv
    BY <1>1 DEF OriginInv, PlaceInv, Once, Routed, Served, Init
  <1>3. HandlerInv
    BY DEF HandlerInv, Init, NoLocal
  <1>4. QueueInv
    BY DEF QueueInv, Init, Entry, Queueing
  <1> QED BY <1>2, <1>3, <1>4 DEF CallInv

\* What the cells are made of has its types.
LEMMA CallTypes ==
  TypeInv => /\ local \in [Conn -> Local] /\ services \in [Object -> ServiceEntry]
             /\ todo \in [Conn -> SUBSET CallId] /\ answered \subseteq CallId
             /\ chan \in [Conn -> Seq(Message)] /\ out \in [Conn -> Seq(Send)]
             /\ origin \in [CallId -> Conn \cup {Nil}] /\ calls \in [CallId -> Conn \cup {Nil}]
             /\ pc \in [Conn -> ReaderPc]
  BY DEF TypeInv, TypeOK

CellIndex == \A id, k, x, i : Cell(id, k, x, i) => i \in Nat

\* The index of a cell is a position in a channel or in a handler's sends.
LEMMA CellIndices == TypeInv => CellIndex
  <1> SUFFICES ASSUME TypeInv, NEW id, NEW k, NEW x, NEW i, Cell(id, k, x, i)
               PROVE  i \in Nat
    BY DEF CellIndex
  <1>1. x \in Conn => DOMAIN chan[x] \subseteq Nat /\ DOMAIN out[x] \subseteq Nat
    BY CallTypes
  <1> QED BY <1>1 DEF Cell

\* The same in the next state.
LEMMA CellIndicesNext == TypeInv' => CellIndex'
  BY CellIndices, PTL

\* What the fate of a call means for the invariant.
LEMMA FateOnce ==
  ASSUME NEW id \in CallId, Once(id), Fate(id), TypeInv',
         origin[id] = Nil => \A k, x, i : ~Cell(id, k, x, i)
  PROVE  /\ Once(id)'
         /\ origin'[id] = Nil => \A k, x, i : ~Cell(id, k, x, i)'
  <1>1. ASSUME NEW K, NEW X, Stays(id, K, X)
        PROVE  /\ Once(id)'
               /\ origin'[id] = Nil => \A k, x, i : ~Cell(id, k, x, i)'
    <2>1. ASSUME NEW k, NEW x, NEW i, NEW l, NEW y, NEW j,
                 Cell(id, k, x, i)', Cell(id, l, y, j)'
          PROVE  k = l /\ x = y /\ i = j
      <3>1. Cell(id, k, x, Shift(k, x, i, K, X)) /\ Cell(id, l, y, Shift(l, y, j, K, X))
        BY <1>1, <2>1 DEF Stays
      <3>2. k = l /\ x = y /\ Shift(k, x, i, K, X) = Shift(l, y, j, K, X)
        BY <3>1 DEF Once
      <3>3. CASE k = K /\ x = X
        <4>1. i \in Nat /\ j \in Nat
          BY <2>1, CellIndicesNext DEF CellIndex
        <4> QED BY <3>2, <3>3, <4>1 DEF Shift
      <3>4. CASE ~(k = K /\ x = X)
        BY <3>2, <3>4 DEF Shift
      <3> QED BY <3>3, <3>4
    <2>2. Once(id)'
      BY <2>1 DEF Once
    <2> QED BY <1>1, <2>2 DEF Stays
  <1>2. ASSUME NEW k, NEW x, NEW i, NEW l, NEW y, NEW j, Moves(id, k, x, i, l, y, j)
        PROVE  /\ Once(id)'
               /\ origin'[id] = Nil => \A m, z, n : ~Cell(id, m, z, n)'
    BY <1>2 DEF Moves, Once
  <1>3. ASSUME NEW k, NEW x, NEW i, Leaves(id, k, x, i)
        PROVE  /\ Once(id)'
               /\ origin'[id] = Nil => \A l, y, j : ~Cell(id, l, y, j)'
    BY <1>3 DEF Leaves, Once
  <1>4. ASSUME NEW c, Enters(id, c)
        PROVE  /\ Once(id)'
               /\ origin'[id] = Nil => \A k, x, i : ~Cell(id, k, x, i)'
    BY <1>4, ConstantAssumption DEF ConstantAssumption, Enters, Once
  <1> QED BY <1>1, <1>2, <1>3, <1>4 DEF Fate

-----------------------------------------------------------------------------
(* Steps that leave a call alone.                                          *)

\* Which messages are about which call.
LEMMA Abouts ==
  /\ \A id, k : About(CallMsg(k), id) <=> id = k
  /\ \A id, k : About(ResultMsg(k), id) <=> id = k
  /\ \A id, k, o : About(ErrorMsg(k, o), id) <=> id = k
  /\ \A id, o : ~About(RegisteredMsg(o), id)
  /\ \A id, t : ~About(SubscribedMsg(t), id)
  /\ \A id, o, b : ~About(HasObjectMsg(o, b), id)
  /\ \A id, t, c, n : ~About(EventMsg(t, c, n), id)
  /\ \A id : IsReply(ResultMsg(id)) /\ ~IsReply(CallMsg(id))
  /\ \A id, o : IsReply(ErrorMsg(id, o))
  BY DEF About, IsReply, CallMsg, ResultMsg, ErrorMsg, RegisteredMsg, SubscribedMsg,
         HasObjectMsg, EventMsg

\* No step of the call in the sends of c: they are the same, or not about it.
SendsAlone(id, c) ==
  \/ out'[c] = out[c]
  \/ /\ \A i \in DOMAIN out[c] : ~About(out[c][i].msg, id)
     /\ \A i \in DOMAIN out'[c] : ~About(out'[c][i].msg, id)

\* The same for everything outside the handlers and their sends.
ElsewhereAlone(id) ==
  /\ \A o \in Object : id \in services'[o].pending <=> id \in services[o].pending
  /\ \A c \in Conn : /\ id \in todo'[c] <=> id \in todo[c]
                     /\ chan'[c] = chan[c]
  /\ id \in answered' <=> id \in answered

\* Nothing of the call changes.
Alone(id) ==
  /\ origin'[id] = origin[id]
  /\ ElsewhereAlone(id)
  /\ \A c \in Conn : local'[c].call = id <=> local[c].call = id
  /\ \A c \in Conn : SendsAlone(id, c)

\* A call of which nothing changes stays in its cell.
LEMMA AloneStays ==
  ASSUME NEW id, Alone(id)
  PROVE  Stays(id, "none", Nil)
  <1>1. \A k, x, i : Cell(id, k, x, i)' <=> Cell(id, k, x, i)
    BY DEF Cell, Alone, ElsewhereAlone, SendsAlone
  <1>2. \A k, x, i : Cell(id, k, x, i) =>
          Stage(k, x, i)' = Stage(k, x, i) /\ With(k, x, i)' = With(k, x, i)
    <2> SUFFICES ASSUME NEW k, NEW x, NEW i, Cell(id, k, x, i), Cell(id, k, x, i)'
                 PROVE  Stage(k, x, i)' = Stage(k, x, i) /\ With(k, x, i)' = With(k, x, i)
      BY <1>1
    <2>1. CASE k = "chan"
      BY <2>1 DEF Cell, Alone, ElsewhereAlone, Stage, With
    <2>2. CASE k = "out"
      <3>1. out'[x] = out[x]
        BY <2>2 DEF Cell, Alone, SendsAlone
      <3> QED BY <2>2, <3>1 DEF Stage, With
    <2>3. CASE k \notin {"chan", "out"}
      BY <2>3 DEF Stage, With
    <2> QED BY <2>1, <2>2, <2>3
  <1>3. ASSUME NEW k, NEW x, NEW i, Cell(id, k, x, i)' PROVE Shift(k, x, i, "none", Nil) = i
    <2>1. k # "none"
      BY <1>3 DEF Cell
    <2> QED BY <2>1 DEF Shift
  <1>4. \A k, x, i : Cell(id, k, x, i)' =>
          /\ Cell(id, k, x, Shift(k, x, i, "none", Nil))
          /\ Stage(k, x, i)' = Stage(k, x, Shift(k, x, i, "none", Nil))
          /\ With(k, x, i)' = With(k, x, Shift(k, x, i, "none", Nil))
    BY <1>1, <1>2, <1>3
  <1>5. \A k, x, i : Cell(id, k, x, i) => \E j : Cell(id, k, x, j)'
    BY <1>1
  <1> QED BY <1>4, <1>5 DEF Stays, Alone

\* Nothing of the call changes, and the caller's entry in calls is kept.
Quiet(id) ==
  /\ Alone(id)
  /\ \A c \in Conn : local[c].call = id /\ pc'[c] = "call_service" => pc[c] = "call_service"
  /\ calls'[id] = calls[id] \/ origin[id] \in GoneFromCalls'

\* A step that is quiet for a call keeps the call and its route.
LEMMA QuietFate ==
  ASSUME NEW id, Quiet(id)
  PROVE  Fate(id) /\ StaysRouted(id)
  <1>1. Stays(id, "none", Nil)
    BY AloneStays DEF Quiet
  <1>2. Fate(id)
    BY <1>1 DEF Fate
  <1>3. ASSUME Served(id)' PROVE Served(id)
    <2>1. PICK k, x, i : /\ Cell(id, k, x, i)'
                         /\ \/ k = "pending" \/ Stage(k, x, i)' = "assigned"
                            \/ k = "handler" /\ pc'[x] = "call_service"
      BY <1>3 DEF Served
    <2> DEFINE n == Shift(k, x, i, "none", Nil)
    <2>2. /\ Cell(id, k, x, n)
          /\ Stage(k, x, i)' = Stage(k, x, n)
      BY <1>1, <2>1 DEF Stays
    <2>3. k = "handler" /\ pc'[x] = "call_service" => pc[x] = "call_service"
      BY <2>2 DEF Cell, Quiet
    <2> HIDE DEF n
    <2> QED BY <2>1, <2>2, <2>3 DEF Served
  <1> QED BY <1>2, <1>3 DEF StaysRouted, Quiet, Alone

\* What a handler leaves alone besides its own locals and sends.
LEMMA HandlerAlone ==
  ASSUME TypeInv, HandlerInv, NEW c \in Conn, NEW id \in CallId,
         local[c].call # id,
         \/ Return(c)
         \/ \E label, l : Continue(c, label, l) /\ l.call # id
         \/ \E sends : /\ SendAll(c, sends) /\ pc[c] # "send"
                       /\ \A i \in DOMAIN sends : ~About(sends[i].msg, id)
  PROVE  /\ \A d \in Conn : local'[d].call = id <=> local[d].call = id
         /\ \A d \in Conn : SendsAlone(id, d)
         /\ \A d \in Conn : local[d].call = id /\ pc'[d] = "call_service" => pc[d] = "call_service"
  <1>0. /\ local \in [Conn -> Local] /\ pc \in [Conn -> ReaderPc]
        /\ out \in [Conn -> Seq(Send)] /\ id # Nil
    BY CallTypes, ConstantAssumption DEF ConstantAssumption
  <1>1. NoLocal.call = Nil
    BY DEF NoLocal
  <1>2. ASSUME NEW label, NEW l, Continue(c, label, l), l.call # id
        PROVE  /\ \A d \in Conn : local'[d].call = id <=> local[d].call = id
               /\ \A d \in Conn : SendsAlone(id, d)
               /\ \A d \in Conn : local[d].call = id /\ pc'[d] = "call_service" => pc[d] = "call_service"
    BY <1>0, <1>2 DEF Continue, SendsAlone
  <1>3. ASSUME NEW sends, SendAll(c, sends), pc[c] # "send",
               \A i \in DOMAIN sends : ~About(sends[i].msg, id)
        PROVE  /\ \A d \in Conn : local'[d].call = id <=> local[d].call = id
               /\ \A d \in Conn : SendsAlone(id, d)
               /\ \A d \in Conn : local[d].call = id /\ pc'[d] = "call_service" => pc[d] = "call_service"
    <2>1. DOMAIN out[c] = {}
      BY <1>3 DEF HandlerInv
    <2>2. /\ \A d \in Conn : out'[d] = IF d = c THEN sends ELSE out[d]
          /\ \A d \in Conn : local'[d] = IF d = c THEN NoLocal ELSE local[d]
          /\ \A d \in Conn : pc'[d] = IF d = c THEN "send" ELSE pc[d]
      BY <1>0, <1>3 DEF SendAll
    <2> QED BY <1>0, <1>1, <1>3, <2>1, <2>2 DEF SendsAlone
  <1>4. CASE Return(c)
    BY <1>0, <1>1, <1>2, <1>4 DEF Return
  <1> QED BY <1>2, <1>3, <1>4

\* The steps that leave every call where it is: the life of a connection ...
LEMMA QuietConnections ==
  ASSUME Inv, NEW c \in Conn, NEW id \in CallId,
         \/ SpawnClient(c) \/ PeerClose(c) \/ WriterShutdown(c)
         \/ CleanupClients(c) \/ CleanupObjects(c) \/ CleanupSubscriptions(c)
         \/ CleanupCalls(c) \/ CleanupActiveCalls(c)
  PROVE  Quiet(id)
  <1> USE DEF maps, task, conn, world, hist
  <1>0. /\ pc \in [Conn -> ReaderPc] /\ actor \in [Conn -> ActorPc]
        /\ calls \in [CallId -> Conn \cup {Nil}]
    BY LifeTypes DEF Inv
  <1>1. /\ UNCHANGED <<local, out, services, todo, chan, answered, origin>>
        /\ pc' = pc \/ pc' = [pc EXCEPT ![c] = "idle"]
    BY DEF SpawnClient, PeerClose, WriterShutdown, CleanupClients, CleanupObjects,
           CleanupSubscriptions, CleanupCalls, CleanupActiveCalls
  <1>2. Alone(id)
    BY <1>1 DEF Alone, ElsewhereAlone, SendsAlone
  <1>3. calls'[id] = calls[id] \/ origin[id] \in GoneFromCalls'
    <2>1. CASE CleanupCalls(c)
      <3>1. calls'[id] = calls[id] \/ calls[id] = c
        BY <1>0, <2>1 DEF CleanupCalls
      <3>2. calls[id] \in {Nil, origin[id]}
        BY DEF Inv, RouteInv
      <3>3. actor'[c] = "active_calls"
        BY <1>0, <2>1 DEF CleanupCalls
      <3>4. c \in GoneFromCalls'
        BY <3>3 DEF GoneFromCalls, NotIn
      <3> QED BY <3>1, <3>2, <3>4, ConstantAssumption DEF ConstantAssumption
    <2>2. CASE ~CleanupCalls(c)
      BY <2>2 DEF SpawnClient, PeerClose, WriterShutdown, CleanupClients, CleanupObjects,
                  CleanupSubscriptions, CleanupActiveCalls
    <2> QED BY <2>1, <2>2
  <1> QED BY <1>0, <1>1, <1>2, <1>3 DEF Quiet

\* ... the handlers of requests that are no calls ...
LEMMA QuietHandlers ==
  ASSUME Inv, NEW c \in Conn, NEW id \in CallId,
         \/ \E o \in Object : RegisterObject(c, o) \/ RegisterService(c, o) \/ HasObject(c, o)
         \/ \E t \in Topic : Subscribe(c, t) \/ Publish(c, t)
         \/ PublishSenders(c) \/ ReadError(c) \/ RegisterServiceEntry(c)
  PROVE  Quiet(id)
  <1> USE DEF maps, task, conn, world, hist
  <1>0. /\ HandlerInv /\ TypeInv /\ NoLocal.call = Nil /\ id # Nil
    BY ConstantAssumption DEF ConstantAssumption, Inv, CallInv, NoLocal
  <1>1. pc[c] \in {"idle", "publish", "register_service"}
    BY DEF RegisterObject, RegisterService, HasObject, Subscribe, Publish, PublishSenders,
           ReadError, RegisterServiceEntry, Read
  <1>2. local[c].call # id
    BY <1>0, <1>1 DEF HandlerInv
  <1>3. \/ Return(c)
        \/ \E label, l : Continue(c, label, l) /\ l.call # id
        \/ \E sends : /\ SendAll(c, sends) /\ pc[c] # "send"
                      /\ \A i \in DOMAIN sends : ~About(sends[i].msg, id)
    <2>1. ASSUME NEW o \in Object, RegisterObject(c, o) \/ RegisterService(c, o)
          PROVE  \E label, l : Continue(c, label, l) /\ l.call # id
      <3>1. [NoLocal EXCEPT !.object = o].call = Nil
        BY DEF NoLocal
      <3> QED BY <1>0, <2>1, <3>1 DEF RegisterObject, RegisterService
    <2>2. ASSUME NEW s, SendAll(c, <<s>>), ~About(s.msg, id)
          PROVE  \E sends : /\ SendAll(c, sends) /\ pc[c] # "send"
                            /\ \A i \in DOMAIN sends : ~About(sends[i].msg, id)
      <3>1. \A i \in DOMAIN <<s>> : <<s>>[i] = s
        OBVIOUS
      <3> QED BY <1>1, <2>2, <3>1
    <2>3. ASSUME NEW o \in Object, HasObject(c, o)
          PROVE  \E s : SendAll(c, <<s>>) /\ ~About(s.msg, id)
      BY <2>3, Abouts, Replies DEF HasObject
    <2>4. ASSUME NEW t \in Topic, Subscribe(c, t)
          PROVE  \E s : SendAll(c, <<s>>) /\ ~About(s.msg, id)
      BY <2>4, Abouts, Replies DEF Subscribe
    <2>5. ASSUME NEW t \in Topic, Publish(c, t)
          PROVE  Return(c) \/ \E label, l : Continue(c, label, l) /\ l.call # id
      <3> DEFINE l == [NoLocal EXCEPT !.topic = t, !.subs = subscriptions[t]]
      <3>1. l.call # id
        BY <1>0 DEF NoLocal
      <3>2. Return(c) \/ Continue(c, "publish", l)
        BY <2>5 DEF Publish
      <3> HIDE DEF l
      <3> QED BY <3>1, <3>2
    <2>6. CASE PublishSenders(c)
      <3> DEFINE event == EventMsg(local[c].topic, c, reads[c])
                 present == local[c].subs \cap clients
                 sends(q) == [i \in DOMAIN q |-> To(q[i], event)]
      <3>1. Return(c) \/ \E q \in Orderings(present) : SendAll(c, sends(q))
        BY <2>6 DEF PublishSenders
      <3>2. ~About(event, id)
        BY Abouts
      <3> HIDE DEF event
      <3>3. \A q : \A i \in DOMAIN sends(q) : sends(q)[i].msg = event
        BY Replies
      <3> HIDE DEF sends
      <3> QED BY <1>1, <3>1, <3>2, <3>3
    <2>7. CASE ReadError(c)
      BY <1>0, <2>7 DEF ReadError
    <2>8. CASE RegisterServiceEntry(c)
      BY <2>8 DEF RegisterServiceEntry
    <2> QED BY <2>1, <2>2, <2>3, <2>4, <2>5, <2>6, <2>7, <2>8
  <1>4. /\ \A d \in Conn : local'[d].call = id <=> local[d].call = id
        /\ \A d \in Conn : SendsAlone(id, d)
        /\ \A d \in Conn : local[d].call = id /\ pc'[d] = "call_service" => pc[d] = "call_service"
    BY <1>0, <1>2, <1>3, HandlerAlone
  <1>5. UNCHANGED <<todo, chan, answered, origin, calls>>
    BY DEF RegisterObject, RegisterService, HasObject, Subscribe, Publish, PublishSenders,
           ReadError, RegisterServiceEntry
  <1>6. \A o \in Object : id \in services'[o].pending <=> id \in services[o].pending
    <2>1. CASE RegisterServiceEntry(c)
      <3>1. /\ services \in [Object -> ServiceEntry] /\ local[c].object \in Object
            /\ \A o \in Object : services[o].state = "Unknown" => services[o].pending = {}
        BY <2>1, CallTypes DEF Inv, CallInv, QueueInv, TypeInv, ReaderInv, RegisterServiceEntry
      <3>2. Entry("Stopped").pending = {}
        BY DEF Entry
      <3>3. \A e \in ServiceEntry : [e EXCEPT !.state = "Stopped", !.runner = Nil].pending = e.pending
        BY DEF ServiceEntry
      <3> QED BY <2>1, <3>1, <3>2, <3>3 DEF RegisterServiceEntry
    <2>2. CASE ~RegisterServiceEntry(c)
      BY <2>2 DEF RegisterObject, RegisterService, HasObject, Subscribe, Publish,
                  PublishSenders, ReadError
    <2> QED BY <2>1, <2>2
  <1> QED BY <1>4, <1>5, <1>6 DEF Quiet, Alone, ElsewhereAlone

\* ... and a service that comes up, or nothing at all.
LEMMA QuietOther ==
  ASSUME NEW id \in CallId, (\E o \in Object : SpawnService(o)) \/ UNCHANGED vars
  PROVE  Quiet(id)
  <1>1. UNCHANGED <<local, out, services, todo, chan, answered, origin, pc, calls>>
    BY DEF SpawnService, vars, maps, task, conn, world, hist
  <1> QED BY <1>1 DEF Quiet, Alone, ElsewhereAlone, SendsAlone

-----------------------------------------------------------------------------
(* The handler of a call.                                                  *)

\* A call that was in one cell is in another if it is in no third one.
LEMMA MovesOnly ==
  ASSUME NEW id, Once(id), origin'[id] = origin[id],
         NEW k, NEW x, NEW i, NEW l, NEW y, NEW j,
         Cell(id, k, x, i), Cell(id, l, y, j)',
         \A m, z, n : Cell(id, m, z, n)' =>
           \/ m = l /\ z = y /\ n = j
           \/ Cell(id, m, z, n) /\ ~(m = k /\ z = x /\ n = i),
         Onward(id, Stage(k, x, i), With(k, x, i), Stage(l, y, j)', With(l, y, j)')
  PROVE  Moves(id, k, x, i, l, y, j)
  BY DEF Moves, Once

\* It is lost if all that is left are other cells than the one it was in.
LEMMA LeavesOnly ==
  ASSUME NEW id, Once(id), origin'[id] = origin[id],
         NEW k, NEW x, NEW i, Cell(id, k, x, i),
         \A m, z, n : Cell(id, m, z, n)' => Cell(id, m, z, n) /\ ~(m = k /\ z = x /\ n = i),
         \/ Stage(k, x, i) = "accepted" /\ Queueing
         \/ /\ Stage(k, x, i) \in {"accepted", "assigned", "replied"}
            /\ {With(k, x, i), origin[id]} \cap Broken' # {}
  PROVE  Leaves(id, k, x, i)
  BY DEF Leaves, Once

\* A call that is lost needs no entry in calls.
LEMMA LeavesRouted ==
  ASSUME NEW id, NEW k, NEW x, NEW i, Leaves(id, k, x, i)
  PROVE  Fate(id) /\ StaysRouted(id)
  BY DEF Leaves, Fate, StaysRouted, Served

\* A call that moves keeps its entry.
LEMMA MovesRouted ==
  ASSUME NEW id, NEW k, NEW x, NEW i, NEW l, NEW y, NEW j, Moves(id, k, x, i, l, y, j),
         \/ calls'[id] = origin'[id]
         \/ calls'[id] = calls[id] /\ Served(id)
         \/ calls'[id] = calls[id] /\ l \notin {"pending", "handler"}
              /\ Stage(l, y, j)' = Stage(k, x, i)
         \/ l \notin {"pending", "handler"} /\ Stage(l, y, j)' # "assigned"
  PROVE  Fate(id) /\ StaysRouted(id)
  <1>1. Fate(id)
    BY DEF Fate
  <1>2. ASSUME l \notin {"pending", "handler"}, Served(id)' PROVE Stage(l, y, j)' = "assigned"
    BY <1>2 DEF Served, Moves
  <1>3. Stage(k, x, i) = "assigned" => Served(id)
    BY DEF Served, Moves
  <1>4. origin'[id] = origin[id]
    BY DEF Moves
  <1> QED BY <1>1, <1>2, <1>3, <1>4 DEF StaysRouted

\* The call in the hands of handle_call.
LEMMA CallHandled ==
  ASSUME Inv, NEW c \in Conn, pc[c] \in {"call_insert", "call_service"}
  PROVE  /\ local[c].call \in CallId /\ local[c].object \in Object
         /\ origin[local[c].call] = c
         /\ Cell(local[c].call, "handler", c, 0)
         /\ pc[c] = "call_service" => Served(local[c].call)
  <1>1. local[c].call \in CallId /\ local[c].object \in Object /\ origin[local[c].call] = c
    BY DEF Inv, TypeInv, ReaderInv, RouteInv
  <1>2. Cell(local[c].call, "handler", c, 0)
    BY DEF Cell
  <1> QED BY <1>1, <1>2 DEF Served

\* The handler sends it on.
LEMMA HandlerSends ==
  ASSUME Inv, NEW c \in Conn, pc[c] \in {"call_insert", "call_service"},
         NEW id, id = local[c].call,
         NEW s, SendAll(c, <<s>>), About(s.msg, id),
         ElsewhereAlone(id), UNCHANGED origin,
         Onward(id, "accepted", Nil, IF IsReply(s.msg) THEN "replied" ELSE "assigned", s.to)
  PROVE  /\ Moves(id, "handler", c, 0, "out", c, 1)
         /\ Stage("out", c, 1)' = IF IsReply(s.msg) THEN "replied" ELSE "assigned"
  <1>0. /\ local \in [Conn -> Local] /\ out \in [Conn -> Seq(Send)]
        /\ id \in CallId /\ id # Nil /\ NoLocal.call = Nil
        /\ Cell(id, "handler", c, 0) /\ Once(id)
    BY CallTypes, CallHandled, ConstantAssumption
       DEF ConstantAssumption, Inv, NoLocal, CallInv, PlaceInv
  <1>1. /\ \A d \in Conn : local'[d] = IF d = c THEN NoLocal ELSE local[d]
        /\ \A d \in Conn : out'[d] = IF d = c THEN <<s>> ELSE out[d]
    BY <1>0 DEF SendAll
  <1>2. DOMAIN <<s>> = {1} /\ <<s>>[1] = s
    OBVIOUS
  <1>3. Cell(id, "out", c, 1)'
    BY <1>1, <1>2 DEF Cell
  <1>4. \A m, z, n : Cell(id, m, z, n)' =>
          \/ m = "out" /\ z = c /\ n = 1
          \/ Cell(id, m, z, n) /\ ~(m = "handler" /\ z = c /\ n = 0)
    <2> SUFFICES ASSUME NEW m, NEW z, NEW n, Cell(id, m, z, n)'
                 PROVE  \/ m = "out" /\ z = c /\ n = 1
                        \/ Cell(id, m, z, n) /\ ~(m = "handler" /\ z = c /\ n = 0)
      OBVIOUS
    <2>1. CASE m = "handler"
      BY <1>0, <1>1, <2>1 DEF Cell
    <2>2. CASE m = "out"
      BY <1>1, <1>2, <2>2 DEF Cell
    <2>3. CASE m \notin {"handler", "out"}
      BY <2>3 DEF Cell, ElsewhereAlone
    <2> QED BY <2>1, <2>2, <2>3
  <1>5. /\ Stage("handler", c, 0) = "accepted" /\ With("handler", c, 0) = Nil
        /\ Stage("out", c, 1)' = IF IsReply(s.msg) THEN "replied" ELSE "assigned"
        /\ With("out", c, 1)' = s.to
    BY <1>1, <1>2 DEF Stage, With
  <1>6. Onward(id, Stage("handler", c, 0), With("handler", c, 0),
               Stage("out", c, 1)', With("out", c, 1)')
    BY <1>5
  <1>7. Moves(id, "handler", c, 0, "out", c, 1)
    BY <1>0, <1>3, <1>4, <1>6, MovesOnly
  <1> QED BY <1>5, <1>7

\* The other calls do not notice what a handler does with its own.
LEMMA OtherCalls ==
  ASSUME Inv, NEW c \in Conn, pc[c] \in {"call_insert", "call_service"},
         NEW id \in CallId, id # local[c].call,
         \/ Return(c)
         \/ \E label : Continue(c, label, local[c])
         \/ \E s : SendAll(c, <<s>>) /\ ~About(s.msg, id),
         ElsewhereAlone(id), origin'[id] = origin[id], calls'[id] = calls[id]
  PROVE  Quiet(id)
  <1>1. \A s : DOMAIN <<s>> = {1} /\ <<s>>[1] = s
    OBVIOUS
  <1>2. \/ Return(c)
        \/ \E label, l : Continue(c, label, l) /\ l.call # id
        \/ \E sends : /\ SendAll(c, sends) /\ pc[c] # "send"
                      /\ \A i \in DOMAIN sends : ~About(sends[i].msg, id)
    <2>1. ASSUME NEW s, SendAll(c, <<s>>), ~About(s.msg, id)
          PROVE  \E sends : /\ SendAll(c, sends) /\ pc[c] # "send"
                            /\ \A i \in DOMAIN sends : ~About(sends[i].msg, id)
      <3>1. \A i \in DOMAIN <<s>> : ~About(<<s>>[i].msg, id)
        BY <1>1, <2>1
      <3> QED BY <2>1, <3>1
    <2> QED BY <2>1
  <1>3. /\ \A d \in Conn : local'[d].call = id <=> local[d].call = id
        /\ \A d \in Conn : SendsAlone(id, d)
        /\ \A d \in Conn : local[d].call = id /\ pc'[d] = "call_service" => pc[d] = "call_service"
    BY <1>2, HandlerAlone DEF Inv, CallInv
  <1> QED BY <1>3 DEF Quiet, Alone

\* handle_call begins ...
LEMMA CallFate ==
  ASSUME Inv, NEW c \in Conn, NEW k \in CallId, NEW o \in Object, Call(c, k, o),
         NEW id \in CallId
  PROVE  Fate(id) /\ StaysRouted(id)
  <1> DEFINE l == [NoLocal EXCEPT !.call = k, !.object = o,
                     !.tx = IF objects[o] \in clients THEN objects[o] ELSE Nil]
  <1>1. l.call = k
    BY DEF NoLocal
  <1>2. pc[c] = "idle" /\ c \in clients
    <2>1. pc[c] = "idle"
      BY DEF Call, Read
    <2>2. actor[c] = "running"
      BY <2>1, Reading DEF Inv
    <2> QED BY <2>1, <2>2 DEF Inv, LifeInv, Clean
  <1>3. Continue(c, "call_insert", l)
    BY <1>2 DEF Call
  <1> HIDE DEF l
  <1>4. /\ UNCHANGED <<out, services, todo, chan, answered, calls>>
        /\ origin[k] = Nil /\ origin' = [origin EXCEPT ![k] = c]
    BY <1>3 DEF Call, Continue, maps, conn
  <1>5. /\ local \in [Conn -> Local] /\ pc \in [Conn -> ReaderPc]
        /\ origin \in [CallId -> Conn \cup {Nil}] /\ k # Nil
    BY CallTypes, ConstantAssumption DEF ConstantAssumption, Inv
  <1>6. local[c].call = Nil
    BY <1>2 DEF Inv, CallInv, HandlerInv
  <1>7. CASE id # k
    <2>1. id # Nil
      BY ConstantAssumption DEF ConstantAssumption
    <2>2. \E label, ll : Continue(c, label, ll) /\ ll.call # id
      BY <1>1, <1>3, <1>7
    <2>3. /\ \A d \in Conn : local'[d].call = id <=> local[d].call = id
          /\ \A d \in Conn : SendsAlone(id, d)
          /\ \A d \in Conn : local[d].call = id /\ pc'[d] = "call_service" => pc[d] = "call_service"
      BY <1>6, <2>1, <2>2, HandlerAlone DEF Inv, CallInv
    <2>4. origin'[id] = origin[id]
      BY <1>4, <1>5, <1>7
    <2>5. Quiet(id)
      BY <1>4, <2>3, <2>4 DEF Quiet, Alone, ElsewhereAlone
    <2> QED BY <2>5, QuietFate
  <1>8. CASE id = k
    <2>1. \A m, x, i : ~Cell(k, m, x, i)
      BY <1>4 DEF Inv, CallInv, OriginInv
    <2>2. \A d \in Conn : local'[d] = IF d = c THEN l ELSE local[d]
      BY <1>3, <1>5 DEF Continue
    <2>3. Cell(k, "handler", c, 0)'
      BY <1>1, <2>2 DEF Cell
    <2>4. \A m, x, i : Cell(k, m, x, i)' => m = "handler" /\ x = c /\ i = 0
      <3> SUFFICES ASSUME NEW m, NEW x, NEW i, Cell(k, m, x, i)'
                   PROVE  m = "handler" /\ x = c /\ i = 0
        OBVIOUS
      <3>1. CASE m = "handler"
        <4>1. x = c \/ Cell(k, m, x, i)
          BY <2>2, <3>1 DEF Cell
        <4>2. i = 0
          BY <3>1 DEF Cell
        <4> QED BY <2>1, <3>1, <4>1, <4>2
      <3>2. CASE m # "handler"
        <4>1. Cell(k, m, x, i)
          BY <1>4, <3>2 DEF Cell
        <4> QED BY <2>1, <4>1
      <3> QED BY <3>1, <3>2
    <2>5. Enters(k, c)
      BY <1>4, <1>5, <2>3, <2>4 DEF Enters
    <2>6. Fate(id)
      BY <1>8, <2>5 DEF Fate
    <2>7. ~Served(k)'
      <3>1. pc'[c] = "call_insert"
        BY <1>3, <1>5 DEF Continue
      <3>2. \A m, x, i : Cell(k, m, x, i)' => Stage(m, x, i)' = "accepted"
        BY <2>4 DEF Stage
      <3> QED BY <2>4, <3>1, <3>2 DEF Served
    <2> QED BY <1>8, <2>6, <2>7 DEF StaysRouted
  <1> QED BY <1>7, <1>8

\* ... forwards the call, or goes on to the services ...
LEMMA CallInsertFate ==
  ASSUME Inv, NEW c \in Conn, CallInsert(c), NEW id \in CallId
  PROVE  Fate(id) /\ StaysRouted(id)
  <1>1. /\ pc[c] = "call_insert" /\ UNCHANGED <<services, todo, chan, answered, origin>>
        /\ calls' = [calls EXCEPT ![local[c].call] = c]
    BY DEF CallInsert, conn, world, hist
  <1>2. /\ local[c].call \in CallId /\ origin[local[c].call] = c
        /\ local \in [Conn -> Local] /\ calls \in [CallId -> Conn \cup {Nil}]
        /\ pc \in [Conn -> ReaderPc]
    BY <1>1, CallHandled, CallTypes DEF Inv
  <1>3. ElsewhereAlone(id)
    BY <1>1 DEF ElsewhereAlone
  <1> DEFINE s == To(local[c].tx, CallMsg(local[c].call))
  <1>4. local[c].tx # Nil => SendAll(c, <<s>>)
    BY DEF CallInsert
  <1>5. local[c].tx = Nil => Continue(c, "call_service", local[c])
    BY DEF CallInsert
  <1>6. /\ About(s.msg, id) <=> id = local[c].call
        /\ ~IsReply(s.msg) /\ s.to = local[c].tx
    BY Abouts, Replies
  <1> HIDE DEF s
  <1>7. CASE id # local[c].call
    <2>1. calls'[id] = calls[id]
      BY <1>1, <1>2, <1>7
    <2>2. Quiet(id)
      BY <1>1, <1>3, <1>4, <1>5, <1>6, <1>7, <2>1, OtherCalls
    <2> QED BY <2>2, QuietFate
  <1>8. CASE id = local[c].call /\ local[c].tx # Nil
    <2>1. local[c].tx \in Conn
      BY <1>2, <1>8 DEF Local
    <2>2. Onward(id, "accepted", Nil, IF IsReply(s.msg) THEN "replied" ELSE "assigned", s.to)
      BY <1>6, <2>1 DEF Onward
    <2>3. Moves(id, "handler", c, 0, "out", c, 1)
      BY <1>1, <1>3, <1>4, <1>6, <1>8, <2>2, HandlerSends
    <2>4. calls'[id] = origin'[id]
      BY <1>1, <1>2, <1>8
    <2> QED BY <2>3, <2>4, MovesRouted
  <1>9. CASE id = local[c].call /\ local[c].tx = Nil
    <2>1. UNCHANGED <<local, out>>
      BY <1>2, <1>5, <1>9 DEF Continue
    <2>2. Alone(id)
      BY <1>1, <1>3, <2>1 DEF Alone, SendsAlone
    <2>3. Stays(id, "none", Nil)
      BY <2>2, AloneStays
    <2>4. calls'[id] = origin'[id]
      BY <1>1, <1>2, <1>9
    <2> QED BY <2>3, <2>4 DEF Fate, StaysRouted
  <1> QED BY <1>7, <1>8, <1>9

\* A call that waits is added to the queue of its object.
LEMMA QueuedMore ==
  ASSUME TypeInv, NEW c \in Conn, CallAutoStart(c) \/ CallQueue(c)
  PROVE  /\ local[c].object \in Object
         /\ \A p \in Object : services'[p].pending =
              IF p = local[c].object THEN services[p].pending \cup {local[c].call}
              ELSE services[p].pending
  <1> DEFINE o == local[c].object
  <1>1. o \in Object /\ local[c].call \in CallId /\ services \in [Object -> ServiceEntry]
    BY CallTypes DEF TypeInv, ReaderInv, CallAutoStart, CallQueue
  <1>2. \A p \in Object : services'[p].pending =
          IF p = o THEN services[p].pending \cup {local[c].call} ELSE services[p].pending
    <2>1. CASE CallAutoStart(c)
      <3> DEFINE f == [services EXCEPT ![o].state = "Starting"]
      <3>1. services' = [f EXCEPT ![o].pending = @ \cup {local[c].call}]
        BY <2>1 DEF CallAutoStart
      <3>2. DOMAIN f = Object /\ \A p \in Object : f[p].pending = services[p].pending
        BY <1>1 DEF ServiceEntry
      <3>3. f \in [Object -> ServiceEntry]
        BY <1>1 DEF ServiceEntry
      <3> HIDE DEF f
      <3>4. \A p \in Object : p # o => services'[p] = f[p]
        BY <3>1, <3>2
      <3>5. services'[o] = [f[o] EXCEPT !.pending = @ \cup {local[c].call}]
        BY <1>1, <3>1, <3>2
      <3>6. services'[o].pending = f[o].pending \cup {local[c].call}
        BY <1>1, <3>3, <3>5 DEF ServiceEntry
      <3> QED BY <3>2, <3>4, <3>6
    <2>2. CASE CallQueue(c)
      BY <1>1, <2>2 DEF CallQueue, ServiceEntry
    <2> QED BY <2>1, <2>2
  <1> QED BY <1>1, <1>2

\* ... where the call waits ...
LEMMA CallQueueFate ==
  ASSUME Inv, NEW c \in Conn, CallAutoStart(c) \/ CallQueue(c), NEW id \in CallId
  PROVE  Fate(id) /\ StaysRouted(id)
  <1> DEFINE o == local[c].object
  <1>1. /\ pc[c] = "call_service" /\ UNCHANGED <<todo, chan, answered, origin, calls>>
        /\ Return(c)
    BY DEF CallAutoStart, CallQueue, conn, world, hist
  <1>2. /\ local[c].call \in CallId /\ o \in Object
        /\ local \in [Conn -> Local] /\ services \in [Object -> ServiceEntry]
        /\ out' = out
        /\ \A d \in Conn : local'[d] = IF d = c THEN NoLocal ELSE local[d]
    <2>1. local[c].call \in CallId /\ o \in Object
      BY <1>1, CallHandled
    <2>2. local \in [Conn -> Local] /\ services \in [Object -> ServiceEntry]
      BY CallTypes DEF Inv
    <2> QED BY <1>1, <2>1, <2>2 DEF Return, Continue
  <1>3. \A p \in Object : services'[p].pending =
          IF p = o THEN services[p].pending \cup {local[c].call} ELSE services[p].pending
    BY QueuedMore DEF Inv
  <1> HIDE DEF o
  <1>4. CASE id # local[c].call
    <2>1. ElsewhereAlone(id)
      BY <1>1, <1>3, <1>4 DEF ElsewhereAlone
    <2>2. Quiet(id)
      BY <1>1, <1>4, <2>1, OtherCalls
    <2> QED BY <2>2, QuietFate
  <1>5. CASE id = local[c].call
    <2>1. Cell(id, "handler", c, 0) /\ Served(id) /\ Once(id) /\ id # Nil /\ NoLocal.call = Nil
      BY <1>1, <1>5, CallHandled, ConstantAssumption
         DEF ConstantAssumption, Inv, CallInv, PlaceInv, NoLocal
    <2>2. PICK q \in Object : q = o
      BY <1>2
    <2>3. Cell(id, "pending", q, 0)'
      BY <1>3, <1>5, <2>2 DEF Cell
    <2>4. \A m, z, n : Cell(id, m, z, n)' =>
            \/ m = "pending" /\ z = q /\ n = 0
            \/ Cell(id, m, z, n) /\ ~(m = "handler" /\ z = c /\ n = 0)
      <3> SUFFICES ASSUME NEW m, NEW z, NEW n, Cell(id, m, z, n)'
                   PROVE  \/ m = "pending" /\ z = q /\ n = 0
                          \/ Cell(id, m, z, n) /\ ~(m = "handler" /\ z = c /\ n = 0)
        OBVIOUS
      <3>1. CASE m = "handler"
        BY <1>2, <2>1, <3>1 DEF Cell
      <3>2. CASE m = "pending"
        BY <1>3, <2>2, <3>2 DEF Cell
      <3>3. CASE m \notin {"handler", "pending"}
        BY <1>1, <1>2, <3>3 DEF Cell
      <3> QED BY <3>1, <3>2, <3>3
    <2>5. Onward(id, Stage("handler", c, 0), With("handler", c, 0),
                 Stage("pending", q, 0)', With("pending", q, 0)')
      BY DEF Onward, Stage, With
    <2>6. Moves(id, "handler", c, 0, "pending", q, 0)
      BY <1>1, <2>1, <2>3, <2>4, <2>5, MovesOnly
    <2> QED BY <1>1, <2>1, <2>6, MovesRouted
  <1> QED BY <1>4, <1>5

\* ... is forgotten, because the service runs without its object ...
LEMMA CallRunningFate ==
  ASSUME Inv, NEW c \in Conn, CallRunning(c), NEW id \in CallId
  PROVE  Fate(id) /\ StaysRouted(id)
  <1>1. /\ pc[c] = "call_service" /\ UNCHANGED <<services, todo, chan, answered, origin, calls>>
        /\ Return(c) /\ services[local[c].object].state = "Running"
    BY DEF CallRunning, maps, conn, world, hist
  <1>2. /\ local[c].call \in CallId /\ local[c].object \in Object
        /\ out' = out
        /\ \A d \in Conn : local'[d] = IF d = c THEN NoLocal ELSE local[d]
    <2>1. local[c].call \in CallId /\ local[c].object \in Object /\ local \in [Conn -> Local]
      BY <1>1, CallHandled, CallTypes DEF Inv
    <2> QED BY <1>1, <2>1 DEF Return, Continue
  <1>3. ElsewhereAlone(id)
    BY <1>1 DEF ElsewhereAlone
  <1>4. CASE id # local[c].call
    <2>1. Quiet(id)
      BY <1>1, <1>3, <1>4, OtherCalls
    <2> QED BY <2>1, QuietFate
  <1>5. CASE id = local[c].call
    <2>1. Cell(id, "handler", c, 0) /\ Once(id) /\ id # Nil /\ NoLocal.call = Nil
      BY <1>1, <1>5, CallHandled, ConstantAssumption
         DEF ConstantAssumption, Inv, CallInv, PlaceInv, NoLocal
    <2>2. \A m, z, n : Cell(id, m, z, n)' =>
            Cell(id, m, z, n) /\ ~(m = "handler" /\ z = c /\ n = 0)
      BY <1>1, <1>2, <2>1 DEF Cell
    <2>3. Queueing
      BY <1>1, <1>2 DEF Inv, CallInv, QueueInv
    <2>4. Leaves(id, "handler", c, 0)
      BY <1>1, <2>1, <2>2, <2>3, LeavesOnly DEF Stage
    <2> QED BY <2>4, LeavesRouted
  <1> QED BY <1>4, <1>5

\* ... or is refused.
LEMMA CallUnknownFate ==
  ASSUME Inv, NEW c \in Conn, CallUnknown(c), NEW id \in CallId
  PROVE  Fate(id) /\ StaysRouted(id)
  <1> DEFINE s == To(c, ErrorMsg(local[c].call, local[c].object))
  <1>1. /\ pc[c] = "call_service" /\ UNCHANGED <<services, todo, chan, answered, origin, calls>>
        /\ SendAll(c, <<s>>)
    BY DEF CallUnknown, conn, world, hist
  <1>2. /\ local[c].call \in CallId /\ origin[local[c].call] = c
    BY <1>1, CallHandled
  <1>3. ElsewhereAlone(id)
    BY <1>1 DEF ElsewhereAlone
  <1>4. /\ About(s.msg, id) <=> id = local[c].call
        /\ IsReply(s.msg) /\ s.to = c
    BY Abouts, Replies
  <1> HIDE DEF s
  <1>5. CASE id # local[c].call
    <2>1. Quiet(id)
      BY <1>1, <1>3, <1>4, <1>5, OtherCalls
    <2> QED BY <2>1, QuietFate
  <1>6. CASE id = local[c].call
    <2>1. Onward(id, "accepted", Nil, IF IsReply(s.msg) THEN "replied" ELSE "assigned", s.to)
      BY <1>2, <1>4, <1>6 DEF Onward
    <2>2. Moves(id, "handler", c, 0, "out", c, 1)
      BY <1>1, <1>3, <1>4, <1>6, <2>1, HandlerSends
    <2>3. Served(id)
      BY <1>1, <1>6, CallHandled
    <2> QED BY <1>1, <2>2, <2>3, MovesRouted
  <1> QED BY <1>5, <1>6

-----------------------------------------------------------------------------
(* The way to the worker and back.                                         *)

\* The elements of a queue after the head is taken ...
LEMMA TailElements ==
  ASSUME NEW S, NEW s \in Seq(S), s # <<>>
  PROVE  /\ Tail(s) \in Seq(S) /\ Head(s) \in S /\ Head(s) = s[1]
         /\ 1 \in DOMAIN s /\ Len(Tail(s)) = Len(s) - 1 /\ Len(s) \in Nat
         /\ \A i \in DOMAIN Tail(s) : /\ i \in Nat /\ i # 0
                                      /\ i + 1 \in DOMAIN s /\ Tail(s)[i] = s[i + 1]
         /\ \A i \in DOMAIN s : i = 1 \/ \E j \in DOMAIN Tail(s) : Tail(s)[j] = s[i]
  <1>1. \A i \in DOMAIN s : i # 1 => i - 1 \in DOMAIN Tail(s) /\ Tail(s)[i - 1] = s[i]
    OBVIOUS
  <1>2. \A i \in DOMAIN s : i = 1 \/ \E j \in DOMAIN Tail(s) : Tail(s)[j] = s[i]
    BY <1>1
  <1> QED BY <1>2

\* ... and after one is added.
LEMMA AppendElements ==
  ASSUME NEW S, NEW s \in Seq(S), NEW e \in S
  PROVE  /\ Append(s, e) \in Seq(S) /\ Len(s) \in Nat
         /\ Len(s) + 1 \in DOMAIN Append(s, e) /\ Append(s, e)[Len(s) + 1] = e
         /\ Len(s) + 1 \notin DOMAIN s
         /\ \A i \in DOMAIN Append(s, e) :
              \/ i \in DOMAIN s /\ Append(s, e)[i] = s[i]
              \/ i = Len(s) + 1
         /\ \A i \in DOMAIN s : i \in DOMAIN Append(s, e) /\ Append(s, e)[i] = s[i]
  OBVIOUS

\* handle_response.
LEMMA ResponseFate ==
  ASSUME Inv, NEW c \in Conn, NEW k \in CallId, Response(c, k), NEW id \in CallId
  PROVE  Fate(id) /\ StaysRouted(id)
  <1> DEFINE s == To(calls[k], ResultMsg(k))
  <1>1. /\ pc[c] = "idle" /\ k \in todo[c] /\ UNCHANGED <<services, chan, answered, origin>>
        /\ todo' = [todo EXCEPT ![c] = @ \ {k}] /\ calls' = [calls EXCEPT ![k] = Nil]
        /\ calls[k] # Nil => SendAll(c, <<s>>)
        /\ calls[k] = Nil => Return(c)
    BY DEF Response, conn, world, hist
  <1>2. /\ local \in [Conn -> Local] /\ todo \in [Conn -> SUBSET CallId]
        /\ calls \in [CallId -> Conn \cup {Nil}] /\ out \in [Conn -> Seq(Send)]
        /\ pc \in [Conn -> ReaderPc] /\ origin \in [CallId -> Conn \cup {Nil}]
        /\ NoLocal.call = Nil /\ id # Nil
    BY CallTypes, ConstantAssumption DEF ConstantAssumption, Inv, NoLocal
  <1>3. /\ About(s.msg, id) <=> id = k
        /\ IsReply(s.msg) /\ s.to = calls[k]
    BY Abouts, Replies
  <1>4. local[c].call = Nil /\ out[c] = <<>>
    BY <1>1 DEF Inv, CallInv, HandlerInv
  <1>5. DOMAIN <<s>> = {1} /\ <<s>>[1] = s
    OBVIOUS
  <1> HIDE DEF s
  <1>6. \A d \in Conn : todo'[d] = IF d = c THEN todo[d] \ {k} ELSE todo[d]
    BY <1>1, <1>2
  <1>7. CASE id # k
    <2>1. ElsewhereAlone(id)
      BY <1>1, <1>6, <1>7 DEF ElsewhereAlone
    <2>2. \A i \in DOMAIN <<s>> : ~About(<<s>>[i].msg, id)
      BY <1>3, <1>5, <1>7
    <2>3. \/ Return(c)
          \/ \E sends : /\ SendAll(c, sends) /\ pc[c] # "send"
                        /\ \A i \in DOMAIN sends : ~About(sends[i].msg, id)
      BY <1>1, <2>2
    <2>4. /\ \A d \in Conn : local'[d].call = id <=> local[d].call = id
          /\ \A d \in Conn : SendsAlone(id, d)
          /\ \A d \in Conn : local[d].call = id /\ pc'[d] = "call_service" => pc[d] = "call_service"
      BY <1>2, <1>4, <2>3, HandlerAlone DEF Inv, CallInv
    <2>5. calls'[id] = calls[id] /\ origin'[id] = origin[id]
      BY <1>1, <1>2, <1>7
    <2>6. Quiet(id)
      BY <2>1, <2>4, <2>5 DEF Quiet, Alone
    <2> QED BY <2>6, QuietFate
  <1>8. ASSUME id = k
        PROVE  /\ Cell(id, "todo", c, 0) /\ Once(id) /\ Served(id) /\ Routed(id)
               /\ origin[id] # Nil /\ actor[origin[id]] # "absent"
    <2>1. Cell(id, "todo", c, 0)
      BY <1>1, <1>8 DEF Cell
    <2>2. Served(id)
      BY <2>1 DEF Served, Stage
    <2> QED BY <2>1, <2>2 DEF Inv, CallInv, PlaceInv, OriginInv
  <1>9. CASE id = k /\ calls[k] # Nil
    <2>1. /\ \A d \in Conn : local'[d] = IF d = c THEN NoLocal ELSE local[d]
          /\ \A d \in Conn : out'[d] = IF d = c THEN <<s>> ELSE out[d]
      BY <1>1, <1>2, <1>9 DEF SendAll
    <2>2. Cell(id, "out", c, 1)'
      BY <1>3, <1>5, <1>9, <2>1 DEF Cell
    <2>3. \A m, z, n : Cell(id, m, z, n)' =>
            \/ m = "out" /\ z = c /\ n = 1
            \/ Cell(id, m, z, n) /\ ~(m = "todo" /\ z = c /\ n = 0)
      <3> SUFFICES ASSUME NEW m, NEW z, NEW n, Cell(id, m, z, n)'
                   PROVE  \/ m = "out" /\ z = c /\ n = 1
                          \/ Cell(id, m, z, n) /\ ~(m = "todo" /\ z = c /\ n = 0)
        OBVIOUS
      <3>1. CASE m = "handler"
        BY <1>2, <2>1, <3>1 DEF Cell
      <3>2. CASE m = "out"
        BY <1>5, <2>1, <3>2 DEF Cell
      <3>3. CASE m = "todo"
        BY <1>6, <1>9, <3>3 DEF Cell
      <3>4. CASE m \notin {"handler", "out", "todo"}
        BY <1>1, <3>4 DEF Cell
      <3> QED BY <3>1, <3>2, <3>3, <3>4
    <2>4. calls[k] = origin[id]
      BY <1>9 DEF Inv, RouteInv
    <2>5. Stage("out", c, 1)' = "replied" /\ With("out", c, 1)' = origin[id]
      BY <1>3, <1>5, <2>1, <2>4 DEF Stage, With
    <2>6. Onward(id, Stage("todo", c, 0), With("todo", c, 0),
                 Stage("out", c, 1)', With("out", c, 1)')
      BY <2>5 DEF Onward, Stage
    <2>7. Moves(id, "todo", c, 0, "out", c, 1)
      BY <1>1, <1>8, <1>9, <2>2, <2>3, <2>6, MovesOnly
    <2> QED BY <2>5, <2>7, MovesRouted
  <1>10. CASE id = k /\ calls[k] = Nil
    <2>1. /\ \A d \in Conn : local'[d] = IF d = c THEN NoLocal ELSE local[d]
          /\ \A d \in Conn : pc'[d] = IF d = c THEN "idle" ELSE pc[d]
          /\ out' = out
      BY <1>1, <1>2, <1>10 DEF Return, Continue
    <2>2. \A m, z, n : Cell(id, m, z, n)' =>
            Cell(id, m, z, n) /\ ~(m = "todo" /\ z = c /\ n = 0)
      <3> SUFFICES ASSUME NEW m, NEW z, NEW n, Cell(id, m, z, n)'
                   PROVE  Cell(id, m, z, n) /\ ~(m = "todo" /\ z = c /\ n = 0)
        OBVIOUS
      <3>1. CASE m = "handler"
        BY <1>2, <2>1, <3>1 DEF Cell
      <3>2. CASE m = "todo"
        BY <1>6, <1>10, <3>2 DEF Cell
      <3>3. CASE m \notin {"handler", "todo"}
        BY <1>1, <2>1, <3>3 DEF Cell
      <3> QED BY <3>1, <3>2, <3>3
    <2>3. origin[id] \in Broken'
      <3>1. origin[id] \in GoneFromCalls
        BY <1>8, <1>10 DEF Routed
      <3>2. origin[id] \in Conn /\ actor[origin[id]] \in {"ended", "active_calls", "services"}
        BY <1>8, <1>10, <3>1 DEF GoneFromCalls, NotIn
      <3>3. pc[origin[id]] = "done"
        BY <3>2 DEF Inv, LifeInv, ReaderStage
      <3> QED BY <1>1, <2>1, <3>2, <3>3 DEF Broken
    <2>4. Leaves(id, "todo", c, 0)
      BY <1>1, <1>8, <1>10, <2>2, <2>3, LeavesOnly DEF Stage
    <2> QED BY <2>4, LeavesRouted
  <1> QED BY <1>7, <1>9, <1>10

\* A step that takes the head of a queue, K of X, and touches no other cell of
\* the call.
LEMMA ShiftStays ==
  ASSUME NEW id, NEW K, NEW X, TypeInv, TypeInv',
         origin'[id] = origin[id], calls'[id] = calls[id],
         \A d \in Conn : pc'[d] = "call_service" => pc[d] = "call_service",
         \A k, x, i : Cell(id, k, x, i)' =>
           /\ Cell(id, k, x, Shift(k, x, i, K, X))
           /\ Stage(k, x, i)' = Stage(k, x, Shift(k, x, i, K, X))
           /\ With(k, x, i)' = With(k, x, Shift(k, x, i, K, X)),
         \A k, x, i : Cell(id, k, x, i) => \E j : Cell(id, k, x, j)'
  PROVE  Fate(id) /\ StaysRouted(id)
  <1>1. Stays(id, K, X)
    BY DEF Stays
  <1>2. Fate(id)
    BY <1>1 DEF Fate
  <1>3. ASSUME Served(id)' PROVE Served(id)
    <2>1. PICK k, x, i : /\ Cell(id, k, x, i)'
                         /\ \/ k = "pending" \/ Stage(k, x, i)' = "assigned"
                            \/ k = "handler" /\ pc'[x] = "call_service"
      BY <1>3 DEF Served
    <2> DEFINE n == Shift(k, x, i, K, X)
    <2>2. Cell(id, k, x, n) /\ Stage(k, x, i)' = Stage(k, x, n)
      BY <2>1
    <2>3. k = "handler" => x \in Conn
      BY <2>2 DEF Cell
    <2> HIDE DEF n
    <2> QED BY <2>1, <2>2, <2>3 DEF Served
  <1> QED BY <1>2, <1>3 DEF StaysRouted

\* A send.
LEMMA SendNextFate ==
  ASSUME Inv, TypeInv', NEW c \in Conn, SendNext(c), NEW id \in CallId
  PROVE  Fate(id) /\ StaysRouted(id)
  <1>1. /\ pc[c] = "send" /\ out' = [out EXCEPT ![c] = Tail(@)]
        /\ UNCHANGED <<services, todo, answered, origin, calls, local, actor>>
    BY DEF SendNext, world, hist
  <1>2. /\ chan \in [Conn -> Seq(Message)] /\ out \in [Conn -> Seq(Send)]
        /\ pc \in [Conn -> ReaderPc] /\ out[c] # <<>>
    BY <1>1, CallTypes DEF Inv, TypeInv, ReaderInv
  <1>3. PICK s \in Send : s = Head(out[c])
    BY <1>1, <1>2, TailElements
  <1>4. s.to \in Conn /\ s.msg \in Message
    BY SendTypes
  <1> DEFINE d == s.to
             e == Len(chan[d]) + 1
  <1>5. \/ actor[d] = "ended" /\ chan' = chan
        \/ chan' = [chan EXCEPT ![d] = Append(@, s.msg)]
    BY <1>3 DEF SendNext
  <1>6. \A x \in Conn : pc'[x] = pc[x] \/ (x = c /\ pc'[x] = "idle")
    BY <1>1, <1>2 DEF SendNext
  <1>7. /\ 1 \in DOMAIN out[c] /\ out[c][1] = s
        /\ \A i \in DOMAIN Tail(out[c]) : /\ i \in Nat /\ i # 0
             /\ i + 1 \in DOMAIN out[c] /\ Tail(out[c])[i] = out[c][i + 1]
        /\ \A i \in DOMAIN out[c] :
             i = 1 \/ \E j \in DOMAIN Tail(out[c]) : Tail(out[c])[j] = out[c][i]
    BY <1>2, <1>3, TailElements
  <1>8. \A x \in Conn : out'[x] = IF x = c THEN Tail(out[c]) ELSE out[x]
    BY <1>1, <1>2
  <1>9. \A x \in Conn : \A i \in DOMAIN chan'[x] :
          \/ i \in DOMAIN chan[x] /\ chan'[x][i] = chan[x][i]
          \/ x = d /\ i = e /\ chan'[x][i] = s.msg
    <2>1. CASE chan' = chan
      BY <2>1
    <2>2. CASE chan' = [chan EXCEPT ![d] = Append(@, s.msg)]
      <3>1. /\ chan[d] \in Seq(Message)
            /\ \A x \in Conn : chan'[x] = IF x = d THEN Append(chan[d], s.msg) ELSE chan[x]
        BY <1>2, <1>4, <2>2
      <3>2. \A i \in DOMAIN Append(chan[d], s.msg) :
              \/ i \in DOMAIN chan[d] /\ Append(chan[d], s.msg)[i] = chan[d][i]
              \/ i = Len(chan[d]) + 1 /\ Append(chan[d], s.msg)[i] = s.msg
        BY <1>4, <3>1, AppendElements
      <3> HIDE DEF d
      <3> QED BY <3>1, <3>2
    <2> QED BY <1>5, <2>1, <2>2
  <1>10. \A x \in Conn : \A i \in DOMAIN chan[x] : i \in DOMAIN chan'[x] /\ chan'[x][i] = chan[x][i]
    <2>1. CASE chan' = chan
      BY <2>1
    <2>2. CASE chan' = [chan EXCEPT ![d] = Append(@, s.msg)]
      <3>1. /\ chan[d] \in Seq(Message)
            /\ \A x \in Conn : chan'[x] = IF x = d THEN Append(chan[d], s.msg) ELSE chan[x]
        BY <1>2, <1>4, <2>2
      <3>2. \A i \in DOMAIN chan[d] : /\ i \in DOMAIN Append(chan[d], s.msg)
                                      /\ Append(chan[d], s.msg)[i] = chan[d][i]
        BY <1>4, <3>1, AppendElements
      <3> HIDE DEF d
      <3> QED BY <3>1, <3>2
    <2> QED BY <1>5, <2>1, <2>2
  <1>11. d \in Conn /\ (chan' = chan \/ (e \in DOMAIN chan'[d] /\ chan'[d][e] = s.msg))
    <2>1. ASSUME chan' = [chan EXCEPT ![d] = Append(@, s.msg)]
          PROVE  e \in DOMAIN chan'[d] /\ chan'[d][e] = s.msg
      <3>1. chan[d] \in Seq(Message) /\ chan'[d] = Append(chan[d], s.msg)
        BY <1>2, <1>4, <2>1
      <3> QED BY <1>4, <3>1, AppendElements
    <2> QED BY <1>4, <1>5, <2>1
  <1>12. PICK dd, ee : dd = d /\ ee = e
    OBVIOUS
  <1> HIDE DEF d, e
  <1>13. CASE ~About(s.msg, id)
    <2> DEFINE Sh(k, x, i) == Shift(k, x, i, "out", c)
    <2>1. ASSUME NEW k, NEW x, NEW i, Cell(id, k, x, i)'
          PROVE  /\ Cell(id, k, x, Sh(k, x, i))
                 /\ Stage(k, x, i)' = Stage(k, x, Sh(k, x, i))
                 /\ With(k, x, i)' = With(k, x, Sh(k, x, i))
      <3>1. CASE k = "out" /\ x = c
        <4>1. i \in DOMAIN Tail(out[c]) /\ out'[c][i] = out[c][i + 1] /\ i + 1 \in DOMAIN out[c]
          BY <1>7, <1>8, <2>1, <3>1 DEF Cell
        <4>2. Sh(k, x, i) = i + 1
          BY <3>1 DEF Shift
        <4> HIDE DEF Sh
        <4> QED BY <2>1, <3>1, <4>1, <4>2 DEF Cell, Stage, With
      <3>2. CASE ~(k = "out" /\ x = c)
        <4>1. Sh(k, x, i) = i
          BY <3>2 DEF Shift
        <4> HIDE DEF Sh
        <4>2. CASE k = "out"
          BY <1>8, <2>1, <3>2, <4>1, <4>2 DEF Cell, Stage, With
        <4>3. CASE k = "chan"
          BY <1>9, <1>13, <2>1, <4>1, <4>3 DEF Cell, Stage, With
        <4>4. CASE k \notin {"out", "chan"}
          BY <1>1, <2>1, <4>1, <4>4 DEF Cell, Stage, With
        <4> QED BY <4>2, <4>3, <4>4
      <3> QED BY <3>1, <3>2
    <2>2. ASSUME NEW k, NEW x, NEW i, Cell(id, k, x, i) PROVE \E j : Cell(id, k, x, j)'
      <3>1. CASE k = "out" /\ x = c
        <4>1. i # 1 /\ i \in DOMAIN out[c]
          BY <1>7, <1>13, <2>2, <3>1 DEF Cell
        <4>2. PICK j : j \in DOMAIN Tail(out[c]) /\ Tail(out[c])[j] = out[c][i]
          BY <1>7, <4>1
        <4>3. About(out[c][i].msg, id)
          BY <2>2, <3>1 DEF Cell
        <4>4. Cell(id, "out", c, j)'
          BY <1>8, <4>2, <4>3 DEF Cell
        <4> QED BY <3>1, <4>4
      <3>2. CASE ~(k = "out" /\ x = c)
        <4>1. Cell(id, k, x, i)'
          <5>1. CASE k = "out"
            BY <1>8, <2>2, <3>2, <5>1 DEF Cell
          <5>2. CASE k = "chan"
            BY <1>10, <2>2, <5>2 DEF Cell
          <5>3. CASE k \notin {"out", "chan"}
            BY <1>1, <2>2, <5>3 DEF Cell
          <5> QED BY <5>1, <5>2, <5>3
        <4> QED BY <4>1
      <3> QED BY <3>1, <3>2
    <2>3. \A x \in Conn : pc'[x] = "call_service" => pc[x] = "call_service"
      BY <1>6
    <2> HIDE DEF Sh
    <2>4. \A k, x, i : Cell(id, k, x, i)' =>
            /\ Cell(id, k, x, Shift(k, x, i, "out", c))
            /\ Stage(k, x, i)' = Stage(k, x, Shift(k, x, i, "out", c))
            /\ With(k, x, i)' = With(k, x, Shift(k, x, i, "out", c))
      BY <2>1 DEF Sh
    <2> QED BY <1>1, <2>2, <2>3, <2>4, ShiftStays DEF Inv
  <1>14. CASE About(s.msg, id)
    <2>1. Cell(id, "out", c, 1) /\ Once(id)
      BY <1>7, <1>14 DEF Cell, Inv, CallInv, PlaceInv
    <2>2. \A k, x, i : Cell(id, k, x, i)' => k = "chan" /\ x = dd /\ i = ee /\ chan' # chan
      <3> SUFFICES ASSUME NEW k, NEW x, NEW i, Cell(id, k, x, i)'
                   PROVE  k = "chan" /\ x = dd /\ i = ee /\ chan' # chan
        OBVIOUS
      <3>1. CASE k = "out"
        <4>1. CASE x = c
          <5>1. Cell(id, "out", c, i + 1) /\ i \in Nat /\ i # 0
            BY <1>7, <1>8, <3>1, <4>1 DEF Cell
          <5>2. i + 1 = 1
            BY <2>1, <5>1 DEF Once
          <5> QED BY <5>1, <5>2
        <4>2. CASE x # c
          <5>1. Cell(id, "out", x, i)
            BY <1>8, <3>1, <4>2 DEF Cell
          <5> QED BY <2>1, <4>2, <5>1 DEF Once
        <4> QED BY <4>1, <4>2
      <3>2. CASE k = "chan"
        <4>1. ~Cell(id, "chan", x, i)
          BY <2>1 DEF Once
        <4> QED BY <1>9, <1>12, <3>2, <4>1 DEF Cell
      <3>3. CASE k \notin {"out", "chan"}
        <4>1. Cell(id, k, x, i)
          BY <1>1, <3>3 DEF Cell
        <4> QED BY <2>1, <3>3, <4>1 DEF Once
      <3> QED BY <3>1, <3>2, <3>3
    <2>3. CASE chan' # chan
      <3>1. Cell(id, "chan", dd, ee)'
        BY <1>11, <1>12, <1>14, <2>3 DEF Cell
      <3>2. /\ Stage("chan", dd, ee)' = Stage("out", c, 1)
            /\ With("chan", dd, ee)' = With("out", c, 1)
        BY <1>7, <1>11, <1>12, <2>3 DEF Stage, With, d
      <3>3. Onward(id, Stage("out", c, 1), With("out", c, 1), Stage("chan", dd, ee)', With("chan", dd, ee)')
        BY <3>2 DEF Onward
      <3>4. Moves(id, "out", c, 1, "chan", dd, ee)
        BY <1>1, <2>1, <2>2, <3>1, <3>3 DEF Moves
      <3> QED BY <1>1, <3>2, <3>4, MovesRouted
    <2>4. CASE chan' = chan
      <3>1. actor[d] = "ended"
        <4>1. ASSUME chan' = [chan EXCEPT ![d] = Append(@, s.msg)] PROVE FALSE
          <5>1. chan[d] \in Seq(Message) /\ chan[d] = Append(chan[d], s.msg)
            BY <1>2, <1>11, <2>4, <4>1
          <5>2. /\ Len(chan[d]) + 1 \in DOMAIN Append(chan[d], s.msg)
                /\ Len(chan[d]) + 1 \notin DOMAIN chan[d]
            BY <1>4, <5>1, AppendElements
          <5> QED BY <5>1, <5>2
        <4> QED BY <1>5, <4>1
      <3>2. d \in Broken'
        <4>1. pc[d] = "done"
          BY <1>11, <3>1 DEF Inv, LifeInv, ReaderStage
        <4>2. pc'[d] = "done"
          BY <1>1, <1>6, <1>11, <4>1
        <4> QED BY <1>11, <4>2 DEF Broken
      <3>3. With("out", c, 1) = d /\ Stage("out", c, 1) \in {"assigned", "replied"}
        BY <1>7 DEF With, Stage, d
      <3>4. Leaves(id, "out", c, 1)
        BY <1>1, <2>1, <2>2, <2>4, <3>2, <3>3 DEF Leaves
      <3> QED BY <3>4, LeavesRouted
    <2> QED BY <2>3, <2>4
  <1> QED BY <1>13, <1>14

\* The writer loop takes a message: it goes to the peer, or is lost with it.
LEMMA WriterFate ==
  ASSUME Inv, TypeInv', NEW c \in Conn, WriterWrite(c) \/ WriterFail(c), NEW id \in CallId
  PROVE  Fate(id) /\ StaysRouted(id)
  <1>1. /\ chan[c] # <<>> /\ chan' = [chan EXCEPT ![c] = Tail(@)]
        /\ UNCHANGED <<services, out, origin, calls, local, pc, peer>>
    BY DEF WriterWrite, WriterFail, maps, task, world, hist
  <1>2. /\ chan \in [Conn -> Seq(Message)] /\ todo \in [Conn -> SUBSET CallId]
        /\ writer \in [Conn -> {"writing", "stopped"}]
    BY CallTypes DEF Inv, TypeInv, TypeOK
  <1>3. PICK m \in Message : m = Head(chan[c])
    BY <1>1, <1>2, TailElements
  <1>4. /\ 1 \in DOMAIN chan[c] /\ chan[c][1] = m
        /\ \A i \in DOMAIN Tail(chan[c]) : /\ i \in Nat /\ i # 0
             /\ i + 1 \in DOMAIN chan[c] /\ Tail(chan[c])[i] = chan[c][i + 1]
        /\ \A i \in DOMAIN chan[c] :
             i = 1 \/ \E j \in DOMAIN Tail(chan[c]) : Tail(chan[c])[j] = chan[c][i]
    BY <1>1, <1>2, <1>3, TailElements
  <1>5. \A x \in Conn : chan'[x] = IF x = c THEN Tail(chan[c]) ELSE chan[x]
    BY <1>1, <1>2
  <1>6. \/ /\ writer'[c] = "stopped" /\ UNCHANGED <<todo, answered>>
        \/ /\ \A x \in Conn : todo'[x] =
                IF x = c /\ m.type = "Call" /\ peer[c] = "open" THEN todo[c] \cup {m.call} ELSE todo[x]
           /\ answered' = IF m.type \in {"Result", "Error"} THEN answered \cup {m.call} ELSE answered
    <2>1. CASE WriterFail(c)
      BY <1>2, <2>1 DEF WriterFail, world, hist
    <2>2. CASE WriterWrite(c)
      BY <1>2, <1>3, <2>2 DEF WriterWrite
    <2> QED BY <2>1, <2>2
  <1>7. CASE ~About(m, id)
    <2>1. /\ \A x \in Conn : id \in todo'[x] <=> id \in todo[x]
          /\ id \in answered' <=> id \in answered
      BY <1>6, <1>7 DEF About
    <2>2. \A k, x, i : Cell(id, k, x, i)' =>
            /\ Cell(id, k, x, Shift(k, x, i, "chan", c))
            /\ Stage(k, x, i)' = Stage(k, x, Shift(k, x, i, "chan", c))
            /\ With(k, x, i)' = With(k, x, Shift(k, x, i, "chan", c))
      <3> SUFFICES ASSUME NEW k, NEW x, NEW i, Cell(id, k, x, i)',
                          NEW n, n = Shift(k, x, i, "chan", c)
                   PROVE  /\ Cell(id, k, x, n)
                          /\ Stage(k, x, i)' = Stage(k, x, n)
                          /\ With(k, x, i)' = With(k, x, n)
        OBVIOUS
      <3>1. CASE k = "chan" /\ x = c
        <4>1. i \in DOMAIN Tail(chan[c]) /\ chan'[c][i] = chan[c][i + 1] /\ i + 1 \in DOMAIN chan[c]
          BY <1>4, <1>5, <3>1 DEF Cell
        <4>2. n = i + 1
          BY <3>1 DEF Shift
        <4> QED BY <3>1, <4>1, <4>2 DEF Cell, Stage, With
      <3>2. CASE ~(k = "chan" /\ x = c)
        <4>1. n = i
          BY <3>2 DEF Shift
        <4>2. CASE k = "chan"
          BY <1>5, <3>2, <4>1, <4>2 DEF Cell, Stage, With
        <4>3. CASE k # "chan"
          BY <1>1, <2>1, <4>1, <4>3 DEF Cell, Stage, With
        <4> QED BY <4>2, <4>3
      <3> QED BY <3>1, <3>2
    <2>3. \A k, x, i : Cell(id, k, x, i) => \E j : Cell(id, k, x, j)'
      <3> SUFFICES ASSUME NEW k, NEW x, NEW i, Cell(id, k, x, i)
                   PROVE  \E j : Cell(id, k, x, j)'
        OBVIOUS
      <3>1. CASE k = "chan" /\ x = c
        <4>1. i # 1 /\ i \in DOMAIN chan[c]
          BY <1>4, <1>7, <3>1 DEF Cell
        <4>2. PICK j : j \in DOMAIN Tail(chan[c]) /\ Tail(chan[c])[j] = chan[c][i]
          BY <1>4, <4>1
        <4>3. About(chan[c][i], id)
          BY <3>1 DEF Cell
        <4>4. Cell(id, "chan", c, j)'
          BY <1>5, <4>2, <4>3 DEF Cell
        <4> QED BY <3>1, <4>4
      <3>2. CASE ~(k = "chan" /\ x = c)
        <4>1. Cell(id, k, x, i)'
          BY <1>1, <1>5, <2>1, <3>2 DEF Cell
        <4> QED BY <4>1
      <3> QED BY <3>1, <3>2
    <2> QED BY <1>1, <2>2, <2>3, ShiftStays DEF Inv
  <1>8. CASE About(m, id)
    <2>1. Cell(id, "chan", c, 1) /\ Once(id) /\ id = m.call
      BY <1>4, <1>8 DEF Cell, About, Inv, CallInv, PlaceInv
    <2>2. \A x, i : ~Cell(id, "chan", x, i)'
      <3> SUFFICES ASSUME NEW x, NEW i, Cell(id, "chan", x, i)' PROVE FALSE
        OBVIOUS
      <3>1. CASE x = c
        <4>1. Cell(id, "chan", c, i + 1) /\ i \in Nat /\ i # 0
          BY <1>4, <1>5, <3>1 DEF Cell
        <4>2. i + 1 = 1
          BY <2>1, <4>1 DEF Once
        <4> QED BY <4>1, <4>2
      <3>2. CASE x # c
        <4>1. Cell(id, "chan", x, i)
          BY <1>5, <3>2 DEF Cell
        <4> QED BY <2>1, <3>2, <4>1 DEF Once
      <3> QED BY <3>1, <3>2
    <2>3. \A k, x, i : Cell(id, k, x, i)' =>
            \/ k = "todo" /\ x = c /\ i = 0 /\ id \in todo'[c] /\ id \notin todo[c]
            \/ k = "caller" /\ x = Nil /\ i = 0 /\ id \in answered' /\ id \notin answered
      <3> SUFFICES ASSUME NEW k, NEW x, NEW i, Cell(id, k, x, i)'
                   PROVE  \/ k = "todo" /\ x = c /\ i = 0 /\ id \in todo'[c] /\ id \notin todo[c]
                          \/ k = "caller" /\ x = Nil /\ i = 0 /\ id \in answered' /\ id \notin answered
        OBVIOUS
      <3>0. k # "chan" => ~Cell(id, k, x, i)
        BY <2>1 DEF Once
      <3>1. CASE k = "todo"
        BY <1>6, <3>0, <3>1 DEF Cell
      <3>2. CASE k = "caller"
        BY <1>6, <3>0, <3>2 DEF Cell
      <3>3. CASE k \notin {"todo", "caller"}
        BY <1>1, <2>2, <3>0, <3>3 DEF Cell
      <3> QED BY <3>1, <3>2, <3>3
    <2>4. With("chan", c, 1) = c
      BY DEF With
    <2>5. Stage("chan", c, 1) = IF IsReply(m) THEN "replied" ELSE "assigned"
      BY <1>4 DEF Stage
    <2>6. CASE writer'[c] = "stopped" /\ UNCHANGED <<todo, answered>>
      <3>1. c \in Broken'
        BY <2>6 DEF Broken
      <3>2. Leaves(id, "chan", c, 1)
        BY <1>1, <2>1, <2>3, <2>4, <2>5, <2>6, <3>1 DEF Leaves
      <3> QED BY <3>2, LeavesRouted
    <2>7. CASE /\ \A x \in Conn : todo'[x] =
                    IF x = c /\ m.type = "Call" /\ peer[c] = "open" THEN todo[c] \cup {m.call} ELSE todo[x]
               /\ answered' = IF m.type \in {"Result", "Error"} THEN answered \cup {m.call} ELSE answered
      <3>1. CASE IsReply(m)
        <4>1. answered' = answered \cup {id} /\ m.type # "Call"
          BY <2>1, <2>7, <3>1 DEF IsReply
        <4>2. Cell(id, "caller", Nil, 0)'
          BY <4>1 DEF Cell
        <4>3. \A k, x, i : Cell(id, k, x, i)' => k = "caller" /\ x = Nil /\ i = 0
          BY <2>3, <2>7, <4>1
        <4>4. origin[id] = c
          BY <1>4, <2>1, <3>1 DEF Inv, RouteInv, ReplyToOrigin
        <4>5. Stage("caller", Nil, 0)' = "answered" /\ With("caller", Nil, 0)' = Nil
          BY DEF Stage, With
        <4>6. Onward(id, Stage("chan", c, 1), With("chan", c, 1),
                     Stage("caller", Nil, 0)', With("caller", Nil, 0)')
          BY <2>4, <2>5, <3>1, <4>4, <4>5 DEF Onward
        <4>7. Moves(id, "chan", c, 1, "caller", Nil, 0)
          BY <1>1, <2>1, <4>2, <4>3, <4>6 DEF Moves
        <4> QED BY <4>5, <4>7, MovesRouted
      <3>2. CASE ~IsReply(m) /\ peer[c] = "open"
        <4>1. m.type = "Call" /\ m.type \notin {"Result", "Error"}
          BY <1>8, <3>2 DEF IsReply, About
        <4>2. id \in todo'[c] /\ answered' = answered
          BY <2>1, <2>7, <3>2, <4>1
        <4>3. Cell(id, "todo", c, 0)'
          BY <4>2 DEF Cell
        <4>4. \A k, x, i : Cell(id, k, x, i)' => k = "todo" /\ x = c /\ i = 0
          BY <2>3, <4>2
        <4>5. Stage("todo", c, 0)' = "assigned" /\ With("todo", c, 0)' = c
          BY DEF Stage, With
        <4>6. Onward(id, Stage("chan", c, 1), With("chan", c, 1),
                     Stage("todo", c, 0)', With("todo", c, 0)')
          BY <2>4, <2>5, <3>2, <4>5 DEF Onward
        <4>7. Moves(id, "chan", c, 1, "todo", c, 0)
          BY <1>1, <2>1, <4>3, <4>4, <4>6 DEF Moves
        <4> QED BY <1>1, <2>5, <3>2, <4>5, <4>7, MovesRouted
      <3>3. CASE ~IsReply(m) /\ peer[c] # "open"
        <4>1. m.type = "Call" /\ m.type \notin {"Result", "Error"}
          BY <1>8, <3>3 DEF IsReply, About
        <4>2. (\A x \in Conn : todo'[x] = todo[x]) /\ answered' = answered
          BY <2>7, <3>3, <4>1
        <4>3. c \in Broken'
          <5>1. peer[c] = "closed"
            BY <3>3 DEF Inv, TypeInv, TypeOK
          <5> QED BY <1>1, <5>1 DEF Broken
        <4>4. Leaves(id, "chan", c, 1)
          BY <1>1, <2>1, <2>3, <2>4, <2>5, <4>2, <4>3 DEF Leaves
        <4> QED BY <4>4, LeavesRouted
      <3> QED BY <3>1, <3>2, <3>3
    <2> QED BY <1>6, <2>6, <2>7
  <1> QED BY <1>7, <1>8

-----------------------------------------------------------------------------
(* The queue of a service.                                                 *)

\* An ordering visits every element once.
LEMMA OrderingsOnce ==
  ASSUME NEW S, IsFiniteSet(S), NEW q \in Orderings(S)
  PROVE  \A i, j \in DOMAIN q : q[i] = q[j] => i = j
  <1> DEFINE n == Cardinality(S)
  <1>1. /\ n \in Nat /\ q \in [1..n -> S] /\ \A d \in S : \E i \in 1..n : q[i] = d
    BY FS_CardinalityType DEF Orderings
  <1>2. IsFiniteSet(1..n) /\ Cardinality(1..n) = n
    BY <1>1, FS_Interval
  <1>3. q \in Surjection(1..n, S)
    BY <1>1 DEF Surjection
  <1>4. q \in Injection(1..n, S)
    BY <1>2, <1>3, FS_SurjSameCardinalityImpliesInj
  <1> QED BY <1>1, <1>4 DEF Injection, IsInjective

\* What a process that registers is sent: the waiting calls, each once, and
\* nothing else about a call.
LEMMA TakenCalls ==
  ASSUME TypeInv, NEW c \in Conn, RegisterObjectServices(c)
  PROVE  \E o, s, q :
           /\ o \in Object /\ o = local[c].object /\ SendAll(c, s)
           /\ \A i \in DOMAIN q : q[i] \in services[o].pending
           /\ \A id \in services[o].pending : \E i \in DOMAIN q : q[i] = id
           /\ \A i, j \in DOMAIN q : q[i] = q[j] => i = j
           /\ \A i \in DOMAIN q : i \in DOMAIN s /\ s[i] = To(c, CallMsg(q[i]))
           /\ \A i \in DOMAIN s : i \in DOMAIN q \/ s[i] = To(c, RegisteredMsg(o))
  <1>1. PICK o \in Object : o = local[c].object
    BY DEF TypeInv, ReaderInv, RegisterObjectServices
  <1> DEFINE P == services[o].pending
             sends(q) == [i \in DOMAIN q |-> To(c, CallMsg(q[i]))] \o <<To(c, RegisteredMsg(o))>>
  <1>2. PICK q \in Orderings(P) : SendAll(c, sends(q))
    BY <1>1 DEF RegisterObjectServices
  <1>3. IsFiniteSet(P)
    <2>1. P \subseteq CallId
      BY CallTypes DEF ServiceEntry
    <2> QED BY <2>1, FS_Subset, ConstantAssumption DEF ConstantAssumption
  <1>4. /\ q \in Seq(P) /\ (\A i \in DOMAIN q : q[i] \in P)
        /\ DOMAIN q = 1..Len(q) /\ Len(q) \in Nat
    BY <1>2, <1>3, OrderingsType
  <1>5. \A id \in P : \E i \in DOMAIN q : q[i] = id
    BY <1>2 DEF Orderings
  <1>6. \A i, j \in DOMAIN q : q[i] = q[j] => i = j
    BY <1>2, <1>3, OrderingsOnce
  <1>7. PICK s : s = sends(q)
    OBVIOUS
  <1>8. /\ \A i \in DOMAIN q : i \in DOMAIN s /\ s[i] = To(c, CallMsg(q[i]))
        /\ \A i \in DOMAIN s : i \in DOMAIN q \/ s[i] = To(c, RegisteredMsg(o))
    <2> DEFINE f == [i \in DOMAIN q |-> To(c, CallMsg(q[i]))]
               g == <<To(c, RegisteredMsg(o))>>
    <2>1. /\ f \in Seq({To(c, CallMsg(k)) : k \in P})
          /\ g \in Seq({To(c, RegisteredMsg(o))})
      BY <1>4
    <2>2. \A i \in DOMAIN q : f[i] = To(c, CallMsg(q[i]))
      OBVIOUS
    <2>3. Len(f) = Len(q) /\ Len(g) = 1 /\ g[1] = To(c, RegisteredMsg(o))
      BY <1>4
    <2> HIDE DEF f, g
    <2>4. \A i \in DOMAIN (f \o g) : (f \o g)[i] = IF i <= Len(f) THEN f[i] ELSE g[i - Len(f)]
      BY <2>1
    <2>5. Len(f) \in Nat /\ Len(g) \in Nat /\ DOMAIN (f \o g) = 1..(Len(f) + Len(g))
      BY <2>1
    <2>6. s = f \o g
      BY <1>7 DEF f, g
    <2> QED BY <1>4, <2>1, <2>2, <2>3, <2>4, <2>5, <2>6
  <1>9. SendAll(c, s)
    BY <1>2, <1>7
  <1> HIDE DEF sends
  <1> QED BY <1>1, <1>4, <1>5, <1>6, <1>8, <1>9

\* The service's process registers and takes the waiting calls.
LEMMA RegisterObjectServicesFate ==
  ASSUME Inv, NEW c \in Conn, RegisterObjectServices(c), NEW id \in CallId
  PROVE  Fate(id) /\ StaysRouted(id)
  <1>1. PICK o, s, q :
          /\ o \in Object /\ o = local[c].object /\ SendAll(c, s)
          /\ \A i \in DOMAIN q : q[i] \in services[o].pending
          /\ \A k \in services[o].pending : \E i \in DOMAIN q : q[i] = k
          /\ \A i, j \in DOMAIN q : q[i] = q[j] => i = j
          /\ \A i \in DOMAIN q : i \in DOMAIN s /\ s[i] = To(c, CallMsg(q[i]))
          /\ \A i \in DOMAIN s : i \in DOMAIN q \/ s[i] = To(c, RegisteredMsg(o))
    BY TakenCalls DEF Inv
  <1> DEFINE P == services[o].pending
  <1>2. /\ pc[c] = "register_object" /\ SendAll(c, s)
        /\ UNCHANGED <<todo, chan, answered, origin, calls>>
    BY <1>1 DEF RegisterObjectServices, conn, world, hist
  <1>3. /\ local \in [Conn -> Local] /\ services \in [Object -> ServiceEntry]
        /\ out \in [Conn -> Seq(Send)] /\ NoLocal.call = Nil /\ id # Nil
    BY CallTypes, ConstantAssumption DEF ConstantAssumption, Inv, NoLocal
  <1>4. local[c].call = Nil /\ out[c] = <<>>
    BY <1>2 DEF Inv, CallInv, HandlerInv
  <1>5. \A p \in Object : services'[p].pending = IF p = o THEN {} ELSE services[p].pending
    <2>1. services[o].state = "Unknown" => services[o].pending = {}
      BY <1>1 DEF Inv, CallInv, QueueInv
    <2> QED BY <1>1, <1>3, <2>1 DEF RegisterObjectServices
  <1>6. /\ \A d \in Conn : local'[d] = IF d = c THEN NoLocal ELSE local[d]
        /\ \A d \in Conn : out'[d] = IF d = c THEN s ELSE out[d]
    BY <1>2, <1>3 DEF SendAll
  <1>7. \A i \in DOMAIN s : About(s[i].msg, id) => i \in DOMAIN q /\ q[i] = id
    BY <1>1, Abouts, Replies
  <1>8. CASE id \notin P
    <2>1. ElsewhereAlone(id)
      BY <1>2, <1>5, <1>8 DEF ElsewhereAlone
    <2>2. \A i \in DOMAIN s : ~About(s[i].msg, id)
      BY <1>1, <1>7, <1>8
    <2>3. \E ss : /\ SendAll(c, ss) /\ pc[c] # "send"
                  /\ \A i \in DOMAIN ss : ~About(ss[i].msg, id)
      BY <1>2, <2>2
    <2>4. /\ \A d \in Conn : local'[d].call = id <=> local[d].call = id
          /\ \A d \in Conn : SendsAlone(id, d)
          /\ \A d \in Conn : local[d].call = id /\ pc'[d] = "call_service" => pc[d] = "call_service"
      BY <1>3, <1>4, <2>3, HandlerAlone DEF Inv, CallInv
    <2>5. Quiet(id)
      BY <1>2, <2>1, <2>4 DEF Quiet, Alone
    <2> QED BY <2>5, QuietFate
  <1>9. CASE id \in P
    <2>1. PICK i \in DOMAIN q : q[i] = id
      BY <1>1, <1>9
    <2>2. Cell(id, "pending", o, 0) /\ Once(id)
      BY <1>1, <1>9 DEF Cell, Inv, CallInv, PlaceInv
    <2>3. i \in DOMAIN s /\ s[i].msg = CallMsg(id) /\ s[i].to = c
      BY <1>1, <2>1, Replies
    <2>4. Cell(id, "out", c, i)'
      BY <1>6, <2>3, Abouts DEF Cell
    <2>5. \A m, z, n : Cell(id, m, z, n)' =>
            \/ m = "out" /\ z = c /\ n = i
            \/ Cell(id, m, z, n) /\ ~(m = "pending" /\ z = o /\ n = 0)
      <3> SUFFICES ASSUME NEW m, NEW z, NEW n, Cell(id, m, z, n)'
                   PROVE  \/ m = "out" /\ z = c /\ n = i
                          \/ Cell(id, m, z, n) /\ ~(m = "pending" /\ z = o /\ n = 0)
        OBVIOUS
      <3>1. CASE m = "handler"
        BY <1>3, <1>6, <3>1 DEF Cell
      <3>2. CASE m = "pending"
        BY <1>5, <3>2 DEF Cell
      <3>3. CASE m = "out" /\ z = c
        BY <1>1, <1>6, <1>7, <2>1, <3>3 DEF Cell
      <3>4. CASE m = "out" /\ z # c
        BY <1>6, <3>4 DEF Cell
      <3>5. CASE m \notin {"handler", "pending", "out"}
        BY <1>2, <3>5 DEF Cell
      <3> QED BY <3>1, <3>2, <3>3, <3>4, <3>5
    <2>6. Stage("out", c, i)' = "assigned" /\ With("out", c, i)' = c
      BY <1>6, <2>3, Abouts DEF Stage, With
    <2>7. Onward(id, Stage("pending", o, 0), With("pending", o, 0),
                 Stage("out", c, i)', With("out", c, i)')
      BY <2>6 DEF Onward, Stage, With
    <2>8. Moves(id, "pending", o, 0, "out", c, i)
      BY <1>2, <2>2, <2>4, <2>5, <2>7, MovesOnly
    <2>9. Served(id)
      BY <2>2 DEF Served
    <2> QED BY <1>2, <2>8, <2>9, MovesRouted
  <1> QED BY <1>8, <1>9

\* The last step of cleanup_client empties queues and drops a channel.
LEMMA CleanupServicesFate ==
  ASSUME Inv, TypeInv', NEW c \in Conn, CleanupServices(c), NEW id \in CallId
  PROVE  Fate(id) /\ StaysRouted(id)
  <1>1. /\ actor[c] = "services" /\ chan' = [chan EXCEPT ![c] = <<>>]
        /\ peer' = [peer EXCEPT ![c] = "closed"]
        /\ UNCHANGED <<todo, out, answered, origin, calls, local, pc>>
    BY DEF CleanupServices, task, hist
  <1>2. /\ services \in [Object -> ServiceEntry] /\ chan \in [Conn -> Seq(Message)]
        /\ peer \in [Conn -> {"open", "closed"}]
    BY CallTypes DEF Inv, TypeInv, TypeOK
  <1>3. \A o \in Object : services'[o].pending \subseteq services[o].pending
    BY <1>2, EntryFields DEF CleanupServices, Entry
  <1>4. /\ \A d \in Conn : chan'[d] = IF d = c THEN <<>> ELSE chan[d]
        /\ DOMAIN << >> = {}
    BY <1>1, <1>2
  <1>5. c \in Broken'
    BY <1>1, <1>2 DEF Broken
  <1>6. \A k, x, i : Cell(id, k, x, i)' =>
          Cell(id, k, x, i) /\ ~(k = "chan" /\ x = c)
    BY <1>1, <1>3, <1>4 DEF Cell
  <1>7. Once(id) /\ QueueInv
    BY DEF Inv, CallInv, PlaceInv
  <1>8. ASSUME NEW o \in Object, id \in services[o].pending, id \notin services'[o].pending
        PROVE  Fate(id) /\ StaysRouted(id)
    <2>1. Cell(id, "pending", o, 0)
      BY <1>8 DEF Cell
    <2>2. \A k, x, i : Cell(id, k, x, i)' =>
            Cell(id, k, x, i) /\ ~(k = "pending" /\ x = o /\ i = 0)
      <3>1. ~Cell(id, "pending", o, 0)'
        BY <1>8 DEF Cell
      <3> QED BY <1>6, <3>1, Zenon
    <2>3. Queueing
      BY <1>7, <1>8 DEF QueueInv
    <2>4. Leaves(id, "pending", o, 0)
      BY <1>1, <1>7, <2>1, <2>2, <2>3, LeavesOnly DEF Stage
    <2> QED BY <2>4, LeavesRouted
  <1>9. ASSUME NEW i, Cell(id, "chan", c, i) PROVE Fate(id) /\ StaysRouted(id)
    <2>1. Stage("chan", c, i) \in {"assigned", "replied"} /\ With("chan", c, i) = c
      BY DEF Stage, With
    <2>2. Leaves(id, "chan", c, i)
      BY <1>1, <1>5, <1>6, <1>7, <1>9, <2>1, LeavesOnly
    <2> QED BY <2>2, LeavesRouted
  <1>10. ASSUME \A o \in Object : id \in services[o].pending => id \in services'[o].pending,
                \A i : ~Cell(id, "chan", c, i)
         PROVE  Fate(id) /\ StaysRouted(id)
    <2>1. \A k, x, i : Cell(id, k, x, i) => Cell(id, k, x, i)'
      <3> SUFFICES ASSUME NEW k, NEW x, NEW i, Cell(id, k, x, i) PROVE Cell(id, k, x, i)'
        OBVIOUS
      <3>1. CASE k = "chan"
        BY <1>4, <1>10, <3>1 DEF Cell
      <3>2. CASE k # "chan"
        BY <1>1, <1>10, <3>2 DEF Cell
      <3> QED BY <3>1, <3>2
    <2>2. \A k, x, i : Cell(id, k, x, i)' =>
            /\ Cell(id, k, x, Shift(k, x, i, "none", Nil))
            /\ Stage(k, x, i)' = Stage(k, x, Shift(k, x, i, "none", Nil))
            /\ With(k, x, i)' = With(k, x, Shift(k, x, i, "none", Nil))
      <3> SUFFICES ASSUME NEW k, NEW x, NEW i, Cell(id, k, x, i)',
                          NEW n, n = Shift(k, x, i, "none", Nil)
                   PROVE  /\ Cell(id, k, x, n)
                          /\ Stage(k, x, i)' = Stage(k, x, n)
                          /\ With(k, x, i)' = With(k, x, n)
        OBVIOUS
      <3>1. Cell(id, k, x, i) /\ ~(k = "chan" /\ x = c) /\ k # "none"
        BY <1>6 DEF Cell
      <3>2. n = i
        BY <3>1 DEF Shift
      <3>3. k = "chan" => x \in Conn /\ chan'[x] = chan[x]
        BY <1>4, <3>1 DEF Cell
      <3> QED BY <1>1, <3>1, <3>2, <3>3 DEF Stage, With
    <2>3. \A k, x, i : Cell(id, k, x, i) => \E j : Cell(id, k, x, j)'
      BY <2>1
    <2> QED BY <1>1, <2>2, <2>3, ShiftStays DEF Inv
  <1> QED BY <1>8, <1>9, <1>10

-----------------------------------------------------------------------------
(* The invariant is kept.                                                  *)

\* What any step does to any call.
LEMMA FatesNext ==
  ASSUME Inv, TypeInv', [Next]_vars, NEW id \in CallId
  PROVE  Fate(id) /\ StaysRouted(id)
  <1>1. CASE UNCHANGED vars \/ \E o \in Object : SpawnService(o)
    BY <1>1, QuietOther, QuietFate
  <1>2. ASSUME NEW c \in Conn,
               \/ SpawnClient(c) \/ PeerClose(c) \/ WriterShutdown(c)
               \/ CleanupClients(c) \/ CleanupObjects(c) \/ CleanupSubscriptions(c)
               \/ CleanupCalls(c) \/ CleanupActiveCalls(c)
        PROVE  Fate(id) /\ StaysRouted(id)
    BY <1>2, QuietConnections, QuietFate
  <1>3. ASSUME NEW c \in Conn,
               \/ \E o \in Object : RegisterObject(c, o) \/ RegisterService(c, o) \/ HasObject(c, o)
               \/ \E t \in Topic : Subscribe(c, t) \/ Publish(c, t)
               \/ PublishSenders(c) \/ ReadError(c) \/ RegisterServiceEntry(c)
        PROVE  Fate(id) /\ StaysRouted(id)
    BY <1>3, QuietHandlers, QuietFate
  <1>4. ASSUME NEW c \in Conn,
               \/ \E o \in Object, k \in CallId : Call(c, k, o)
               \/ \E k \in CallId : Response(c, k)
               \/ CallInsert(c) \/ CallAutoStart(c) \/ CallQueue(c)
               \/ CallRunning(c) \/ CallUnknown(c)
        PROVE  Fate(id) /\ StaysRouted(id)
    BY <1>4, CallFate, ResponseFate, CallInsertFate, CallQueueFate, CallRunningFate, CallUnknownFate
  <1>5. ASSUME NEW c \in Conn,
               \/ SendNext(c) \/ WriterWrite(c) \/ WriterFail(c)
               \/ RegisterObjectServices(c) \/ CleanupServices(c)
        PROVE  Fate(id) /\ StaysRouted(id)
    BY <1>5, SendNextFate, WriterFate, RegisterObjectServicesFate, CleanupServicesFate
  <1> QED
    BY <1>1, <1>2, <1>3, <1>4, <1>5 DEF Next, Request, Handler, Writer, Cleanup

\* The stages of an actor and the ends of a connection go one way.
LEMMA OneWay ==
  ASSUME TypeInv, LifeInv, [Next]_vars
  PROVE  /\ \A c \in Conn : actor[c] # "absent" =>
              /\ actor'[c] # "absent"
              /\ c \in GoneFromCalls => c \in GoneFromCalls'
         /\ Broken \subseteq Broken'
  <1> USE DEF maps, task, conn, world, hist
  <1>0. /\ actor \in [Conn -> ActorPc] /\ pc \in [Conn -> ReaderPc]
        /\ writer \in [Conn -> {"writing", "stopped"}] /\ peer \in [Conn -> {"open", "closed"}]
    BY DEF TypeInv, TypeOK
  <1>1. ASSUME NEW c \in Conn,
               Request(c) \/ Handler(c) \/ ReadError(c) \/ \E id \in CallId : Response(c, id)
        PROVE  /\ UNCHANGED <<actor, writer, peer>>
               /\ \A d \in Conn : pc[d] = "done" => pc'[d] = "done"
    <2>1. ReaderStep(c)
      BY <1>1, HandlersStep
    <2>2. UNCHANGED <<writer, peer>>
      BY <1>1 DEF Request, Handler, ReadError, Response, RegisterObject, RegisterService, HasObject,
           Call, Subscribe, Publish, RegisterObjectServices, RegisterServiceEntry, CallInsert,
           CallAutoStart, CallQueue, CallRunning, CallUnknown, PublishSenders, SendNext
    <2> QED BY <1>0, <2>1, <2>2 DEF ReaderStep
  <1>2. ASSUME UNCHANGED <<actor, writer, peer>>, \A d \in Conn : pc[d] = "done" => pc'[d] = "done"
        PROVE  /\ \A c \in Conn : actor[c] # "absent" =>
                    /\ actor'[c] # "absent"
                    /\ c \in GoneFromCalls => c \in GoneFromCalls'
               /\ Broken \subseteq Broken'
    BY <1>2 DEF GoneFromCalls, NotIn, Broken
  <1>3. ASSUME NEW c \in Conn, SpawnClient(c)
        PROVE  /\ \A d \in Conn : actor[d] # "absent" =>
                    /\ actor'[d] # "absent"
                    /\ d \in GoneFromCalls => d \in GoneFromCalls'
               /\ Broken \subseteq Broken'
    <2>1. /\ actor[c] = "absent" /\ actor' = [actor EXCEPT ![c] = "running"]
          /\ pc' = [pc EXCEPT ![c] = "idle"] /\ UNCHANGED <<writer, peer>>
      BY <1>3 DEF SpawnClient
    <2>2. pc[c] = "none"
      BY <2>1 DEF LifeInv, ReaderStage
    <2> QED BY <1>0, <2>1, <2>2 DEF GoneFromCalls, NotIn, Broken
  <1>4. ASSUME NEW c \in Conn, PeerClose(c) \/ Writer(c)
        PROVE  /\ \A d \in Conn : actor[d] # "absent" =>
                    /\ actor'[d] # "absent"
                    /\ d \in GoneFromCalls => d \in GoneFromCalls'
               /\ Broken \subseteq Broken'
    <2>1. /\ UNCHANGED <<actor, pc>>
          /\ \A d \in Conn : /\ peer[d] = "closed" => peer'[d] = "closed"
                             /\ writer[d] = "stopped" => writer'[d] = "stopped"
      BY <1>0, <1>4 DEF PeerClose, Writer, WriterWrite, WriterFail, WriterShutdown
    <2> QED BY <2>1 DEF GoneFromCalls, NotIn, Broken
  <1>5. ASSUME NEW c \in Conn, Cleanup(c)
        PROVE  /\ \A d \in Conn : actor[d] # "absent" =>
                    /\ actor'[d] # "absent"
                    /\ d \in GoneFromCalls => d \in GoneFromCalls'
               /\ Broken \subseteq Broken'
    <2>1. /\ UNCHANGED <<pc, writer>> /\ \A d \in Conn : peer[d] = "closed" => peer'[d] = "closed"
      BY <1>0, <1>5 DEF Cleanup, CleanupClients, CleanupObjects, CleanupSubscriptions, CleanupCalls,
           CleanupActiveCalls, CleanupServices
    <2>2. \A d \in Conn : /\ d # c => actor'[d] = actor[d]
                          /\ actor'[c] # "absent"
                          /\ actor[c] \in {"ended", "active_calls", "services"} =>
                               actor'[c] \in {"ended", "active_calls", "services"}
      BY <1>0, <1>5 DEF Cleanup, CleanupClients, CleanupObjects, CleanupSubscriptions, CleanupCalls,
           CleanupActiveCalls, CleanupServices
    <2> QED BY <2>1, <2>2 DEF GoneFromCalls, NotIn, Broken
  <1>6. CASE UNCHANGED vars \/ \E o \in Object : SpawnService(o)
    <2>1. UNCHANGED <<actor, writer, peer, pc>>
      BY <1>6 DEF vars, SpawnService
    <2> QED BY <1>2, <2>1
  <1> QED BY <1>1, <1>2, <1>3, <1>4, <1>5, <1>6 DEF Next

\* Every step keeps what a handler's stage says of the call it holds.
LEMMA HandlerNext ==
  ASSUME TypeInv, TypeInv', LifeInv, HandlerInv, [Next]_vars
  PROVE  HandlerInv'
  <1> USE DEF maps, task, conn, world, hist
  <1>0. /\ pc \in [Conn -> ReaderPc] /\ local \in [Conn -> Local] /\ out \in [Conn -> Seq(Send)]
        /\ NoLocal.call = Nil
    BY CallTypes DEF NoLocal
  <1>1. ASSUME NEW c \in Conn, NEW label, NEW l, Continue(c, label, l), pc[c] # "send",
               label # "send", l.call # Nil => label \in {"call_insert", "call_service"}
        PROVE  HandlerInv'
    BY <1>0, <1>1 DEF Continue, HandlerInv
  <1>2. ASSUME NEW c \in Conn, Return(c), pc[c] # "send" PROVE HandlerInv'
    BY <1>0, <1>1, <1>2 DEF Return
  <1>3. ASSUME NEW c \in Conn, NEW sends, SendAll(c, sends) PROVE HandlerInv'
    BY <1>0, <1>3 DEF SendAll, HandlerInv
  <1>4. ASSUME NEW c \in Conn, NEW o \in Object, RegisterObject(c, o) \/ RegisterService(c, o)
        PROVE  HandlerInv'
    <2>1. [NoLocal EXCEPT !.object = o].call = Nil
      BY DEF NoLocal
    <2> QED BY <1>1, <1>4, <2>1 DEF RegisterObject, RegisterService, Read
  <1>5. ASSUME NEW c \in Conn, NEW o \in Object, NEW id \in CallId, Call(c, id, o)
        PROVE  HandlerInv'
    BY <1>1, <1>2, <1>5 DEF Call, Read
  <1>6. ASSUME NEW c \in Conn, NEW t \in Topic, Publish(c, t) PROVE HandlerInv'
    <2> DEFINE l == [NoLocal EXCEPT !.topic = t, !.subs = subscriptions[t]]
    <2>1. l.call = Nil
      BY DEF NoLocal
    <2>2. pc[c] = "idle" /\ (Return(c) \/ Continue(c, "publish", l))
      BY <1>6 DEF Publish, Read
    <2> HIDE DEF l
    <2> QED BY <1>1, <1>2, <2>1, <2>2
  <1>7. ASSUME NEW c \in Conn, \/ \E o \in Object : HasObject(c, o)
                               \/ \E t \in Topic : Subscribe(c, t)
                               \/ RegisterObjectServices(c) \/ CallUnknown(c)
        PROVE  HandlerInv'
    <2>1. \E sends : SendAll(c, sends)
      BY <1>7 DEF HasObject, Subscribe, RegisterObjectServices, CallUnknown
    <2> QED BY <1>3, <2>1
  <1>8. ASSUME NEW c \in Conn, \/ RegisterServiceEntry(c) \/ CallAutoStart(c)
                               \/ CallQueue(c) \/ CallRunning(c)
        PROVE  HandlerInv'
    BY <1>2, <1>8 DEF RegisterServiceEntry, CallAutoStart, CallQueue, CallRunning
  <1>9. ASSUME NEW c \in Conn, CallInsert(c) PROVE HandlerInv'
    BY <1>1, <1>3, <1>9 DEF CallInsert
  <1>10. ASSUME NEW c \in Conn, NEW id \in CallId, Response(c, id) PROVE HandlerInv'
    BY <1>2, <1>3, <1>10 DEF Response
  <1>11. ASSUME NEW c \in Conn, PublishSenders(c) PROVE HandlerInv'
    <2>1. pc[c] = "publish" /\ (Return(c) \/ \E sends : SendAll(c, sends))
      BY <1>11 DEF PublishSenders
    <2> QED BY <1>2, <1>3, <2>1
  <1>12. ASSUME NEW c \in Conn, ReadError(c) PROVE HandlerInv'
    BY <1>0, <1>1, <1>12 DEF ReadError, Read
  <1>13. ASSUME NEW c \in Conn, SendNext(c) PROVE HandlerInv'
    <2>1. /\ out[c] \in Seq(Send) /\ out[c] # <<>> /\ local' = local
          /\ out' = [out EXCEPT ![c] = Tail(@)] /\ pc[c] = "send"
          /\ IF Len(out[c]) = 1 THEN pc' = [pc EXCEPT ![c] = "idle"] ELSE pc' = pc
      BY <1>0, <1>13 DEF SendNext, TypeInv, ReaderInv
    <2>2. Len(out[c]) = 1 => Tail(out[c]) = <<>>
      <3>1. Tail(out[c]) \in Seq(Send) /\ (Len(out[c]) = 1 => Len(Tail(out[c])) = 0)
        BY <2>1
      <3>2. \A s \in Seq(Send) : Len(s) = 0 => s = <<>>
        OBVIOUS
      <3> QED BY <3>1, <3>2
    <2> QED BY <1>0, <2>1, <2>2 DEF HandlerInv
  <1>14. ASSUME NEW c \in Conn, SpawnClient(c) PROVE HandlerInv'
    <2>1. pc[c] = "none" /\ pc' = [pc EXCEPT ![c] = "idle"] /\ UNCHANGED <<local, out>>
      BY <1>14 DEF SpawnClient, LifeInv, ReaderStage
    <2> QED BY <1>0, <2>1 DEF HandlerInv
  <1>15. CASE UNCHANGED <<pc, local, out>>
    BY <1>15 DEF HandlerInv
  <1>16. ASSUME NEW c \in Conn, PeerClose(c) \/ Writer(c) \/ Cleanup(c)
         PROVE  UNCHANGED <<pc, local, out>>
    BY <1>16 DEF PeerClose, Writer, WriterWrite, WriterFail, WriterShutdown, Cleanup, CleanupClients,
         CleanupObjects, CleanupSubscriptions, CleanupCalls, CleanupActiveCalls, CleanupServices
  <1>17. UNCHANGED vars \/ (\E o \in Object : SpawnService(o)) => UNCHANGED <<pc, local, out>>
    BY DEF vars, SpawnService
  <1> QED
    BY <1>4, <1>5, <1>6, <1>7, <1>8, <1>9, <1>10, <1>11, <1>12, <1>13, <1>14, <1>15, <1>16, <1>17
       DEF Next, Request, Handler

\* Only RegisterService makes a handler wait for the services lock to insert
\* an entry.
LEMMA RegisterServicePc ==
  ASSUME TypeInv, [Next]_vars, NEW d \in Conn, pc'[d] = "register_service"
  PROVE  pc[d] = "register_service" \/ Sends["RegisterService"] # {}
  <1> USE DEF maps, task, conn, world, hist
  <1>0. pc \in [Conn -> ReaderPc]
    BY CallTypes
  <1>1. ASSUME NEW c \in Conn, NEW o \in Object, RegisterService(c, o)
        PROVE  Sends["RegisterService"] # {}
    BY <1>1 DEF RegisterService, Read
  <1>2. ASSUME NEW c \in Conn, NEW label, pc' = [pc EXCEPT ![c] = label], label # "register_service"
        PROVE  pc[d] = "register_service"
    BY <1>0, <1>2
  <1>3. \A c, sends : SendAll(c, sends) => pc' = [pc EXCEPT ![c] = "send"]
    BY DEF SendAll
  <1>4. \A c : Return(c) => pc' = [pc EXCEPT ![c] = "idle"]
    BY DEF Return, Continue
  <1>5. \A c, label, l : Continue(c, label, l) => pc' = [pc EXCEPT ![c] = label]
    BY DEF Continue
  <1>6. ASSUME NEW c \in Conn, Request(c), ~\E o \in Object : RegisterService(c, o)
        PROVE  \E label : pc' = [pc EXCEPT ![c] = label] /\ label # "register_service"
    <2>1. ASSUME NEW o \in Object, RegisterObject(c, o)
          PROVE  pc' = [pc EXCEPT ![c] = "register_object"]
      BY <2>1 DEF RegisterObject, Continue
    <2>2. ASSUME NEW o \in Object, HasObject(c, o) PROVE pc' = [pc EXCEPT ![c] = "send"]
      BY <2>2 DEF HasObject, SendAll
    <2>3. ASSUME NEW o \in Object, NEW id \in CallId, Call(c, id, o)
          PROVE  pc' = [pc EXCEPT ![c] = "call_insert"] \/ pc' = [pc EXCEPT ![c] = "idle"]
      BY <2>3 DEF Call, Return, Continue
    <2>4. ASSUME NEW t \in Topic, Subscribe(c, t) PROVE pc' = [pc EXCEPT ![c] = "send"]
      BY <2>4 DEF Subscribe, SendAll
    <2>5. ASSUME NEW t \in Topic, Publish(c, t)
          PROVE  pc' = [pc EXCEPT ![c] = "publish"] \/ pc' = [pc EXCEPT ![c] = "idle"]
      BY <2>5 DEF Publish, Return, Continue
    <2> QED BY <1>6, <2>1, <2>2, <2>3, <2>4, <2>5 DEF Request
  <1>7. ASSUME NEW c \in Conn, Handler(c)
        PROVE  pc' = pc \/ \E label : pc' = [pc EXCEPT ![c] = label] /\ label # "register_service"
    <2>1. CASE RegisterObjectServices(c) \/ CallUnknown(c)
      BY <1>3, <2>1 DEF RegisterObjectServices, CallUnknown
    <2>2. CASE RegisterServiceEntry(c) \/ CallAutoStart(c) \/ CallQueue(c) \/ CallRunning(c)
      BY <1>4, <2>2 DEF RegisterServiceEntry, CallAutoStart, CallQueue, CallRunning
    <2>3. CASE CallInsert(c)
      BY <1>3, <1>5, <2>3 DEF CallInsert
    <2>4. CASE PublishSenders(c)
      <3>1. Return(c) \/ \E sends : SendAll(c, sends)
        BY <2>4 DEF PublishSenders
      <3> QED BY <1>3, <1>4, <3>1
    <2>5. CASE SendNext(c)
      BY <2>5 DEF SendNext
    <2> QED BY <1>7, <2>1, <2>2, <2>3, <2>4, <2>5 DEF Handler
  <1>8. ASSUME NEW c \in Conn, ReadError(c) \/ (\E id \in CallId : Response(c, id)) \/ SpawnClient(c)
        PROVE  \E label : pc' = [pc EXCEPT ![c] = label] /\ label # "register_service"
    <2>1. ReadError(c) => pc' = [pc EXCEPT ![c] = "done"]
      BY DEF ReadError, Continue
    <2>2. SpawnClient(c) => pc' = [pc EXCEPT ![c] = "idle"]
      BY DEF SpawnClient
    <2>3. ASSUME NEW id \in CallId, Response(c, id)
          PROVE  pc' = [pc EXCEPT ![c] = "send"] \/ pc' = [pc EXCEPT ![c] = "idle"]
      BY <2>3 DEF Response, SendAll, Return, Continue
    <2> QED BY <1>8, <2>1, <2>2, <2>3
  <1>9. ASSUME NEW c \in Conn, PeerClose(c) \/ Writer(c) \/ Cleanup(c)
        PROVE  pc' = pc
    BY <1>9 DEF PeerClose, Writer, WriterWrite, WriterFail, WriterShutdown, Cleanup, CleanupClients,
         CleanupObjects, CleanupSubscriptions, CleanupCalls, CleanupActiveCalls, CleanupServices
  <1>10. UNCHANGED vars \/ (\E o \in Object : SpawnService(o)) => pc' = pc
    BY DEF vars, SpawnService
  <1> QED BY <1>1, <1>2, <1>6, <1>7, <1>8, <1>9, <1>10 DEF Next

\* The steps that write to the services.
LEMMA ServicesWriters ==
  ASSUME [Next]_vars
  PROVE  \/ UNCHANGED services
         \/ \E c \in Conn : \/ RegisterObjectServices(c) \/ CleanupServices(c) \/ CallAutoStart(c)
                            \/ CallQueue(c) \/ RegisterServiceEntry(c)
  <1> USE DEF maps, task, conn, world, hist
  <1>1. ASSUME NEW c \in Conn, Request(c) \/ ReadError(c) \/ (\E id \in CallId : Response(c, id))
        PROVE  UNCHANGED services
    BY <1>1 DEF Request, ReadError, Response, RegisterObject, RegisterService, HasObject, Call,
         Subscribe, Publish
  <1>2. ASSUME NEW c \in Conn, \/ CallInsert(c) \/ CallRunning(c) \/ CallUnknown(c)
                               \/ PublishSenders(c) \/ SendNext(c)
        PROVE  UNCHANGED services
    BY <1>2 DEF CallInsert, CallRunning, CallUnknown, PublishSenders, SendNext
  <1>3. ASSUME NEW c \in Conn, \/ SpawnClient(c) \/ PeerClose(c) \/ Writer(c)
                               \/ CleanupClients(c) \/ CleanupObjects(c) \/ CleanupSubscriptions(c)
                               \/ CleanupCalls(c) \/ CleanupActiveCalls(c)
        PROVE  UNCHANGED services
    BY <1>3 DEF SpawnClient, PeerClose, Writer, WriterWrite, WriterFail, WriterShutdown,
         CleanupClients, CleanupObjects, CleanupSubscriptions, CleanupCalls, CleanupActiveCalls
  <1>4. UNCHANGED vars \/ (\E o \in Object : SpawnService(o)) => UNCHANGED services
    BY DEF vars, SpawnService
  <1> QED BY <1>1, <1>2, <1>3, <1>4 DEF Next, Handler, Cleanup

\* Every step keeps the waiting calls to objects that have a service: handle_call
\* queues a call only where it found one.
LEMMA QueueNext ==
  ASSUME TypeInv, QueueInv, [Next]_vars
  PROVE  QueueInv'
  <1> USE DEF maps, task, conn, world, hist
  <1>0. services \in [Object -> ServiceEntry] /\ \A c \in Conn : c # Nil
    BY CallTypes, ConstantAssumption DEF ConstantAssumption
  <1>1. ~Queueing => \A c \in Conn : pc'[c] # "register_service"
    BY RegisterServicePc DEF QueueInv, Queueing
  <1> DEFINE Entries == /\ \A o \in Object : services'[o].state = "Unknown" =>
                             services'[o].pending = {} /\ services'[o].owner = Nil
                        /\ ~Queueing => \A o \in Object : services'[o].state = "Unknown"
  <1>2. ASSUME UNCHANGED services PROVE Entries
    BY <1>2 DEF QueueInv
  <1>3. ASSUME NEW c \in Conn, RegisterObjectServices(c) PROVE Entries
    <2>1. PICK o \in Object : o = local[c].object
      BY <1>3 DEF TypeInv, ReaderInv, RegisterObjectServices
    <2> DEFINE e == [state |-> "Running", runner |-> c, owner |-> c, pending |-> {}]
    <2>2. /\ e.state = "Running"
          /\ \A p \in Object : \/ services'[p] = services[p]
                               \/ services'[p] = e /\ services[p].state # "Unknown"
      BY <1>0, <1>3, <2>1 DEF RegisterObjectServices
    <2> HIDE DEF e
    <2> QED BY <2>2 DEF QueueInv
  <1>4. ASSUME NEW c \in Conn, RegisterServiceEntry(c) PROVE Entries
    <2>1. Queueing
      BY <1>4 DEF QueueInv, RegisterServiceEntry
    <2>2. PICK o \in Object : o = local[c].object
      BY <1>4 DEF TypeInv, ReaderInv, RegisterServiceEntry
    <2>3. \A p \in Object : services'[p] = services[p] \/ services'[p].state = "Stopped"
      BY <1>0, <1>4, <2>2, EntryFields DEF RegisterServiceEntry
    <2> QED BY <2>1, <2>3 DEF QueueInv
  <1>5. ASSUME NEW c \in Conn, CallAutoStart(c) \/ CallQueue(c) PROVE Entries
    <2>1. PICK o \in Object : o = local[c].object
      BY <1>5 DEF TypeInv, ReaderInv, CallAutoStart, CallQueue
    <2>2. services[o].state \in {"Stopped", "Starting"}
      BY <1>5, <2>1 DEF CallAutoStart, CallQueue
    <2>3. \A p \in Object : services'[p] = services[p] \/ services'[p].state = "Starting"
      <3>1. CASE CallAutoStart(c)
        <4> DEFINE f == [services EXCEPT ![o].state = "Starting"]
        <4>1. services' = [f EXCEPT ![o].pending = @ \cup {local[c].call}]
          BY <2>1, <3>1 DEF CallAutoStart
        <4>2. /\ f \in [Object -> ServiceEntry] /\ f[o].state = "Starting"
              /\ \A p \in Object : p # o => f[p] = services[p]
          BY <1>0 DEF ServiceEntry
        <4> HIDE DEF f
        <4> QED BY <1>0, <4>1, <4>2 DEF ServiceEntry
      <3>2. CASE CallQueue(c)
        BY <1>0, <2>1, <3>2 DEF CallQueue, ServiceEntry
      <3> QED BY <1>5, <3>1, <3>2
    <2>4. Queueing
      BY <2>2 DEF QueueInv
    <2> QED BY <2>3, <2>4 DEF QueueInv
  <1>6. ASSUME NEW c \in Conn, CleanupServices(c) PROVE Entries
    <2>1. \A o \in Object : services'[o] = IF services[o].owner = c THEN Entry("Stopped")
                                           ELSE [services[o] EXCEPT !.pending = @ \cap snapshot[c]]
      BY <1>6 DEF CleanupServices
    <2>2. ASSUME NEW o \in Object
          PROVE  /\ services'[o].state = "Unknown" =>
                      services'[o].pending = {} /\ services'[o].owner = Nil
                 /\ ~Queueing => services'[o].state = "Unknown"
      <3>1. services[o] \in ServiceEntry
        BY <1>0
      <3>2. CASE services[o].owner = c
        <4>1. services'[o] = Entry("Stopped") /\ Entry("Stopped").state = "Stopped"
          BY <2>1, <3>1, <3>2, EntryFields
        <4>2. services[o].state # "Unknown"
          BY <1>0, <3>2 DEF QueueInv
        <4> QED BY <4>1, <4>2 DEF QueueInv
      <3>3. CASE services[o].owner # c
        <4>1. /\ services'[o].state = services[o].state /\ services'[o].owner = services[o].owner
              /\ services'[o].pending = services[o].pending \cap snapshot[c]
          <5> DEFINE e == [services[o] EXCEPT !.pending = @ \cap snapshot[c]]
          <5>1. services'[o] = e
            BY <2>1, <3>3
          <5>2. /\ e.state = services[o].state /\ e.owner = services[o].owner
                /\ e.pending = services[o].pending \cap snapshot[c]
            BY <3>1, EntryFields
          <5> HIDE DEF e
          <5> QED BY <5>1, <5>2
        <4> QED BY <4>1 DEF QueueInv
      <3> QED BY <3>2, <3>3
    <2> QED BY <2>2
  <1>7. Entries
    <2> HIDE DEF Entries
    <2> QED BY <1>2, <1>3, <1>4, <1>5, <1>6, ServicesWriters
  <1> QED BY <1>1, <1>7 DEF QueueInv, Queueing

\* Every step keeps the invariant.
LEMMA CallNext == Inv /\ TypeInv' /\ [Next]_vars => CallInv'
  <1> SUFFICES ASSUME Inv, TypeInv', [Next]_vars PROVE CallInv'
    OBVIOUS
  <1> USE DEF Inv, CallInv
  <1>1. HandlerInv' /\ QueueInv'
    BY HandlerNext, QueueNext
  <1>2. ASSUME NEW id \in CallId
        PROVE  /\ Once(id)'
               /\ origin'[id] = Nil => \A k, x, i : ~Cell(id, k, x, i)'
    BY FatesNext, FateOnce DEF PlaceInv, OriginInv
  <1>3. ASSUME NEW id \in CallId, origin'[id] # Nil
        PROVE  actor'[origin'[id]] # "absent"
    <2>0. origin \in [CallId -> Conn \cup {Nil}]
      BY CallTypes
    <2>1. CASE origin'[id] = origin[id]
      <3>1. origin[id] \in Conn /\ actor[origin[id]] # "absent"
        BY <1>3, <2>0, <2>1 DEF OriginInv
      <3> QED BY <2>1, <3>1, OneWay
    <2>2. CASE origin'[id] # origin[id]
      <3>1. PICK c : Enters(id, c)
        BY <2>2, FatesNext DEF Fate, Stays, Moves, Leaves
      <3>2. c \in Conn /\ origin'[id] = c /\ local'[c].call = id
        BY <3>1 DEF Enters, Cell
      <3>3. local'[c].call # Nil
        BY <3>2, ConstantAssumption DEF ConstantAssumption
      <3>4. pc'[c] \in {"call_insert", "call_service"}
        BY <1>1, <3>2, <3>3 DEF HandlerInv
      <3>5. LifeInv'
        BY LifeNext
      <3> QED BY <3>2, <3>4, <3>5 DEF LifeInv, ReaderStage
    <2> QED BY <2>1, <2>2
  <1>4. ASSUME NEW id \in CallId PROVE Routed(id)'
    <2> SUFFICES ASSUME Served(id)'
                 PROVE  calls'[id] = origin'[id] \/ origin'[id] \in GoneFromCalls'
      BY DEF Routed
    <2>1. CASE calls'[id] = origin'[id] \/ origin'[id] \in GoneFromCalls'
      BY <2>1
    <2>2. CASE Served(id) /\ calls'[id] = calls[id] /\ origin'[id] = origin[id]
      <3>1. Routed(id)
        BY DEF PlaceInv
      <3>2. calls[id] = origin[id] \/ origin[id] \in GoneFromCalls
        BY <2>2, <3>1 DEF Routed
      <3>3. ASSUME origin[id] \in GoneFromCalls PROVE origin[id] \in GoneFromCalls'
        <4>1. origin[id] \in Conn
          BY <3>3 DEF GoneFromCalls, NotIn
        <4>2. origin[id] # Nil
          BY <4>1, ConstantAssumption DEF ConstantAssumption
        <4>3. actor[origin[id]] # "absent"
          BY <4>2 DEF OriginInv
        <4> QED BY <3>3, <4>1, <4>3, OneWay
      <3> QED BY <2>2, <3>2, <3>3
    <2>3. StaysRouted(id)
      BY FatesNext
    <2> QED BY <2>1, <2>2, <2>3 DEF StaysRouted
  <1>5. OriginInv'
    BY <1>2, <1>3 DEF OriginInv
  <1>6. PlaceInv'
    BY <1>2, <1>4 DEF PlaceInv
  <1> QED BY <1>1, <1>5, <1>6

\* Inv holds in every reachable state.
THEOREM CallInvariant == Spec => []Inv
  <1>1. Init => Inv
    BY TypeInit, LifeInit, RouteInit, CallInit DEF Inv
  <1>2. Inv /\ [Next]_vars => Inv'
    BY TypeNext, LifeNext, RouteNext, CallNext DEF Inv
  <1> QED BY <1>1, <1>2, PTL DEF Spec

-----------------------------------------------------------------------------
(* What the invariant means.                                               *)

\* A call is in at most one place: it is executed and answered at most once.
THEOREM OnceAtMost == Spec => []AtMostOnce
  <1>1. Inv => AtMostOnce
    <2> SUFFICES ASSUME Inv, NEW id \in CallId PROVE Cardinality(Places(id)) <= 1
      BY DEF AtMostOnce
    <2>1. Once(id)
      BY DEF Inv, CallInv, PlaceInv
    <2>2. CASE Places(id) = {}
      <3>1. Cardinality(Places(id)) = 0
        BY <2>2, FS_EmptySet
      <3> QED BY <3>1
    <2>3. ASSUME NEW p, Places(id) = {p} PROVE Cardinality(Places(id)) <= 1
      <3>1. Cardinality(Places(id)) = 1
        BY <2>3, FS_Singleton
      <3> QED BY <3>1
    <2> QED BY <2>1, <2>2, <2>3, OncePlaces
  <1> QED BY <1>1, CallInvariant, PTL

\* Wherever a call waits to be executed, calls has its caller, unless the
\* caller's own cleanup has removed it.
THEOREM Routable == Spec => []RoutableWhileServed
  <1>1. Inv => RoutableWhileServed
    <2> SUFFICES ASSUME Inv, NEW id \in CallId,
                        \/ \E o \in Object : id \in services[o].pending
                        \/ \E c \in Conn : \/ id \in todo[c]
                                           \/ \E i \in DOMAIN chan[c] : chan[c][i] = CallMsg(id)
                                           \/ \E i \in DOMAIN out[c] : out[c][i].msg = CallMsg(id)
                 PROVE  calls[id] = origin[id] \/ origin[id] \in GoneFromCalls
      BY DEF RoutableWhileServed
    <2>1. ASSUME NEW o \in Object, id \in services[o].pending PROVE Served(id)
      <3>1. Cell(id, "pending", o, 0)
        BY <2>1 DEF Cell
      <3> QED BY <3>1 DEF Served
    <2>2. ASSUME NEW c \in Conn, id \in todo[c] PROVE Served(id)
      <3>1. Cell(id, "todo", c, 0) /\ Stage("todo", c, 0) = "assigned"
        BY <2>2 DEF Cell, Stage
      <3> QED BY <3>1 DEF Served
    <2>3. ASSUME NEW c \in Conn, NEW i \in DOMAIN chan[c], chan[c][i] = CallMsg(id) PROVE Served(id)
      <3>1. Cell(id, "chan", c, i) /\ Stage("chan", c, i) = "assigned"
        BY <2>3, Abouts DEF Cell, Stage
      <3> QED BY <3>1 DEF Served
    <2>4. ASSUME NEW c \in Conn, NEW i \in DOMAIN out[c], out[c][i].msg = CallMsg(id) PROVE Served(id)
      <3>1. Cell(id, "out", c, i) /\ Stage("out", c, i) = "assigned"
        BY <2>4, Abouts DEF Cell, Stage
      <3> QED BY <3>1 DEF Served
    <2>5. Served(id)
      BY <2>1, <2>2, <2>3, <2>4
    <2> QED BY <2>5 DEF Inv, CallInv, PlaceInv, Routed
  <1> QED BY <1>1, CallInvariant, PTL

\* While everybody is connected no step takes a waiting call out of its queue, but
\* the registration that hands it to the service's process.
THEOREM QueueKeeping == Spec => QueuesKept
  <1> DEFINE Kept == \A o \in Object : \A id \in services[o].pending \ services'[o].pending :
                HandedOver(o, id)
  <1>1. Inv /\ [Next]_vars => [Broken = {} => Kept]_vars
    <2> SUFFICES ASSUME Inv, Next, Broken = {} PROVE Kept
      OBVIOUS
    <2>0. services \in [Object -> ServiceEntry] /\ out \in [Conn -> Seq(Send)]
      BY CallTypes DEF Inv
    <2>1. ASSUME \A o \in Object : services[o].pending \subseteq services'[o].pending PROVE Kept
      BY <2>1
    <2>2. ASSUME NEW c \in Conn, RegisterObjectServices(c) PROVE Kept
      <3>1. PICK p, s, q :
              /\ p \in Object /\ p = local[c].object /\ SendAll(c, s)
              /\ \A i \in DOMAIN q : q[i] \in services[p].pending
              /\ \A k \in services[p].pending : \E i \in DOMAIN q : q[i] = k
              /\ \A i, j \in DOMAIN q : q[i] = q[j] => i = j
              /\ \A i \in DOMAIN q : i \in DOMAIN s /\ s[i] = To(c, CallMsg(q[i]))
              /\ \A i \in DOMAIN s : i \in DOMAIN q \/ s[i] = To(c, RegisteredMsg(p))
        BY <2>2, TakenCalls DEF Inv
      <3>2. out'[c] = s
        BY <2>0, <3>1 DEF SendAll
      <3>3. \A o \in Object : o # p => services'[o] = services[o]
        BY <2>0, <2>2, <3>1 DEF RegisterObjectServices
      <3> SUFFICES ASSUME NEW o \in Object, NEW id \in services[o].pending \ services'[o].pending
                   PROVE  HandedOver(o, id)
        OBVIOUS
      <3>4. o = p
        BY <3>3
      <3>5. services[p].state # "Unknown"
        BY <3>4 DEF Inv, CallInv, QueueInv
      <3>6. services'[p].runner = c /\ services'[p].owner = c
        BY <2>0, <2>2, <3>1, <3>5 DEF RegisterObjectServices
      <3>7. \E i \in DOMAIN out'[c] : out'[c][i] = To(c, CallMsg(id))
        BY <3>1, <3>2, <3>4
      <3> QED BY <3>4, <3>6, <3>7 DEF HandedOver
    <2>3. ASSUME NEW c \in Conn, CleanupServices(c) PROVE FALSE
      <3>1. pc[c] = "done"
        BY <2>3 DEF CleanupServices, Inv, LifeInv, ReaderStage
      <3> QED BY <3>1 DEF Broken
    <2>4. ASSUME NEW c \in Conn, RegisterServiceEntry(c)
          PROVE  \A o \in Object : services[o].pending \subseteq services'[o].pending
      <3>1. \A id \in CallId : Quiet(id)
        BY <2>4, QuietHandlers DEF Inv
      <3>2. \A o \in Object : services[o].pending \subseteq CallId
        BY <2>0 DEF ServiceEntry
      <3> QED BY <3>1, <3>2 DEF Quiet, Alone, ElsewhereAlone
    <2>5. ASSUME NEW c \in Conn, CallAutoStart(c) \/ CallQueue(c)
          PROVE  \A o \in Object : services[o].pending \subseteq services'[o].pending
      BY <2>5, QueuedMore DEF Inv
    <2>6. ASSUME UNCHANGED services
          PROVE  \A o \in Object : services[o].pending \subseteq services'[o].pending
      BY <2>6
    <2>7. \/ UNCHANGED services
          \/ \E c \in Conn : \/ RegisterObjectServices(c) \/ CleanupServices(c) \/ CallAutoStart(c)
                             \/ CallQueue(c) \/ RegisterServiceEntry(c)
      BY ServicesWriters
    <2> HIDE DEF Kept
    <2> QED BY <2>1, <2>2, <2>3, <2>4, <2>5, <2>6, <2>7
  <1> QED BY <1>1, CallInvariant, PTL DEF Spec, QueuesKept

-----------------------------------------------------------------------------
(* What a connection has registered.                                       *)

\* The owner of an object is replaced by another one, or removed by the owner's
\* own cleanup.
LEMMA ObjectKept ==
  ASSUME Inv, [Next]_vars, NEW o \in Object, objects[o] # Nil, objects'[o] # objects[o]
  PROVE  pc[objects[o]] = "done" \/ objects'[o] # Nil
  <1> USE DEF maps, task, conn, world, hist
  <1>0. Nil \notin Conn /\ objects \in [Object -> Conn \cup {Nil}]
    BY LifeTypes, ConstantAssumption DEF ConstantAssumption, Inv
  <1>1. ASSUME NEW c \in Conn, NEW p \in Object, RegisterObject(c, p) PROVE objects'[o] # Nil
    BY <1>0, <1>1 DEF RegisterObject
  <1>2. ASSUME NEW c \in Conn, CleanupObjects(c) PROVE pc[objects[o]] = "done"
    <2>1. objects[o] = c
      BY <1>2 DEF CleanupObjects
    <2>2. pc[c] = "done"
      BY <1>2 DEF CleanupObjects, Inv, LifeInv, ReaderStage
    <2> QED BY <2>1, <2>2
  <1>3. ASSUME NEW c \in Conn, \/ ReadError(c) \/ (\E id \in CallId : Response(c, id))
                               \/ Request(c) /\ ~\E p \in Object : RegisterObject(c, p)
        PROVE  UNCHANGED objects
    BY <1>3 DEF Request, ReadError, Response, RegisterService, HasObject, Call, Subscribe, Publish
  <1>4. ASSUME NEW c \in Conn, Handler(c) PROVE UNCHANGED objects
    BY <1>4 DEF Handler, RegisterObjectServices, RegisterServiceEntry, CallInsert, CallAutoStart,
         CallQueue, CallRunning, CallUnknown, PublishSenders, SendNext
  <1>5. ASSUME NEW c \in Conn, \/ SpawnClient(c) \/ PeerClose(c) \/ Writer(c)
                               \/ CleanupClients(c) \/ CleanupSubscriptions(c) \/ CleanupCalls(c)
                               \/ CleanupActiveCalls(c) \/ CleanupServices(c)
        PROVE  UNCHANGED objects
    BY <1>5 DEF SpawnClient, PeerClose, Writer, WriterWrite, WriterFail, WriterShutdown,
         CleanupClients, CleanupSubscriptions, CleanupCalls, CleanupActiveCalls, CleanupServices
  <1>6. UNCHANGED vars \/ (\E p \in Object : SpawnService(p)) => UNCHANGED objects
    BY DEF vars, SpawnService
  <1> QED BY <1>1, <1>2, <1>3, <1>4, <1>5, <1>6 DEF Next, Cleanup

\* The same of a service, which may be reset for another process before that.
LEMMA ServiceKept ==
  ASSUME Inv, [Next]_vars, NEW o \in Object, services[o].owner # Nil,
         services'[o].owner # services[o].owner
  PROVE  pc[services[o].owner] = "done" \/ services'[o].owner # Nil
  <1>0. Nil \notin Conn /\ services \in [Object -> ServiceEntry]
    BY CallTypes, ConstantAssumption DEF ConstantAssumption, Inv
  <1>1. ASSUME NEW c \in Conn, RegisterObjectServices(c) PROVE services'[o].owner # Nil
    <2>1. services'[o].owner \in {services[o].owner, c}
      BY <1>0, <1>1 DEF RegisterObjectServices
    <2> QED BY <1>0, <2>1
  <1>2. ASSUME NEW c \in Conn, CleanupServices(c) PROVE pc[services[o].owner] = "done"
    <2>1. services'[o] = IF services[o].owner = c THEN Entry("Stopped")
                         ELSE [services[o] EXCEPT !.pending = @ \cap snapshot[c]]
      BY <1>2 DEF CleanupServices
    <2>2. services[o].owner = c
      BY <1>0, <2>1, EntryFields
    <2>3. pc[c] = "done"
      BY <1>2 DEF CleanupServices, Inv, LifeInv, ReaderStage
    <2> QED BY <2>2, <2>3
  <1>3. ASSUME NEW c \in Conn, CallAutoStart(c) \/ CallQueue(c) PROVE FALSE
    <2> DEFINE p == local[c].object
    <2>1. services'[o].owner = services[o].owner
      <3>1. CASE CallQueue(c)
        BY <1>0, <3>1 DEF CallQueue, ServiceEntry
      <3>2. CASE CallAutoStart(c)
        <4> DEFINE f == [services EXCEPT ![p].state = "Starting"]
        <4>1. f \in [Object -> ServiceEntry] /\ f[o].owner = services[o].owner
          BY <1>0 DEF ServiceEntry
        <4>2. services' = [f EXCEPT ![p].pending = @ \cup {local[c].call}]
          BY <3>2 DEF CallAutoStart
        <4> HIDE DEF f
        <4> QED BY <4>1, <4>2 DEF ServiceEntry
      <3> QED BY <1>3, <3>1, <3>2
    <2> QED BY <2>1
  <1>4. ASSUME NEW c \in Conn, RegisterServiceEntry(c) PROVE FALSE
    <2>1. services[o].state # "Unknown"
      BY DEF Inv, CallInv, QueueInv
    <2>2. services'[o] \in {services[o], [services[o] EXCEPT !.state = "Stopped", !.runner = Nil]}
      BY <1>0, <1>4, <2>1 DEF RegisterServiceEntry
    <2> QED BY <1>0, <2>2, EntryFields
  <1> QED BY <1>1, <1>2, <1>3, <1>4, ServicesWriters

\* A connection keeps the objects and services it has registered while its reader
\* runs, unless another connection registers them: no cleanup but its own takes
\* them away.
THEOREM Ownership == Spec => OwnersKept
  <1> DEFINE Kept == \A o \in Object :
               /\ \/ objects[o] = Nil \/ objects'[o] = objects[o]
                  \/ pc[objects[o]] = "done" \/ objects'[o] # Nil
               /\ \/ services[o].owner = Nil \/ services'[o].owner = services[o].owner
                  \/ pc[services[o].owner] = "done" \/ services'[o].owner # Nil
  <1>1. Inv /\ [Next]_vars => [Kept]_vars
    <2> SUFFICES ASSUME Inv, [Next]_vars, NEW o \in Object
                 PROVE  /\ \/ objects[o] = Nil \/ objects'[o] = objects[o]
                           \/ pc[objects[o]] = "done" \/ objects'[o] # Nil
                        /\ \/ services[o].owner = Nil \/ services'[o].owner = services[o].owner
                           \/ pc[services[o].owner] = "done" \/ services'[o].owner # Nil
      OBVIOUS
    <2>1. objects[o] # Nil /\ objects'[o] # objects[o] =>
            pc[objects[o]] = "done" \/ objects'[o] # Nil
      BY ObjectKept
    <2>2. services[o].owner # Nil /\ services'[o].owner # services[o].owner =>
            pc[services[o].owner] = "done" \/ services'[o].owner # Nil
      BY ServiceKept
    <2> QED BY <2>1, <2>2
  <1> QED BY <1>1, CallInvariant, PTL DEF Spec, OwnersKept

-----------------------------------------------------------------------------
(* The broker implements CallService.                                      *)

\* What happens to a call is a step of CallService.
LEMMA FateStep ==
  ASSUME Inv, Inv', NEW id \in CallId, Fate(id)
  PROVE  Abstract!CallStep(id, StateOf(id), StateOf(id)')
  <1> USE DEF Abstract!CallStep, Abstract!At
  <1>1. /\ Once(id) /\ Once(id)'
        /\ origin[id] = Nil => \A k, x, i : ~Cell(id, k, x, i)
        /\ origin'[id] = Nil => \A k, x, i : ~Cell(id, k, x, i)'
    BY DEF Inv, CallInv, PlaceInv, OriginInv
  <1>2. /\ origin[id] = Nil => StateOf(id) = [stage |-> "new", with |-> Nil]
        /\ origin[id] # Nil /\ (\A k, x, i : ~Cell(id, k, x, i)) =>
             StateOf(id) = [stage |-> "lost", with |-> Nil]
        /\ origin[id] # Nil => \A k, x, i : Cell(id, k, x, i) =>
             StateOf(id) = [stage |-> Stage(k, x, i), with |-> With(k, x, i)]
    BY <1>1, StateOfCell DEF CellStates
  <1>3. /\ origin'[id] = Nil => StateOf(id)' = [stage |-> "new", with |-> Nil]
        /\ origin'[id] # Nil /\ (\A k, x, i : ~Cell(id, k, x, i)') =>
             StateOf(id)' = [stage |-> "lost", with |-> Nil]
        /\ origin'[id] # Nil => \A k, x, i : Cell(id, k, x, i)' =>
             StateOf(id)' = [stage |-> Stage(k, x, i)', with |-> With(k, x, i)']
    BY <1>1, StateOfCellNext DEF CellStates
  <1>4. ASSUME NEW K, NEW X, Stays(id, K, X)
        PROVE  origin'[id] = origin[id] /\ StateOf(id)' = StateOf(id)
    <2>1. origin'[id] = origin[id]
      BY <1>4 DEF Stays
    <2>2. CASE origin[id] = Nil
      BY <1>2, <1>3, <2>1, <2>2
    <2>3. ASSUME origin[id] # Nil, NEW k, NEW x, NEW i, Cell(id, k, x, i)'
          PROVE  StateOf(id)' = StateOf(id)
      <3>1. PICK n : /\ Cell(id, k, x, n) /\ Stage(k, x, i)' = Stage(k, x, n)
                     /\ With(k, x, i)' = With(k, x, n)
        BY <1>4, <2>3 DEF Stays
      <3> QED BY <1>2, <1>3, <2>1, <2>3, <3>1
    <2>4. CASE origin[id] # Nil /\ \A k, x, i : ~Cell(id, k, x, i)'
      <3>1. \A k, x, i : ~Cell(id, k, x, i)
        BY <1>4, <2>4 DEF Stays
      <3> QED BY <1>2, <1>3, <2>1, <2>4, <3>1
    <2> QED BY <2>1, <2>2, <2>3, <2>4
  <1>5. ASSUME NEW k, NEW x, NEW i, NEW l, NEW y, NEW j, Moves(id, k, x, i, l, y, j)
        PROVE  Abstract!CallStep(id, StateOf(id), StateOf(id)')
    <2>1. /\ origin'[id] = origin[id] /\ origin[id] # Nil
          /\ Onward(id, Stage(k, x, i), With(k, x, i), Stage(l, y, j)', With(l, y, j)')
          /\ Cell(id, k, x, i) /\ Cell(id, l, y, j)'
      BY <1>1, <1>5 DEF Moves
    <2>2. PICK from : from = [stage |-> Stage(k, x, i), with |-> With(k, x, i)]
      OBVIOUS
    <2>3. PICK to : to = [stage |-> Stage(l, y, j)', with |-> With(l, y, j)']
      OBVIOUS
    <2>4. StateOf(id) = from /\ StateOf(id)' = to
      BY <1>2, <1>3, <2>1, <2>2, <2>3
    <2>5. \/ to = from \/ Abstract!Assign(from, to)
          \/ Abstract!Reply(id, from, to) \/ Abstract!Deliver(id, from, to)
      BY <2>1, <2>2, <2>3 DEF Onward, Abstract!Assign, Abstract!Reply, Abstract!Deliver
    <2> QED BY <2>1, <2>4, <2>5
  <1>6. ASSUME NEW k, NEW x, NEW i, Leaves(id, k, x, i)
        PROVE  origin'[id] = origin[id] /\ Abstract!Lose(id, StateOf(id), StateOf(id)')
    <2>1. /\ origin'[id] = origin[id] /\ origin[id] # Nil
          /\ Cell(id, k, x, i) /\ \A l, y, j : ~Cell(id, l, y, j)'
          /\ \/ Stage(k, x, i) = "accepted" /\ Queueing
             \/ /\ Stage(k, x, i) \in {"accepted", "assigned", "replied"}
                /\ {With(k, x, i), origin[id]} \cap Broken' # {}
      BY <1>1, <1>6 DEF Leaves
    <2>2. /\ StateOf(id) = [stage |-> Stage(k, x, i), with |-> With(k, x, i)]
          /\ StateOf(id)' = [stage |-> "lost", with |-> Nil]
      BY <1>2, <1>3, <2>1
    <2>3. StateOf(id).stage = Stage(k, x, i) /\ StateOf(id).with = With(k, x, i)
      BY <2>2
    <2> QED BY <2>1, <2>2, <2>3 DEF Abstract!Lose, Queueing
  <1>7. ASSUME NEW c, Enters(id, c) PROVE Abstract!Accept(id, StateOf(id), StateOf(id)')
    <2>1. /\ origin[id] = Nil /\ origin'[id] = c /\ c \in Conn /\ c # Nil
          /\ Cell(id, "handler", c, 0)'
      BY <1>7, ConstantAssumption DEF ConstantAssumption, Enters
    <2>2. Stage("handler", c, 0)' = "accepted" /\ With("handler", c, 0)' = Nil
      BY DEF Stage, With
    <2>3. /\ StateOf(id) = [stage |-> "new", with |-> Nil]
          /\ StateOf(id)' = [stage |-> "accepted", with |-> Nil]
      BY <1>2, <1>3, <2>1, <2>2
    <2> QED BY <2>1, <2>3 DEF Abstract!Accept
  <1> QED BY <1>4, <1>5, <1>6, <1>7 DEF Fate

\* The broker implements CallService: a call is given to one worker and answered
\* once, to its caller, and it is lost only with a connection it depends on or in
\* the queue of a service.
THEOREM Implements == Spec => CallsServed
  <1>1. Init => Abstract!Init
    <2> SUFFICES ASSUME Init PROVE Abstract!Init
      OBVIOUS
    <2>1. \A id \in CallId : StateOf(id) = [stage |-> "new", with |-> Nil]
      BY DEF Init, StateOf
    <2>2. Broken = {}
      BY DEF Init, Broken
    <2>3. [id \in CallId |-> StateOf(id)] = [id \in CallId |-> [stage |-> "new", with |-> Nil]]
      BY <2>1
    <2> QED BY <2>2, <2>3 DEF Init, Abstract!Init, Abstract!At
  <1>2. Inv /\ Inv' /\ [Next]_vars => Abstract!Next
    <2> SUFFICES ASSUME Inv, Inv', [Next]_vars PROVE Abstract!Next
      OBVIOUS
    <2>1. Broken \subseteq Broken'
      BY OneWay DEF Inv
    <2>2. ASSUME NEW id \in CallId
          PROVE  Abstract!CallStep(id, StateOf(id), StateOf(id)')
      BY FatesNext, FateStep DEF Inv
    <2> QED BY <2>1, <2>2 DEF Abstract!Next
  <1> QED BY <1>1, <1>2, CallInvariant, PTL DEF Spec, CallsServed, Abstract!Spec
=============================================================================
