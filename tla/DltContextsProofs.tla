--------------------------- MODULE DltContextsProofs ---------------------------
(***************************************************************************)
(* For any number of contexts, services, levels and calls: an injection    *)
(* reaches the callback it was meant for, although positions in the table  *)
(* of contexts travel to the daemon and back while contexts come and go;   *)
(* and the application and the daemon agree on the levels, once what is on *)
(* its way has arrived.                                                    *)
(*                                                                         *)
(* The argument for the first: a position belongs to one context for good, *)
(* so wherever a position is kept or on its way, it is one of its context, *)
(* or of none any more.  For the second: of the messages to the daemon, a  *)
(* context's last one and the limits behind it decide what the daemon will *)
(* have for it; unless they change its level, the context has, or will be  *)
(* told last, the level that the daemon has.  What the environment decides *)
(* is the first of the items that match best, which going through all of   *)
(* them keeps.                                                             *)
(***************************************************************************)
EXTENDS DltContexts, SequenceLemmas, SequenceTheorems

(* Slot p is, or was, the one of context c.                                *)
OfContext(p, c) == p \in DOMAIN slots /\ slots[p].ctx \in {c, EmptyId}

(* The callbacks in a slot are those of its context, each for its service. *)
SlotSound(s) ==
    /\ s = [ctx |-> s.ctx, level |-> s.level, cell |-> s.cell, injections |-> s.injections,
            changed |-> s.changed, told |-> s.told]
    /\ s.ctx \in ContextIds \cup {EmptyId}
    /\ s.injections \in Seq(Range(s.injections))
    /\ \A k \in DOMAIN s.injections :
          /\ s.injections[k].callback.ctx = s.ctx
          /\ s.injections[k].callback.service = s.injections[k].service
    /\ s.ctx = EmptyId => s.injections = <<>>

SlotsSound ==
    /\ slots \in Seq(Range(slots))
    /\ \A p \in DOMAIN slots : SlotSound(slots[p])

(* A registered context has the slot its handle names.                     *)
HandlesPoint ==
    /\ DOMAIN handles = ContextIds
    /\ \A c \in ContextIds :
          handles[c] # 0 => handles[c] \in DOMAIN slots /\ slots[handles[c]].ctx = c

(* What the daemon knows of a context, or is about to be told, is a slot   *)
(* of that context.                                                        *)
TablesPoint ==
    /\ caller.is = "register" => OfContext(caller.pos, caller.ctx)
    /\ toDaemon \in Seq(Range(toDaemon))
    /\ \A i \in DOMAIN toDaemon :
          toDaemon[i].is = "register" => OfContext(toDaemon[i].pos, toDaemon[i].ctx)
    /\ DOMAIN tables = ContextIds
    /\ \A c \in ContextIds :
          /\ tables[c] = [pos |-> tables[c].pos, level |-> tables[c].level]
          /\ tables[c] = Unknown \/ OfContext(tables[c].pos, c)

(* So is what the daemon sends; injections are numbered as they are sent.  *)
MessagesPoint ==
    /\ toUser \in Seq(Range(toUser)) /\ events \in Nat
    /\ \A i \in DOMAIN toUser : toUser[i].pos \in DOMAIN slots
    /\ \A i \in DOMAIN toUser : toUser[i].is = "injection" =>
          /\ OfContext(toUser[i].pos, toUser[i].ctx)
          /\ toUser[i].number \in Nat /\ toUser[i].number < events
    /\ \A i, j \in DOMAIN toUser :
          i < j /\ toUser[i].is = "injection" /\ toUser[j].is = "injection"
              => toUser[i].number < toUser[j].number

(* The callback that is about to be called was taken for the message at    *)
(* the front, which is not yet removed.                                    *)
ReceiverSound ==
    /\ receiver.is = "changed" => toUser # <<>> /\ receiver.pos \in DOMAIN slots
    /\ receiver.is = "injection" =>
          /\ toUser # <<>> /\ receiver.message = toUser[1] /\ toUser[1].is = "injection"
          /\ receiver.callback.ctx = receiver.message.ctx
          /\ receiver.callback.service = receiver.message.service

(* The callbacks called were the right ones, for messages sent before      *)
(* those that are still on the way.                                        *)
InvokedSound ==
    /\ invoked \in Seq(Range(invoked))
    /\ InjectionsReachTheirs
    /\ \A i \in DOMAIN invoked :
          /\ invoked[i].message.number \in Nat /\ invoked[i].message.number < events
          /\ \A j \in DOMAIN toUser :
                toUser[j].is = "injection" => invoked[i].message.number < toUser[j].number

IInv ==
    /\ SlotsSound /\ HandlesPoint /\ TablesPoint /\ MessagesPoint /\ ReceiverSound /\ InvokedSound

-----------------------------------------------------------------------------
(* Slots only come, and keep their context until they lose it.             *)
Grow ==
    /\ DOMAIN slots \subseteq DOMAIN slots'
    /\ \A p \in DOMAIN slots : slots'[p].ctx \in {slots[p].ctx, EmptyId}

(* A position of a context stays one.                                      *)
LEMMA GrowKeeps ==
  ASSUME Grow, NEW p, NEW c, OfContext(p, c)
  PROVE  OfContext(p, c)'
BY DEF Grow, OfContext

(* No context has the id of an empty slot.                                 *)
LEMMA EmptyIsNoContext == \A c \in ContextIds : c # EmptyId
BY ContextsAssumption DEF EmptyId

(* One slot changes, and keeps its context or loses it.                    *)
LEMMA OneSlotChanges ==
  ASSUME SlotsSound, NEW p \in DOMAIN slots, NEW s, SlotSound(s),
         s.ctx \in {slots[p].ctx, EmptyId}, slots' = [slots EXCEPT ![p] = s]
  PROVE  /\ SlotsSound' /\ Grow /\ DOMAIN slots' = DOMAIN slots
         /\ slots'[p] = s /\ \A q \in DOMAIN slots : q # p => slots'[q] = slots[q]
<1>1. slots \in Seq(Range(slots))
  BY DEF SlotsSound
<1>2. /\ DOMAIN slots' = DOMAIN slots
      /\ slots'[p] = s /\ \A q \in DOMAIN slots : q # p => slots'[q] = slots[q]
  OBVIOUS
<1>3. slots' \in Seq(Range(slots'))
  BY <1>1, ExceptAny
<1>4. \A q \in DOMAIN slots' : SlotSound(slots'[q])
  BY <1>2 DEF SlotsSound
<1>5. SlotsSound'
  <2>1. \A q \in DOMAIN slots' : SlotSound(slots[q])'
    BY <1>4 DEF SlotSound
  <2> QED
    BY <1>3, <2>1 DEF SlotsSound
<1>6. Grow
  BY <1>2 DEF Grow
<1> QED
  BY <1>2, <1>5, <1>6

(* A slot whose fields other than context and callbacks change is sound.   *)
LEMMA SlotFieldsChange ==
  ASSUME NEW s, SlotSound(s), NEW level, NEW cell, NEW changed, NEW told
  PROVE  LET t == [ctx |-> s.ctx, level |-> level, cell |-> cell,
                   injections |-> s.injections, changed |-> changed, told |-> told]
         IN  SlotSound(t) /\ t.ctx = s.ctx
BY DEF SlotSound

(* A context gets a slot at the end of the table.                          *)
LEMMA RegisterSlots ==
  ASSUME IInv, NEW c \in ContextIds, NEW asked, dlt_register_context_ll_ts_llccb(c, asked)
  PROVE  /\ SlotsSound' /\ Grow /\ HandlesPoint'
         /\ caller'.is = "register" /\ caller'.ctx = c /\ OfContext(caller.pos, caller.ctx)'
<1> DEFINE env == dlt_env_adjust_ll_from_env(dlt_env_extract_ll_set(environment), ThisApp, c, NotSet)
           loglevel == IF env # NotSet THEN env ELSE asked
           first == IF loglevel = NotSet THEN InitialLevel ELSE loglevel
           n == Len(slots)
<1>1. slots \in Seq(Range(slots)) /\ DOMAIN slots = 1 .. n /\ n \in Nat
  BY RangeOfSequence DEF IInv, SlotsSound
<1>2. /\ slots' = [p \in 1 .. (IF n + 1 > n THEN n + 1 ELSE n) |->
                      IF p = n + 1 THEN Slot(c, first) ELSE slots[p]]
      /\ handles' = [handles EXCEPT ![c] = n + 1]
      /\ caller' = Message("register", c, n + 1, loglevel)
  BY DEF dlt_register_context_ll_ts_llccb, NewPosition
<1> HIDE DEF env, loglevel, first
<1>3. slots' = [p \in 1 .. n + 1 |-> IF p = n + 1 THEN Slot(c, first) ELSE slots[p]]
  BY <1>1, <1>2
<1>4. /\ DOMAIN slots' = 1 .. n + 1 /\ slots'[n + 1] = Slot(c, first)
      /\ \A p \in 1 .. n : slots'[p] = slots[p]
  BY <1>1, <1>3
<1>5. SlotsSound'
  <2>1. slots' \in Seq(Range(slots'))
    <3>1. slots' \in [1 .. n + 1 -> Range(slots')]
      BY <1>3, <1>4 DEF Range
    <3> QED
      BY <3>1, <1>1
  <2>2. SlotSound(Slot(c, first))
    <3>1. <<>> \in Seq(Range(<<>>)) /\ DOMAIN <<>> = {}
      OBVIOUS
    <3> QED
      BY <3>1 DEF SlotSound, Slot
  <2>3. \A p \in 1 .. n + 1 : p = n + 1 \/ p \in 1 .. n
    BY <1>1
  <2>4. \A p \in DOMAIN slots' : SlotSound(slots'[p])
    BY <1>1, <1>4, <2>2, <2>3 DEF IInv, SlotsSound
  <2>5. \A p \in DOMAIN slots' : SlotSound(slots[p])'
    BY <2>4 DEF SlotSound
  <2> QED
    BY <2>1, <2>5 DEF SlotsSound
<1>6. Grow
  <2>1. \A p \in 1 .. n : p \in 1 .. n + 1
    BY <1>1
  <2> QED
    BY <1>1, <1>4, <2>1 DEF Grow
<1>7. HandlesPoint'
  <2>1. /\ DOMAIN handles' = ContextIds /\ handles'[c] = n + 1
        /\ \A d \in ContextIds : d # c => handles'[d] = handles[d]
    BY <1>2 DEF IInv, HandlesPoint
  <2>2. n + 1 \in DOMAIN slots' /\ slots'[n + 1].ctx = c
    BY <1>1, <1>4 DEF Slot
  <2>3. \A d \in ContextIds : handles[d] # 0 =>
           handles[d] \in DOMAIN slots' /\ slots'[handles[d]].ctx = d
    BY <1>1, <1>4, <1>6 DEF IInv, HandlesPoint, Grow
  <2> QED
    BY <2>1, <2>2, <2>3 DEF HandlesPoint
<1>8. caller'.is = "register" /\ caller'.ctx = c /\ caller'.pos = n + 1
  BY <1>2 DEF Message
<1>9. OfContext(caller.pos, caller.ctx)'
  BY <1>1, <1>4, <1>8 DEF OfContext, Slot
<1> QED
  BY <1>5, <1>6, <1>7, <1>8, <1>9

(* The slot of a context is emptied.                                       *)
LEMMA UnregisterSlots ==
  ASSUME IInv, NEW c \in ContextIds, dlt_unregister_context(c)
  PROVE  SlotsSound' /\ Grow /\ HandlesPoint' /\ caller'.is = "unregister"
<1> DEFINE s == [Slot(EmptyId, InitialLevel) EXCEPT !.cell = NoCell]
           p == handles[c]
<1>1. /\ slots' = [slots EXCEPT ![p] = s] /\ handles' = [handles EXCEPT ![c] = 0]
      /\ caller'.is = "unregister"
      /\ p \in DOMAIN slots /\ slots[p].ctx = c
  BY DEF dlt_unregister_context, Message, IInv, HandlesPoint
<1>2. SlotSound(s) /\ s.ctx = EmptyId
  <2>1. <<>> \in Seq(Range(<<>>)) /\ DOMAIN <<>> = {}
    OBVIOUS
  <2> QED
    BY <2>1 DEF SlotSound, Slot
<1> HIDE DEF s, p
<1>3. /\ SlotsSound' /\ Grow /\ DOMAIN slots' = DOMAIN slots
      /\ \A q \in DOMAIN slots : q # p => slots'[q] = slots[q]
  BY <1>1, <1>2, OneSlotChanges DEF IInv
<1>4. HandlesPoint'
  <2>1. \A d \in ContextIds : d # c /\ handles[d] # 0 => handles[d] # p
    BY <1>1 DEF IInv, HandlesPoint
  <2> QED
    BY <1>1, <1>3, <2>1 DEF IInv, HandlesPoint
<1> QED
  BY <1>1, <1>3, <1>4

(* If the contexts of the slots stay, the handles name their slots.        *)
LEMMA HandlesStay ==
  ASSUME HandlesPoint, handles' = handles, DOMAIN slots \subseteq DOMAIN slots',
         \A p \in DOMAIN slots : slots'[p].ctx = slots[p].ctx
  PROVE  HandlesPoint'
BY DEF HandlesPoint

(* A callback comes into the slot of its context.                          *)
LEMMA InjectionSlots ==
  ASSUME IInv, NEW c \in ContextIds, NEW service,
         dlt_register_injection_callback_with_id(c, service)
  PROVE  SlotsSound' /\ Grow /\ HandlesPoint'
<1> DEFINE p == handles[c]
           table == slots[p].injections
           new == [service |-> service,
                   callback |-> [ctx |-> c, service |-> service, number |-> events]]
           k == SelectInSeq(table, LAMBDA e : e.service = service)
           table2 == IF k = 0 THEN Append(table, new) ELSE [table EXCEPT ![k] = new]
<1>1. p \in DOMAIN slots /\ slots[p].ctx = c /\ SlotSound(slots[p]) /\ handles' = handles
  BY DEF dlt_register_injection_callback_with_id, IInv, HandlesPoint, SlotsSound
<1>2. slots' = [slots EXCEPT ![p].injections = table2]
  BY DEF dlt_register_injection_callback_with_id
<1>3. table2 = Append(table, new) \/ \E q : table2 = [table EXCEPT ![q] = new]
  OBVIOUS
<1>4. /\ table \in Seq(Range(table)) /\ DOMAIN table = 1 .. Len(table) /\ Len(table) \in Nat
      /\ \A q \in DOMAIN table : /\ table[q].callback.ctx = c
                                 /\ table[q].callback.service = table[q].service
  BY <1>1, RangeOfSequence DEF SlotSound
<1>5. new.callback.ctx = c /\ new.callback.service = new.service
  OBVIOUS
<1> HIDE DEF table2, k, new
<1>6. /\ table2 \in Seq(Range(table2))
      /\ \A q \in DOMAIN table2 : /\ table2[q].callback.ctx = c
                                  /\ table2[q].callback.service = table2[q].service
  <2>1. CASE table2 = Append(table, new)
    <3>1. /\ Append(table, new) \in Seq(Range(Append(table, new)))
          /\ DOMAIN Append(table, new) = 1 .. Len(table) + 1
          /\ \A i \in 1 .. Len(table) : Append(table, new)[i] = table[i]
          /\ Append(table, new)[Len(table) + 1] = new
      BY <1>4, AppendAny
    <3>2. \A q \in 1 .. Len(table) + 1 : q \in 1 .. Len(table) \/ q = Len(table) + 1
      BY <1>4
    <3>3. DOMAIN table2 = 1 .. Len(table) + 1 /\ table2 \in Seq(Range(table2))
      BY <2>1, <3>1
    <3>4. ASSUME NEW q \in DOMAIN table2
          PROVE  table2[q].callback.ctx = c /\ table2[q].callback.service = table2[q].service
      <4>1. CASE q \in 1 .. Len(table)
        <5>1. table2[q] = table[q] /\ q \in DOMAIN table
          BY <2>1, <3>1, <1>4, <4>1
        <5> QED
          BY <5>1, <1>4
      <4>2. CASE q = Len(table) + 1
        <5>1. table2[q] = new
          BY <2>1, <3>1, <4>2
        <5> QED
          BY <5>1, <1>5
      <4> QED
        BY <3>2, <3>3, <4>1, <4>2
    <3> QED
      BY <3>3, <3>4
  <2>2. ASSUME NEW q, table2 = [table EXCEPT ![q] = new]
        PROVE  /\ table2 \in Seq(Range(table2))
               /\ \A r \in DOMAIN table2 : /\ table2[r].callback.ctx = c
                                           /\ table2[r].callback.service = table2[r].service
    <3>1. DOMAIN table2 = 1 .. Len(table) /\ \A r \in DOMAIN table2 : table2[r] \in {new, table[r]}
      BY <1>4, <2>2
    <3>2. table2 \in [1 .. Len(table) -> Range(table2)]
      BY <2>2, <3>1 DEF Range
    <3>3. table2 \in Seq(Range(table2))
      BY <3>2, <1>4
    <3> QED
      BY <3>1, <3>3, <1>4, <1>5
  <2> QED
    BY <1>3, <2>1, <2>2
<1> DEFINE s == [slots[p] EXCEPT !.injections = table2]
<1>7. slots' = [slots EXCEPT ![p] = s]
  BY <1>2
<1>8. s.ctx = c /\ SlotSound(s)
  <2>1. s = [ctx |-> slots[p].ctx, level |-> slots[p].level, cell |-> slots[p].cell,
             injections |-> table2, changed |-> slots[p].changed, told |-> slots[p].told]
    BY <1>1 DEF SlotSound
  <2> HIDE DEF s
  <2>2. s.injections = table2 /\ s.ctx = c
    BY <1>1, <2>1
  <2>3. c # EmptyId /\ c \in ContextIds
    BY EmptyIsNoContext
  <2> QED
    BY <1>6, <2>1, <2>2, <2>3 DEF SlotSound
<1> HIDE DEF s, p
<1>9. /\ SlotsSound' /\ Grow /\ DOMAIN slots' = DOMAIN slots
      /\ slots'[p] = s /\ \A q \in DOMAIN slots : q # p => slots'[q] = slots[q]
  BY <1>1, <1>7, <1>8, OneSlotChanges DEF IInv
<1>10. HandlesPoint'
  BY <1>1, <1>8, <1>9, HandlesStay DEF IInv
<1> QED
  BY <1>9, <1>10

(* A step that changes other fields of a slot.                             *)
LEMMA FieldsSlots ==
  ASSUME IInv, NEW p \in DOMAIN slots, NEW s, handles' = handles,
         \E level, cell, changed, told :
            s = [ctx |-> slots[p].ctx, level |-> level, cell |-> cell,
                 injections |-> slots[p].injections, changed |-> changed, told |-> told],
         slots' = [slots EXCEPT ![p] = s]
  PROVE  SlotsSound' /\ Grow /\ HandlesPoint'
<1>1. SlotSound(s) /\ s.ctx = slots[p].ctx
  BY SlotFieldsChange DEF IInv, SlotsSound
<1>2. /\ SlotsSound' /\ Grow /\ DOMAIN slots' = DOMAIN slots
      /\ slots'[p] = s /\ \A q \in DOMAIN slots : q # p => slots'[q] = slots[q]
  BY <1>1, OneSlotChanges DEF IInv
<1>3. HandlesPoint'
  BY <1>1, <1>2, HandlesStay DEF IInv
<1> QED
  BY <1>2, <1>3

(* A step that leaves the slots and the handles alone.                     *)
LEMMA SameSlots ==
  ASSUME IInv, slots' = slots, handles' = handles
  PROVE  SlotsSound' /\ Grow /\ HandlesPoint'
BY DEF IInv, SlotsSound, SlotSound, HandlesPoint, Grow

(* The level of every context is limited.                                  *)
LEMMA LimitSlots ==
  ASSUME IInv, NEW level, dlt_set_application_ll_ts_limit(level)
  PROVE  SlotsSound' /\ Grow /\ HandlesPoint' /\ caller'.is = "limit"
<1>1. /\ slots \in Seq(Range(slots)) /\ DOMAIN slots = 1 .. Len(slots) /\ Len(slots) \in Nat
      /\ \A p \in DOMAIN slots : SlotSound(slots[p])
  BY RangeOfSequence DEF IInv, SlotsSound
<1>2. /\ slots' = [p \in DOMAIN slots |->
                    [slots[p] EXCEPT !.level = level, !.cell = IF @ = NoCell THEN @ ELSE level]]
      /\ handles' = handles /\ caller'.is = "limit"
  BY DEF dlt_set_application_ll_ts_limit, Message
<1>3. \A p \in DOMAIN slots : SlotSound(slots'[p]) /\ slots'[p].ctx = slots[p].ctx
  <2> SUFFICES ASSUME NEW p \in DOMAIN slots
               PROVE  SlotSound(slots'[p]) /\ slots'[p].ctx = slots[p].ctx
    OBVIOUS
  <2> DEFINE cell == IF slots[p].cell = NoCell THEN slots[p].cell ELSE level
  <2>1. slots'[p] = [slots[p] EXCEPT !.level = level, !.cell = cell]
    BY <1>2
  <2> HIDE DEF cell
  <2>2. slots'[p] = [ctx |-> slots[p].ctx, level |-> level, cell |-> cell,
                     injections |-> slots[p].injections, changed |-> slots[p].changed,
                     told |-> slots[p].told]
    BY <1>1, <2>1 DEF SlotSound
  <2> QED
    BY <1>1, <2>2, SlotFieldsChange
<1>4. DOMAIN slots' = DOMAIN slots /\ slots' \in Seq(Range(slots'))
  <2>1. slots' = [p \in 1 .. Len(slots) |-> slots'[p]]
    BY <1>1, <1>2
  <2> QED
    BY <1>1, <2>1, FunctionAny
<1>5. SlotsSound'
  <2>1. \A p \in DOMAIN slots' : SlotSound(slots[p])'
    BY <1>3, <1>4 DEF SlotSound
  <2> QED
    BY <1>4, <2>1 DEF SlotsSound
<1> QED
  BY <1>2, <1>3, <1>4, <1>5, HandlesStay DEF IInv, Grow

(* A callback for changed levels comes into the slot of its context.       *)
LEMMA ChangedSlots ==
  ASSUME IInv, NEW c \in ContextIds, dlt_register_log_level_changed_callback(c)
  PROVE  SlotsSound' /\ Grow /\ HandlesPoint'
<1> DEFINE p == handles[c]
           s == [slots[p] EXCEPT !.changed = events, !.told = NotSet]
<1>1. p \in DOMAIN slots /\ handles' = handles /\ SlotSound(slots[p])
  BY DEF dlt_register_log_level_changed_callback, IInv, HandlesPoint, SlotsSound
<1>2. slots' = [slots EXCEPT ![p] = s]
  BY <1>1 DEF dlt_register_log_level_changed_callback
<1> HIDE DEF p
<1>3. s = [slots[p] EXCEPT !.changed = events, !.told = NotSet]
  OBVIOUS
<1> HIDE DEF s
<1>4. s = [ctx |-> slots[p].ctx, level |-> slots[p].level, cell |-> slots[p].cell,
           injections |-> slots[p].injections, changed |-> events, told |-> NotSet]
  BY <1>1, <1>3 DEF SlotSound
<1> QED
  BY <1>1, <1>2, <1>4, FieldsSlots

(* A level comes from the daemon.                                          *)
LEMMA LevelSlots ==
  ASSUME IInv, ReceivesLevel
  PROVE  SlotsSound' /\ Grow /\ HandlesPoint'
<1> DEFINE m == Head(toUser)
           p == m.pos
           cell == IF slots[p].cell = NoCell THEN slots[p].cell ELSE m.level
           s == [slots[p] EXCEPT !.level = m.level, !.cell = cell]
<1>1. toUser # <<>> /\ toUser \in Seq(Range(toUser))
  BY DEF ReceivesLevel, IInv, MessagesPoint
<1>2. m = toUser[1] /\ 1 \in DOMAIN toUser
  BY <1>1, TailAny, RangeOfSequence
<1>3. p \in DOMAIN slots /\ SlotSound(slots[p])
  BY <1>2 DEF IInv, MessagesPoint, SlotsSound
<1>4. slots' = [slots EXCEPT ![m.pos].level = m.level,
                             ![m.pos].cell = IF @ = NoCell THEN @ ELSE m.level]
      /\ handles' = handles
  BY DEF ReceivesLevel
<1> HIDE DEF m
<1>5. slots' = [slots EXCEPT ![p] = s]
  BY <1>3, <1>4 DEF SlotSound
<1> HIDE DEF cell, p
<1>6. s = [slots[p] EXCEPT !.level = m.level, !.cell = cell]
  OBVIOUS
<1> HIDE DEF s
<1>7. s = [ctx |-> slots[p].ctx, level |-> m.level, cell |-> cell,
           injections |-> slots[p].injections, changed |-> slots[p].changed,
           told |-> slots[p].told]
  BY <1>3, <1>6 DEF SlotSound
<1> QED
  BY <1>3, <1>4, <1>5, <1>7, FieldsSlots

(* The callback for changed levels is told.                                *)
LEMMA ToldSlots ==
  ASSUME IInv, CallsLevelCallback
  PROVE  SlotsSound' /\ Grow /\ HandlesPoint'
<1> DEFINE p == receiver.pos
           told == IF slots[p].changed = receiver.number THEN receiver.level ELSE slots[p].told
           s == [slots[p] EXCEPT !.told = told]
<1>1. p \in DOMAIN slots /\ handles' = handles /\ SlotSound(slots[p])
  BY DEF CallsLevelCallback, IInv, ReceiverSound, SlotsSound
<1>2. slots' = [slots EXCEPT ![p].told =
                   IF slots[p].changed = receiver.number THEN receiver.level ELSE @]
  BY DEF CallsLevelCallback
<1>3. slots' = [slots EXCEPT ![p] = s]
  BY <1>1, <1>2
<1> HIDE DEF told, p
<1>4. s = [slots[p] EXCEPT !.told = told]
  OBVIOUS
<1> HIDE DEF s
<1>5. s = [ctx |-> slots[p].ctx, level |-> slots[p].level, cell |-> slots[p].cell,
           injections |-> slots[p].injections, changed |-> slots[p].changed, told |-> told]
  BY <1>1, <1>4 DEF SlotSound
<1> QED
  BY <1>1, <1>3, <1>5, FieldsSlots

(* No step takes a slot from its context for another one.                  *)
LEMMA SlotsStep ==
  ASSUME IInv, [ContextsNext]_contextVars
  PROVE  SlotsSound' /\ Grow /\ HandlesPoint'
<1>1. CASE UNCHANGED contextVars
  BY <1>1, SameSlots DEF contextVars
<1>2. ASSUME NEW c \in ContextIds, NEW asked, dlt_register_context_ll_ts_llccb(c, asked)
      PROVE  SlotsSound' /\ Grow /\ HandlesPoint'
  BY <1>2, RegisterSlots
<1>3. ASSUME NEW c \in ContextIds, dlt_unregister_context(c)
      PROVE  SlotsSound' /\ Grow /\ HandlesPoint'
  BY <1>3, UnregisterSlots
<1>4. ASSUME NEW c \in ContextIds, NEW s, dlt_register_injection_callback_with_id(c, s)
      PROVE  SlotsSound' /\ Grow /\ HandlesPoint'
  BY <1>4, InjectionSlots
<1>5. ASSUME NEW c \in ContextIds, NEW s, ClientInjects(c, s)
      PROVE  SlotsSound' /\ Grow /\ HandlesPoint'
  BY <1>5, SameSlots DEF ClientInjects
<1>6. ASSUME NEW c \in ContextIds, dlt_register_log_level_changed_callback(c)
      PROVE  SlotsSound' /\ Grow /\ HandlesPoint'
  BY <1>6, ChangedSlots
<1>7. ASSUME NEW c \in ContextIds, NEW level, ClientSetsLevel(c, level)
      PROVE  SlotsSound' /\ Grow /\ HandlesPoint'
  BY <1>7, SameSlots DEF ClientSetsLevel
<1>8. ASSUME NEW level, dlt_set_application_ll_ts_limit(level)
      PROVE  SlotsSound' /\ Grow /\ HandlesPoint'
  BY <1>8, LimitSlots
<1>9. CASE WritesToDaemon \/ DaemonReads
  BY <1>9, SameSlots DEF WritesToDaemon, DaemonReads
<1>10. CASE ReceivesInjection \/ CallsInjectionCallback
  BY <1>10, SameSlots DEF ReceivesInjection, CallsInjectionCallback
<1>11. CASE dlt_user_log_check_user_message
  BY <1>10, <1>11, LevelSlots, ToldSlots DEF dlt_user_log_check_user_message
<1> QED
  BY <1>1, <1>2, <1>3, <1>4, <1>5, <1>6, <1>7, <1>8, <1>9, <1>11 DEF ContextsNext

-----------------------------------------------------------------------------
(* The table of the daemon and its messages stay, the caller may register. *)
LEMMA TablesStay ==
  ASSUME IInv, Grow, UNCHANGED <<toDaemon, tables>>,
         caller' = caller \/ caller'.is # "register" \/ OfContext(caller.pos, caller.ctx)'
  PROVE  TablesPoint'
<1>1. \A p, c : OfContext(p, c) => OfContext(p, c)'
  BY GrowKeeps
<1>2. caller'.is = "register" => OfContext(caller.pos, caller.ctx)'
  <2>1. CASE caller' = caller
    <3>1. caller.is = "register" => OfContext(caller.pos, caller.ctx)
      BY DEF IInv, TablesPoint
    <3>2. OfContext(caller.pos, caller.ctx) => OfContext(caller.pos, caller.ctx)'
      BY <2>1 DEF OfContext, Grow
    <3> QED
      BY <2>1, <3>1, <3>2
  <2> QED
    BY <2>1
<1>3. \A i \in DOMAIN toDaemon' :
         toDaemon'[i].is = "register" => OfContext(toDaemon[i].pos, toDaemon[i].ctx)'
  <2>1. ASSUME NEW i \in DOMAIN toDaemon, toDaemon[i].is = "register"
        PROVE  OfContext(toDaemon[i].pos, toDaemon[i].ctx)'
    <3>1. OfContext(toDaemon[i].pos, toDaemon[i].ctx)
      BY <2>1 DEF IInv, TablesPoint
    <3>2. OfContext(toDaemon[i].pos, toDaemon[i].ctx) => OfContext(toDaemon[i].pos, toDaemon[i].ctx)'
      BY DEF OfContext, Grow
    <3> QED
      BY <3>1, <3>2
  <2> QED
    BY <2>1
<1>4. \A c \in ContextIds : tables'[c] = Unknown \/ OfContext(tables[c].pos, c)'
  <2>1. ASSUME NEW c \in ContextIds, tables[c] # Unknown
        PROVE  OfContext(tables[c].pos, c)'
    <3>1. OfContext(tables[c].pos, c)
      BY <2>1 DEF IInv, TablesPoint
    <3>2. OfContext(tables[c].pos, c) => OfContext(tables[c].pos, c)'
      BY DEF OfContext, Grow
    <3> QED
      BY <3>1, <3>2
  <2> QED
    BY <2>1
<1> QED
  BY <1>2, <1>3, <1>4 DEF IInv, TablesPoint, Unknown

(* The message of a call is written.                                       *)
LEMMA WriteTables ==
  ASSUME IInv, WritesToDaemon
  PROVE  TablesPoint'
<1>1. /\ toDaemon' = Append(toDaemon, caller) /\ caller' = NoMessage
      /\ UNCHANGED <<slots, tables>>
      /\ toDaemon \in Seq(Range(toDaemon))
  BY DEF WritesToDaemon, IInv, TablesPoint
<1>2. /\ toDaemon' \in Seq(Range(toDaemon'))
      /\ DOMAIN toDaemon' = 1 .. Len(toDaemon) + 1
      /\ DOMAIN toDaemon = 1 .. Len(toDaemon) /\ Len(toDaemon) \in Nat
      /\ \A i \in 1 .. Len(toDaemon) : toDaemon'[i] = toDaemon[i]
      /\ toDaemon'[Len(toDaemon) + 1] = caller
  BY <1>1, AppendAny, RangeOfSequence
<1>3. \A i \in DOMAIN toDaemon' :
         toDaemon'[i].is = "register" => OfContext(toDaemon'[i].pos, toDaemon'[i].ctx)
  <2> SUFFICES ASSUME NEW i \in 1 .. Len(toDaemon) + 1, toDaemon'[i].is = "register"
               PROVE  OfContext(toDaemon'[i].pos, toDaemon'[i].ctx)
    BY <1>2
  <2>1. CASE i \in 1 .. Len(toDaemon)
    BY <1>2, <2>1 DEF IInv, TablesPoint
  <2>2. CASE i = Len(toDaemon) + 1
    BY <1>2, <2>2 DEF IInv, TablesPoint
  <2> QED
    BY <1>2, <2>1, <2>2
<1>4. \A p, c : OfContext(p, c)' <=> OfContext(p, c)
  BY <1>1 DEF OfContext
<1>5. \A i \in DOMAIN toDaemon' :
         toDaemon'[i].is = "register" => OfContext(toDaemon[i].pos, toDaemon[i].ctx)'
  BY <1>1, <1>3 DEF OfContext
<1>6. \A c \in ContextIds : tables'[c] = Unknown \/ OfContext(tables[c].pos, c)'
  BY <1>1 DEF IInv, TablesPoint, OfContext
<1>7. caller'.is # "register"
  BY <1>1 DEF NoMessage
<1> QED
  BY <1>1, <1>2, <1>5, <1>6, <1>7 DEF IInv, TablesPoint, Unknown

(* The daemon reads a message, and changes its table.                      *)
LEMMA ReadTables ==
  ASSUME IInv, DaemonReads
  PROVE  TablesPoint'
<1> DEFINE m == Head(toDaemon)
<1>1. /\ toDaemon # <<>> /\ toDaemon' = Tail(toDaemon)
      /\ UNCHANGED <<slots, caller>>
      /\ toDaemon \in Seq(Range(toDaemon))
  BY DEF DaemonReads, IInv, TablesPoint
<1>2. /\ toDaemon' \in Seq(Range(toDaemon'))
      /\ DOMAIN toDaemon' = 1 .. Len(toDaemon) - 1
      /\ Len(toDaemon) \in Nat \ {0} /\ DOMAIN toDaemon = 1 .. Len(toDaemon)
      /\ \A i \in 1 .. Len(toDaemon) - 1 : toDaemon'[i] = toDaemon[i + 1]
      /\ m = toDaemon[1]
  BY <1>1, TailAny, RangeOfSequence
<1>3. m.is = "register" => OfContext(m.pos, m.ctx)
  BY <1>2 DEF IInv, TablesPoint
<1> HIDE DEF m
<1>4. \A i \in DOMAIN toDaemon' :
         toDaemon'[i].is = "register" => OfContext(toDaemon[i].pos, toDaemon[i].ctx)'
  <2> SUFFICES ASSUME NEW i \in DOMAIN toDaemon', toDaemon'[i].is = "register"
               PROVE  OfContext(toDaemon[i].pos, toDaemon[i].ctx)'
    OBVIOUS
  <2>1. i + 1 \in DOMAIN toDaemon /\ toDaemon'[i] = toDaemon[i + 1]
    BY <1>2
  <2> QED
    BY <1>1, <2>1 DEF IInv, TablesPoint, OfContext
<1>5. /\ DOMAIN tables' = ContextIds
      /\ \A c \in ContextIds :
            /\ tables'[c] = [pos |-> tables'[c].pos, level |-> tables'[c].level]
            /\ tables'[c] = Unknown \/ OfContext(tables'[c].pos, c)
  <2>0. /\ DOMAIN tables = ContextIds
        /\ \A c \in ContextIds :
              /\ tables[c] = [pos |-> tables[c].pos, level |-> tables[c].level]
              /\ tables[c] = Unknown \/ OfContext(tables[c].pos, c)
    BY DEF IInv, TablesPoint
  <2>1. CASE m.is = "register" /\ DaemonRegisters(m)
    <3> DEFINE k == [pos |-> m.pos, level |-> IF m.level = NotSet THEN DLT_LOG_DEFAULT ELSE m.level]
    <3>1. tables' = [tables EXCEPT ![m.ctx] = k]
      BY <2>1 DEF DaemonRegisters
    <3>2. k.pos = m.pos /\ k = [pos |-> k.pos, level |-> k.level]
      OBVIOUS
    <3> HIDE DEF k
    <3>3. /\ DOMAIN tables' = ContextIds
          /\ \A c \in ContextIds : tables'[c] = IF c = m.ctx THEN k ELSE tables[c]
      BY <2>0, <3>1
    <3> QED
      BY <1>3, <2>0, <2>1, <3>2, <3>3
  <2>2. CASE m.is = "unregister" /\ DaemonUnregisters(m)
    BY <2>0, <2>2 DEF DaemonUnregisters, Unknown
  <2>3. CASE m.is = "limit" /\ dlt_daemon_process_user_message_set_app_ll_ts(m)
    <3>1. tables' = [c \in ContextIds |-> IF c \in {d \in ContextIds : tables[d] # Unknown}
                                          THEN [tables[c] EXCEPT !.level = m.level]
                                          ELSE tables[c]]
      BY <2>3 DEF dlt_daemon_process_user_message_set_app_ll_ts
    <3>2. ASSUME NEW c \in ContextIds
          PROVE  /\ tables'[c] = [pos |-> tables'[c].pos, level |-> tables'[c].level]
                 /\ tables'[c] = Unknown \/ OfContext(tables'[c].pos, c)
      <4>1. CASE tables[c] = Unknown
        BY <2>0, <3>1, <4>1
      <4>2. CASE tables[c] # Unknown
        <5>1. tables'[c] = [tables[c] EXCEPT !.level = m.level]
          BY <3>1, <4>2
        <5>2. tables'[c] = [pos |-> tables[c].pos, level |-> m.level]
          BY <2>0, <5>1
        <5>3. tables'[c].pos = tables[c].pos /\ tables'[c].level = m.level
          BY <5>2
        <5> QED
          BY <2>0, <4>2, <5>2, <5>3
      <4> QED
        BY <4>1, <4>2
    <3> QED
      BY <3>1, <3>2
  <2> QED
    BY <2>1, <2>2, <2>3 DEF DaemonReads, m
<1>6. \A c \in ContextIds : tables'[c] = Unknown \/ OfContext(tables[c].pos, c)'
  BY <1>1, <1>5 DEF OfContext
<1>7. caller'.is = "register" => OfContext(caller.pos, caller.ctx)'
  BY <1>1 DEF IInv, TablesPoint, OfContext
<1> QED
  BY <1>2, <1>4, <1>5, <1>6, <1>7 DEF TablesPoint, Unknown

(* A client sets a level in the daemon's table.                            *)
LEMMA ClientTables ==
  ASSUME IInv, NEW c \in ContextIds, NEW level, ClientSetsLevel(c, level)
  PROVE  /\ TablesPoint' /\ tables'[c].pos \in DOMAIN slots
<1>1. /\ tables[c] # Unknown /\ tables' = [tables EXCEPT ![c].level = level]
      /\ UNCHANGED <<slots, caller, toDaemon>>
  BY DEF ClientSetsLevel
<1>0. /\ DOMAIN tables = ContextIds
      /\ \A d \in ContextIds :
            /\ tables[d] = [pos |-> tables[d].pos, level |-> tables[d].level]
            /\ tables[d] = Unknown \/ OfContext(tables[d].pos, d)
  BY DEF IInv, TablesPoint
<1>2. tables'[c] = [tables[c] EXCEPT !.level = level]
  BY <1>0, <1>1
<1>3. tables'[c] = [pos |-> tables[c].pos, level |-> level]
  BY <1>0, <1>2
<1>4. tables'[c].pos = tables[c].pos /\ tables'[c].level = level
  BY <1>3
<1>5. DOMAIN tables' = ContextIds /\ \A d \in ContextIds : d # c => tables'[d] = tables[d]
  BY <1>0, <1>1
<1>6. \A d \in ContextIds :
         /\ tables'[d] = [pos |-> tables'[d].pos, level |-> tables'[d].level]
         /\ tables'[d] = Unknown \/ OfContext(tables'[d].pos, d)
  BY <1>0, <1>1, <1>3, <1>4, <1>5
<1>7. \A d \in ContextIds : tables'[d] = Unknown \/ OfContext(tables[d].pos, d)'
  BY <1>1, <1>6 DEF OfContext
<1>8. tables'[c].pos \in DOMAIN slots
  BY <1>0, <1>1, <1>4 DEF OfContext
<1>9. /\ toDaemon' \in Seq(Range(toDaemon'))
      /\ \A i \in DOMAIN toDaemon' :
            toDaemon'[i].is = "register" => OfContext(toDaemon[i].pos, toDaemon[i].ctx)'
      /\ caller'.is = "register" => OfContext(caller.pos, caller.ctx)'
  BY <1>1 DEF IInv, TablesPoint, OfContext
<1> QED
  BY <1>5, <1>6, <1>7, <1>8, <1>9 DEF TablesPoint, Unknown

(* What the daemon and the caller know stays to be slots of the contexts.  *)
LEMMA TablesStep ==
  ASSUME IInv, [ContextsNext]_contextVars
  PROVE  TablesPoint'
<1>g. Grow
  BY SlotsStep
<1>1. CASE UNCHANGED contextVars
  BY <1>1, <1>g, TablesStay DEF contextVars
<1>2. ASSUME NEW c \in ContextIds, NEW asked, dlt_register_context_ll_ts_llccb(c, asked)
      PROVE  TablesPoint'
  BY <1>2, <1>g, RegisterSlots, TablesStay DEF dlt_register_context_ll_ts_llccb
<1>3. ASSUME NEW c \in ContextIds, dlt_unregister_context(c)
      PROVE  TablesPoint'
  <2>1. caller'.is # "register"
    BY <1>3, UnregisterSlots
  <2> QED
    BY <1>3, <2>1, <1>g, TablesStay DEF dlt_unregister_context
<1>4. ASSUME NEW c \in ContextIds, NEW s, dlt_register_injection_callback_with_id(c, s)
      PROVE  TablesPoint'
  BY <1>4, <1>g, TablesStay DEF dlt_register_injection_callback_with_id
<1>5. ASSUME NEW c \in ContextIds, NEW s, ClientInjects(c, s)
      PROVE  TablesPoint'
  BY <1>5, <1>g, TablesStay DEF ClientInjects
<1>6. ASSUME NEW c \in ContextIds, dlt_register_log_level_changed_callback(c)
      PROVE  TablesPoint'
  BY <1>6, <1>g, TablesStay DEF dlt_register_log_level_changed_callback
<1>7. ASSUME NEW c \in ContextIds, NEW level, ClientSetsLevel(c, level)
      PROVE  TablesPoint'
  BY <1>7, ClientTables
<1>8. ASSUME NEW level, dlt_set_application_ll_ts_limit(level)
      PROVE  TablesPoint'
  <2>1. caller'.is # "register"
    BY <1>8, LimitSlots
  <2> QED
    BY <1>8, <2>1, <1>g, TablesStay DEF dlt_set_application_ll_ts_limit
<1>9. CASE dlt_user_log_check_user_message
  <2>1. UNCHANGED <<caller, toDaemon, tables>>
    BY <1>9 DEF dlt_user_log_check_user_message, ReceivesLevel, CallsLevelCallback,
                ReceivesInjection, CallsInjectionCallback
  <2> QED
    BY <2>1, <1>g, TablesStay
<1> QED
  BY <1>1, <1>2, <1>3, <1>4, <1>5, <1>6, <1>7, <1>8, <1>9, WriteTables, ReadTables DEF ContextsNext

-----------------------------------------------------------------------------
(* The contexts that are told a level are in order, and all of them.       *)
LEMMA InOrderIs ==
  ASSUME NEW those \in SUBSET ContextIds
  PROVE  LET order == InOrder(those)
             n == Cardinality(those)
         IN  /\ order \in [1 .. n -> those] /\ n \in Nat
             /\ \A i, j \in 1 .. n : i < j => order[i] < order[j]
             /\ \A c \in those : \E i \in 1 .. n : order[i] = c
<1>1. those \in SUBSET Nat /\ IsFiniteSet(those)
  BY ContextsAssumption, FS_Subset
<1> DEFINE order == InOrder(those)
           n == Cardinality(those)
<1>2. \E f \in [1 .. n -> those] : \A i, j \in DOMAIN f : i < j => f[i] < f[j]
  BY <1>1, AscendingExists DEF Ascending
<1>3. order \in [1 .. n -> those] /\ \A i, j \in DOMAIN order : i < j => order[i] < order[j]
  BY <1>2 DEF InOrder
<1>4. n \in Nat
  BY <1>1, FS_CardinalityType
<1> HIDE DEF order
<1>5. \A c \in those : \E i \in 1 .. n : order[i] = c
  BY <1>1, <1>3, AscendingCovers DEF Ascending
<1> QED
  BY <1>3, <1>4, <1>5 DEF order

(* The messages to the application: they stay but for the one at the front *)
(* and those sent now, which are levels, or one injection.                 *)
LEMMA MessagesStep ==
  ASSUME IInv, Grow, events' \in Nat, events <= events',
         NEW r, r \in Seq(Range(r)), toUser' = toUser \o r,
         \A i \in 1 .. Len(r) : r[i].pos \in DOMAIN slots',
         \/ \A i \in 1 .. Len(r) : r[i].is # "injection"
         \/ /\ Len(r) = 1 /\ OfContext(r[1].pos, r[1].ctx)'
            /\ r[1].number = events /\ events' = events + 1
  PROVE  /\ MessagesPoint'
         /\ (\A i \in DOMAIN invoked : \A j \in DOMAIN toUser :
                toUser[j].is = "injection" => invoked[i].message.number < toUser[j].number)
            => (\A i \in DOMAIN invoked : \A j \in DOMAIN toUser' :
                  toUser'[j].is = "injection" => invoked[i].message.number < toUser'[j].number)
         /\ toUser # <<>> => toUser' # <<>> /\ toUser'[1] = toUser[1]
<1>1. /\ toUser' \in Seq(Range(toUser'))
      /\ DOMAIN toUser' = 1 .. Len(toUser) + Len(r)
      /\ DOMAIN toUser = 1 .. Len(toUser) /\ Len(toUser) \in Nat /\ Len(r) \in Nat
      /\ \A i \in 1 .. Len(toUser) : toUser'[i] = toUser[i]
      /\ \A i \in Len(toUser) + 1 .. Len(toUser) + Len(r) : toUser'[i] = r[i - Len(toUser)]
  BY ConcatAny, RangeOfSequence DEF IInv, MessagesPoint
<1>2. \A i \in DOMAIN toUser' :
         \/ i \in DOMAIN toUser /\ toUser'[i] = toUser[i]
         \/ i > Len(toUser) /\ i - Len(toUser) \in 1 .. Len(r) /\ toUser'[i] = r[i - Len(toUser)]
  BY <1>1
<1>3. /\ events \in Nat
      /\ \A i \in DOMAIN toUser : toUser[i].pos \in DOMAIN slots
      /\ \A i \in DOMAIN toUser : toUser[i].is = "injection" =>
            /\ OfContext(toUser[i].pos, toUser[i].ctx)
            /\ toUser[i].number \in Nat /\ toUser[i].number < events
      /\ \A i, j \in DOMAIN toUser :
            i < j /\ toUser[i].is = "injection" /\ toUser[j].is = "injection"
                => toUser[i].number < toUser[j].number
  BY DEF IInv, MessagesPoint
<1>4. \A i \in DOMAIN toUser' : toUser'[i].pos \in DOMAIN slots'
  BY <1>2, <1>3 DEF Grow
<1>5. ASSUME NEW i \in DOMAIN toUser', toUser'[i].is = "injection"
      PROVE  /\ OfContext(toUser[i].pos, toUser[i].ctx)'
             /\ toUser'[i].number \in Nat /\ toUser'[i].number < events'
  <2>1. CASE i \in DOMAIN toUser /\ toUser'[i] = toUser[i]
    BY <1>3, <1>5, <2>1 DEF Grow, OfContext
  <2>2. CASE i > Len(toUser) /\ i - Len(toUser) \in 1 .. Len(r) /\ toUser'[i] = r[i - Len(toUser)]
    <3>1. Len(r) = 1 /\ OfContext(r[1].pos, r[1].ctx)' /\ r[1].number = events /\ events' = events + 1
      BY <1>5, <2>2
    <3>2. i - Len(toUser) = 1
      BY <3>1, <2>2
    <3> QED
      BY <1>3, <2>2, <3>1, <3>2 DEF OfContext
  <2> QED
    BY <1>2, <2>1, <2>2
<1>6. ASSUME NEW i \in DOMAIN toUser', NEW j \in DOMAIN toUser', i < j,
             toUser'[i].is = "injection", toUser'[j].is = "injection"
      PROVE  toUser'[i].number < toUser'[j].number
  <2>1. i \in Nat /\ j \in Nat
    BY <1>1
  <2>2. CASE j \in DOMAIN toUser /\ toUser'[j] = toUser[j]
    <3>1. i \in DOMAIN toUser /\ toUser'[i] = toUser[i]
      BY <1>1, <1>6, <2>1, <2>2
    <3> QED
      BY <1>3, <1>6, <2>2, <3>1
  <2>3. CASE j > Len(toUser) /\ j - Len(toUser) \in 1 .. Len(r) /\ toUser'[j] = r[j - Len(toUser)]
    <3>1. Len(r) = 1 /\ r[1].number = events
      BY <1>6, <2>3
    <3>2. j - Len(toUser) = 1 /\ j = Len(toUser) + 1
      BY <3>1, <2>3, <1>1, <2>1
    <3>3. i \in DOMAIN toUser /\ toUser'[i] = toUser[i]
      BY <1>1, <1>6, <2>1, <3>2
    <3> QED
      BY <1>3, <1>6, <2>3, <3>1, <3>2, <3>3
  <2> QED
    BY <1>2, <2>2, <2>3
<1>7. MessagesPoint'
  BY <1>1, <1>4, <1>5, <1>6 DEF MessagesPoint
<1>8. ASSUME NEW i \in DOMAIN invoked, NEW j \in DOMAIN toUser', toUser'[j].is = "injection",
             \A k \in DOMAIN toUser :
                toUser[k].is = "injection" => invoked[i].message.number < toUser[k].number
      PROVE  invoked[i].message.number < toUser'[j].number
  <2>1. CASE j \in DOMAIN toUser /\ toUser'[j] = toUser[j]
    BY <1>8, <2>1
  <2>2. CASE j > Len(toUser) /\ j - Len(toUser) \in 1 .. Len(r) /\ toUser'[j] = r[j - Len(toUser)]
    <3>1. Len(r) = 1 /\ r[1].number = events
      BY <1>8, <2>2
    <3>2. toUser'[j] = r[1]
      BY <3>1, <2>2
    <3> QED
      BY <3>1, <3>2 DEF IInv, InvokedSound
  <2> QED
    BY <1>2, <2>1, <2>2
<1>9. toUser # <<>> => toUser' # <<>> /\ toUser'[1] = toUser[1]
  <2> SUFFICES ASSUME toUser # <<>> PROVE toUser' # <<>> /\ toUser'[1] = toUser[1]
    OBVIOUS
  <2>1. Len(toUser) # 0
    BY <1>1, TailAny DEF IInv, MessagesPoint
  <2>2. 1 \in DOMAIN toUser /\ 1 \in DOMAIN toUser'
    BY <1>1, <2>1
  <2> QED
    BY <1>1, <2>2
<1> QED
  BY <1>7, <1>8, <1>9

(* What is kept by a step that sends messages, and nothing else about the  *)
(* receiver.                                                               *)
LEMMA SendsStep ==
  ASSUME IInv, Grow, events' \in Nat, events <= events',
         NEW r, r \in Seq(Range(r)), toUser' = toUser \o r,
         \A i \in 1 .. Len(r) : r[i].pos \in DOMAIN slots',
         \/ \A i \in 1 .. Len(r) : r[i].is # "injection"
         \/ /\ Len(r) = 1 /\ OfContext(r[1].pos, r[1].ctx)'
            /\ r[1].number = events /\ events' = events + 1,
         UNCHANGED <<receiver, invoked>>
  PROVE  MessagesPoint' /\ ReceiverSound' /\ InvokedSound'
<1>1. MessagesPoint'
  BY MessagesStep
<1>2. ReceiverSound'
  <2>1. toUser # <<>> => toUser' # <<>> /\ toUser'[1] = toUser[1]
    BY MessagesStep
  <2> QED
    BY <2>1 DEF IInv, ReceiverSound, Grow
<1>3. InvokedSound'
  <2>1. \A i \in DOMAIN invoked : \A j \in DOMAIN toUser' :
           toUser'[j].is = "injection" => invoked[i].message.number < toUser'[j].number
    BY MessagesStep DEF IInv, InvokedSound
  <2>2. \A i \in DOMAIN invoked :
           invoked[i].message.number \in Nat /\ invoked[i].message.number < events'
    BY DEF IInv, InvokedSound, MessagesPoint
  <2>3. InjectionsReachTheirs'
    BY DEF IInv, InvokedSound, InjectionsReachTheirs
  <2> QED
    BY <2>1, <2>2, <2>3 DEF IInv, InvokedSound
<1> QED
  BY <1>1, <1>2, <1>3

(* A step that sends nothing.                                              *)
LEMMA QuietStep ==
  ASSUME IInv, Grow, UNCHANGED <<toUser, receiver, invoked>>,
         events' = events \/ events' = events + 1
  PROVE  MessagesPoint' /\ ReceiverSound' /\ InvokedSound'
<1>1. events \in Nat /\ events' \in Nat /\ events <= events'
  BY DEF IInv, MessagesPoint
<1>2. PICK r : r = <<>>
  OBVIOUS
<1>3. toUser' = toUser \o r /\ r \in Seq(Range(r)) /\ Len(r) = 0
  BY <1>2, SingletonAny DEF IInv, MessagesPoint
<1>4. \A i \in 1 .. Len(r) : r[i].pos \in DOMAIN slots' /\ r[i].is # "injection"
  BY <1>3
<1> QED
  BY <1>1, <1>3, <1>4, SendsStep

(* The daemon answers a message of the application.                        *)
LEMMA ReadMessages ==
  ASSUME IInv, DaemonReads
  PROVE  MessagesPoint' /\ ReceiverSound' /\ InvokedSound'
<1> DEFINE m == Head(toDaemon)
<1>g. Grow /\ events \in Nat /\ events' = events /\ events <= events
      /\ slots' = slots /\ UNCHANGED <<receiver, invoked>>
  BY SlotsStep DEF DaemonReads, IInv, MessagesPoint, ContextsNext
<1>1. m.is = "register" => OfContext(m.pos, m.ctx)
  <2>1. m = toDaemon[1] /\ 1 \in DOMAIN toDaemon
    BY TailAny, RangeOfSequence DEF DaemonReads, IInv, TablesPoint
  <2> QED
    BY <2>1 DEF IInv, TablesPoint
<1> HIDE DEF m
<1>2. CASE m.is = "register" /\ DaemonRegisters(m)
  <2> DEFINE k == [pos |-> m.pos, level |-> IF m.level = NotSet THEN DLT_LOG_DEFAULT ELSE m.level]
             e == LevelMessage(k)
  <2>1. toUser' = toUser \o <<e>> \/ toUser' = toUser \o <<>>
    BY <1>2 DEF DaemonRegisters, Sends
  <2>2. e.pos = m.pos /\ e.is = "level" /\ m.pos \in DOMAIN slots'
    BY <1>1, <1>2, <1>g DEF LevelMessage, OfContext
  <2> HIDE DEF e
  <2>3. CASE toUser' = toUser \o <<e>>
    <3>1. <<e>> \in Seq(Range(<<e>>)) /\ Len(<<e>>) = 1 /\ <<e>>[1] = e
      BY SingletonAny
    <3>2. \A i \in 1 .. Len(<<e>>) : <<e>>[i].pos \in DOMAIN slots' /\ <<e>>[i].is # "injection"
      BY <2>2, <3>1
    <3> QED
      BY <1>g, <2>3, <3>1, <3>2, SendsStep
  <2>4. CASE toUser' = toUser \o <<>>
    <3>1. UNCHANGED toUser
      BY <2>4, SingletonAny DEF IInv, MessagesPoint
    <3> QED
      BY <1>g, <3>1, QuietStep
  <2> QED
    BY <2>1, <2>3, <2>4
<1>3. CASE m.is = "unregister" /\ DaemonUnregisters(m)
  BY <1>3, <1>g, QuietStep DEF DaemonUnregisters
<1>4. CASE m.is = "limit" /\ dlt_daemon_process_user_message_set_app_ll_ts(m)
  <2> DEFINE those == {c \in ContextIds : tables[c] # Unknown}
             new == [c \in ContextIds |-> IF c \in those THEN [tables[c] EXCEPT !.level = m.level]
                                          ELSE tables[c]]
             order == InOrder(those)
             r == [i \in DOMAIN order |-> LevelMessage(new[order[i]])]
             n == Cardinality(those)
  <2>1. toUser' = toUser \o r
    BY <1>4 DEF dlt_daemon_process_user_message_set_app_ll_ts, Sends
  <2>2. order \in [1 .. n -> those] /\ n \in Nat
    BY InOrderIs
  <2>3. \A c \in those : new[c].pos = tables[c].pos /\ tables[c].pos \in DOMAIN slots
    <3> SUFFICES ASSUME NEW c \in those
                 PROVE  new[c].pos = tables[c].pos /\ tables[c].pos \in DOMAIN slots
      OBVIOUS
    <3>1. /\ tables[c] = [pos |-> tables[c].pos, level |-> tables[c].level]
          /\ OfContext(tables[c].pos, c)
      BY DEF IInv, TablesPoint
    <3>2. new[c] = [tables[c] EXCEPT !.level = m.level]
      OBVIOUS
    <3> QED
      BY <3>1, <3>2 DEF OfContext
  <2> HIDE DEF new, order
  <2>4. r = [i \in 1 .. n |-> LevelMessage(new[order[i]])]
    BY <2>2
  <2>5. \A i \in 1 .. n : r[i].pos \in DOMAIN slots' /\ r[i].is # "injection"
    <3> SUFFICES ASSUME NEW i \in 1 .. n
                 PROVE  r[i].pos \in DOMAIN slots' /\ r[i].is # "injection"
      OBVIOUS
    <3>1. r[i] = LevelMessage(new[order[i]]) /\ order[i] \in those
      BY <2>2, <2>4
    <3>2. r[i].pos = new[order[i]].pos /\ r[i].is = "level"
      BY <3>1 DEF LevelMessage
    <3> QED
      BY <1>g, <2>3, <3>1, <3>2
  <2> HIDE DEF r
  <2>6. r \in Seq(Range(r)) /\ Len(r) = n
    <3>1. r = [i \in 1 .. n |-> r[i]]
      BY <2>4
    <3> QED
      BY <2>2, <3>1, FunctionAny
  <2> QED
    BY <1>g, <2>1, <2>5, <2>6, SendsStep
<1> QED
  BY <1>2, <1>3, <1>4 DEF DaemonReads, m

(* The message at the front is done with: no callback was called, or, for  *)
(* an injection, one of its context and its service.                       *)
LEMMA RemovedStep ==
  ASSUME IInv, Grow, toUser # <<>>, Removed, receiver' = NoCallback, events' = events,
         NEW callback,
         \/ invoked' = invoked
         \/ /\ toUser[1].is = "injection"
            /\ invoked' = Append(invoked, [message |-> toUser[1], callback |-> callback])
            /\ callback.ctx = toUser[1].ctx /\ callback.service = toUser[1].service
  PROVE  MessagesPoint' /\ ReceiverSound' /\ InvokedSound'
<1>1. /\ toUser' \in Seq(Range(toUser'))
      /\ DOMAIN toUser' = 1 .. Len(toUser) - 1 /\ DOMAIN toUser = 1 .. Len(toUser)
      /\ Len(toUser) \in Nat \ {0}
      /\ \A i \in 1 .. Len(toUser) - 1 : toUser'[i] = toUser[i + 1]
  BY TailAny, RangeOfSequence DEF IInv, MessagesPoint, Removed
<1>2. \A i \in DOMAIN toUser' :
         i \in Nat /\ i + 1 \in DOMAIN toUser /\ 1 < i + 1 /\ toUser'[i] = toUser[i + 1]
  BY <1>1
<1>3. 1 \in DOMAIN toUser
  BY <1>1
<1>4. MessagesPoint'
  <2>1. \A i \in DOMAIN toUser' : toUser'[i].pos \in DOMAIN slots'
    BY <1>2 DEF IInv, MessagesPoint, Grow
  <2>2. \A i \in DOMAIN toUser' : toUser'[i].is = "injection" =>
          /\ OfContext(toUser[i].pos, toUser[i].ctx)'
          /\ toUser'[i].number \in Nat /\ toUser'[i].number < events'
    BY <1>2 DEF IInv, MessagesPoint, Grow, OfContext
  <2>3. \A i, j \in DOMAIN toUser' :
          i < j /\ toUser'[i].is = "injection" /\ toUser'[j].is = "injection"
              => toUser'[i].number < toUser'[j].number
    <3>1. \A i, j \in DOMAIN toUser :
            i < j /\ toUser[i].is = "injection" /\ toUser[j].is = "injection"
                => toUser[i].number < toUser[j].number
      BY DEF IInv, MessagesPoint
    <3>2. \A i, j \in DOMAIN toUser' : i < j => i + 1 < j + 1
      BY <1>2
    <3> QED
      BY <1>2, <3>1, <3>2
  <2>4. events' \in Nat
    BY DEF IInv, MessagesPoint
  <2> QED
    BY <1>1, <2>1, <2>2, <2>3, <2>4 DEF MessagesPoint
<1>5. ReceiverSound'
  BY DEF ReceiverSound, NoCallback
<1>6. CASE invoked' = invoked
  <2>1. \A i \in DOMAIN invoked : \A j \in DOMAIN toUser' :
          toUser'[j].is = "injection" => invoked[i].message.number < toUser'[j].number
    BY <1>2 DEF IInv, InvokedSound
  <2>2. InjectionsReachTheirs'
    BY <1>6 DEF IInv, InvokedSound, InjectionsReachTheirs
  <2> QED
    BY <1>4, <1>5, <1>6, <2>1, <2>2 DEF IInv, InvokedSound
<1>7. CASE /\ toUser[1].is = "injection"
           /\ invoked' = Append(invoked, [message |-> toUser[1], callback |-> callback])
           /\ callback.ctx = toUser[1].ctx /\ callback.service = toUser[1].service
  <2> DEFINE new == [message |-> toUser[1], callback |-> callback]
             n == Len(invoked)
  <2>1. new.message = toUser[1] /\ new.callback = callback
    OBVIOUS
  <2> HIDE DEF new
  <2>2. invoked \in Seq(Range(invoked))
    BY DEF IInv, InvokedSound
  <2>3. /\ invoked' \in Seq(Range(invoked'))
        /\ DOMAIN invoked' = 1 .. n + 1 /\ n \in Nat /\ DOMAIN invoked = 1 .. n
        /\ \A i \in 1 .. n : invoked'[i] = invoked[i]
        /\ invoked'[n + 1] = new
    BY <1>7, <2>2, AppendAny, RangeOfSequence DEF new
  <2>4. \A i \in DOMAIN invoked' : (i \in DOMAIN invoked /\ invoked'[i] = invoked[i]) \/ i = n + 1
    BY <2>3
  <2>5. new.message.number \in Nat /\ new.message.number < events
    BY <1>3, <1>7, <2>1 DEF IInv, MessagesPoint
  <2>6. \A i \in DOMAIN invoked : invoked[i].message.number < new.message.number
    BY <1>3, <1>7, <2>1 DEF IInv, InvokedSound
  <2>7. \A j \in DOMAIN toUser' : toUser'[j].is = "injection" => new.message.number < toUser'[j].number
    BY <1>2, <1>3, <1>7, <2>1 DEF IInv, MessagesPoint
  <2>8. InjectionsReachTheirs'
    <3>1. \A i \in DOMAIN invoked' :
            /\ invoked'[i].callback.ctx = invoked'[i].message.ctx
            /\ invoked'[i].callback.service = invoked'[i].message.service
      BY <1>7, <2>1, <2>3, <2>4 DEF IInv, InvokedSound, InjectionsReachTheirs
    <3>2. ASSUME NEW i \in DOMAIN invoked', NEW j \in DOMAIN invoked', i < j
          PROVE  invoked'[i].message.number < invoked'[j].message.number
      <4>1. i \in DOMAIN invoked /\ invoked'[i] = invoked[i]
        BY <2>3, <2>4, <3>2
      <4>2. CASE j = n + 1
        BY <2>3, <2>6, <4>1, <4>2
      <4>3. CASE j \in DOMAIN invoked /\ invoked'[j] = invoked[j]
        BY <3>2, <4>1, <4>3 DEF IInv, InvokedSound, InjectionsReachTheirs
      <4> QED
        BY <2>4, <4>2, <4>3
    <3> QED
      BY <3>1, <3>2 DEF InjectionsReachTheirs
  <2>9. \A i \in DOMAIN invoked' :
          /\ invoked'[i].message.number \in Nat /\ invoked'[i].message.number < events'
          /\ \A j \in DOMAIN toUser' :
                toUser'[j].is = "injection" => invoked'[i].message.number < toUser'[j].number
    <3>1. \A i \in DOMAIN invoked :
            /\ invoked[i].message.number \in Nat /\ invoked[i].message.number < events
            /\ \A j \in DOMAIN toUser' :
                  toUser'[j].is = "injection" => invoked[i].message.number < toUser'[j].number
      BY <1>2 DEF IInv, InvokedSound
    <3> QED
      BY <2>3, <2>4, <2>5, <2>7, <3>1
  <2> QED
    BY <1>4, <1>5, <2>3, <2>8, <2>9 DEF InvokedSound
<1> QED
  BY <1>6, <1>7

(* A client changes a level, or injects.                                   *)
LEMMA ClientMessages ==
  ASSUME IInv, Grow, NEW c \in ContextIds, NEW s,
         ClientSetsLevel(c, s) \/ ClientInjects(c, s)
  PROVE  MessagesPoint' /\ ReceiverSound' /\ InvokedSound'
<1>1. /\ events' \in Nat /\ events <= events' /\ events' = events + 1
      /\ slots' = slots /\ UNCHANGED <<receiver, invoked>>
  BY DEF ClientSetsLevel, ClientInjects, Requests, IInv, MessagesPoint
<1>2. CASE ClientSetsLevel(c, s)
  <2> DEFINE e == LevelMessage(tables'[c])
  <2>1. toUser' = toUser \o <<e>>
    BY <1>2 DEF ClientSetsLevel, Sends
  <2>2. e.pos \in DOMAIN slots' /\ e.is = "level"
    BY <1>1, <1>2, ClientTables DEF LevelMessage
  <2>3. PICK r : r = <<e>>
    OBVIOUS
  <2> HIDE DEF e
  <2>4. r \in Seq(Range(r)) /\ Len(r) = 1 /\ r[1] = e
    BY <2>3, SingletonAny
  <2>5. \A i \in 1 .. Len(r) : r[i].pos \in DOMAIN slots' /\ r[i].is # "injection"
    BY <2>2, <2>4
  <2>6. toUser' = toUser \o r
    BY <2>1, <2>3
  <2> QED
    BY <1>1, <2>4, <2>5, <2>6, SendsStep
<1>3. CASE ClientInjects(c, s)
  <2> DEFINE e == [is |-> "injection", pos |-> tables[c].pos, level |-> 0, ctx |-> c,
                   service |-> s, number |-> events]
  <2>1. toUser' = toUser \o <<e>>
    BY <1>3 DEF ClientInjects, Sends
  <2>2. OfContext(tables[c].pos, c)
    BY <1>3 DEF ClientInjects, IInv, TablesPoint
  <2>3. e.pos = tables[c].pos /\ e.ctx = c /\ e.number = events
    OBVIOUS
  <2>4. PICK r : r = <<e>>
    OBVIOUS
  <2>5. r \in Seq(Range(r)) /\ Len(r) = 1 /\ r[1] = e
    BY <2>4, SingletonAny
  <2>6. /\ \A i \in 1 .. Len(r) : r[i].pos \in DOMAIN slots'
        /\ OfContext(r[1].pos, r[1].ctx)' /\ r[1].number = events
    BY <1>1, <2>2, <2>3, <2>5 DEF OfContext
  <2>7. toUser' = toUser \o r
    BY <2>1, <2>4
  <2> QED
    BY <1>1, <2>5, <2>6, <2>7, SendsStep
<1> QED
  BY <1>2, <1>3

(* The receiver thread takes a message or calls the callback it has for    *)
(* one.                                                                    *)
LEMMA ReceiverMessages ==
  ASSUME IInv, Grow, dlt_user_log_check_user_message
  PROVE  MessagesPoint' /\ ReceiverSound' /\ InvokedSound'
<1>1. /\ toUser # <<>> => 1 \in DOMAIN toUser /\ Head(toUser) = toUser[1]
      /\ events' = events /\ events \in Nat
  <2>1. toUser \in Seq(Range(toUser)) /\ events \in Nat
    BY DEF IInv, MessagesPoint
  <2>2. toUser # <<>> => 1 \in DOMAIN toUser /\ Head(toUser) = toUser[1]
    BY <2>1, TailAny, RangeOfSequence
  <2>3. events' = events
    BY DEF dlt_user_log_check_user_message, ReceivesLevel, CallsLevelCallback,
           ReceivesInjection, CallsInjectionCallback
  <2> QED
    BY <2>1, <2>2, <2>3
<1>2. ASSUME UNCHANGED <<toUser, invoked>>
      PROVE  MessagesPoint' /\ InvokedSound'
  <2>1. MessagesPoint'
    BY <1>1, <1>2 DEF IInv, MessagesPoint, Grow, OfContext
  <2>2. InvokedSound'
    BY <1>1, <1>2 DEF IInv, InvokedSound, InjectionsReachTheirs
  <2> QED
    BY <2>1, <2>2
<1>3. CASE ReceivesLevel
  <2>1. CASE Removed /\ receiver' = NoCallback
    BY <1>1, <1>3, <2>1, RemovedStep DEF ReceivesLevel
  <2>2. CASE /\ UNCHANGED toUser
             /\ receiver' = [is |-> "changed", pos |-> Head(toUser).pos, level |-> Head(toUser).level,
                             number |-> slots[Head(toUser).pos].changed]
    <3>1. receiver'.is = "changed" /\ receiver'.pos = toUser[1].pos /\ toUser # <<>>
          /\ UNCHANGED invoked
      BY <1>1, <1>3, <2>2 DEF ReceivesLevel
    <3>2. ReceiverSound'
      BY <1>1, <2>2, <3>1 DEF IInv, MessagesPoint, ReceiverSound, Grow
    <3> QED
      BY <1>2, <2>2, <3>1, <3>2
  <2> QED
    BY <1>3, <2>1, <2>2 DEF ReceivesLevel
<1>4. CASE CallsLevelCallback
  BY <1>1, <1>4, RemovedStep DEF CallsLevelCallback, IInv, ReceiverSound
<1>5. CASE ReceivesInjection
  <2> DEFINE m == toUser[1]
             table == slots[m.pos].injections
             k == SelectInSeq(table, LAMBDA e : e.service = m.service)
  <2>1. /\ toUser # <<>> /\ m.is = "injection" /\ UNCHANGED invoked
        /\ \/ k = 0 /\ Removed /\ UNCHANGED receiver
           \/ /\ k # 0 /\ UNCHANGED toUser
              /\ receiver' = [is |-> "injection", message |-> m, callback |-> table[k].callback]
    BY <1>1, <1>5 DEF ReceivesInjection
  <2>2. CASE k = 0 /\ Removed /\ UNCHANGED receiver
    BY <1>1, <1>5, <2>1, <2>2, RemovedStep DEF ReceivesInjection
  <2>3. CASE /\ k # 0 /\ UNCHANGED toUser
             /\ receiver' = [is |-> "injection", message |-> m, callback |-> table[k].callback]
    <3>1. /\ m.pos \in DOMAIN slots /\ SlotSound(slots[m.pos])
          /\ slots[m.pos].ctx \in {m.ctx, EmptyId}
      BY <1>1, <2>1 DEF IInv, MessagesPoint, OfContext, SlotsSound
    <3>2. k \in DOMAIN table /\ table[k].service = m.service
      <4> DEFINE I == {i \in 1 .. Len(table) : table[i].service = m.service}
      <4>1. k = IF I # {} THEN Min(I) ELSE 0
        BY DEF SelectInSeq
      <4>2. I # {} /\ I \in SUBSET Nat /\ DOMAIN table = 1 .. Len(table)
        <5>1. I # {}
          BY <2>3, <4>1
        <5>2. I \in SUBSET Nat
          OBVIOUS
        <5>3. table \in Seq(Range(table))
          BY <3>1 DEF SlotSound
        <5>4. DOMAIN table = 1 .. Len(table)
          BY <5>3, RangeOfSequence
        <5> QED
          BY <5>1, <5>2, <5>4
      <4> HIDE DEF I
      <4>3. k \in I
        BY <4>1, <4>2, MinIsLeast
      <4> QED
        BY <4>2, <4>3 DEF I
    <3> HIDE DEF k
    <3>3. /\ table[k].callback.ctx = slots[m.pos].ctx /\ slots[m.pos].ctx # EmptyId
          /\ table[k].callback.service = m.service
      <4>1. table # <<>>
        BY <3>2
      <4> QED
        BY <3>1, <3>2, <4>1 DEF SlotSound
    <3>4. /\ receiver'.is = "injection" /\ receiver'.message = m
          /\ receiver'.callback = table[k].callback
      BY <2>3
    <3>5. ReceiverSound'
      BY <2>1, <2>3, <3>1, <3>3, <3>4 DEF ReceiverSound
    <3> QED
      BY <1>2, <2>1, <2>3, <3>5
  <2> QED
    BY <2>1, <2>2, <2>3
<1>6. CASE CallsInjectionCallback
  <2>1. /\ toUser # <<>> /\ receiver.message = toUser[1] /\ toUser[1].is = "injection"
        /\ receiver.callback.ctx = toUser[1].ctx
        /\ receiver.callback.service = toUser[1].service
    BY <1>6 DEF CallsInjectionCallback, IInv, ReceiverSound
  <2>2. /\ invoked' = Append(invoked, [message |-> toUser[1], callback |-> receiver.callback])
        /\ receiver' = NoCallback /\ Removed
    BY <1>6, <2>1 DEF CallsInjectionCallback
  <2> QED
    BY <1>1, <2>1, <2>2, RemovedStep
<1> QED
  BY <1>3, <1>4, <1>5, <1>6 DEF dlt_user_log_check_user_message

(* The invariant holds at the start.                                       *)
LEMMA InitInvariant == ContextsInit => IInv
<1> SUFFICES ASSUME ContextsInit PROVE IInv
  OBVIOUS
<1>1. /\ slots = <<>> /\ toDaemon = <<>> /\ toUser = <<>> /\ invoked = <<>> /\ events = 0
      /\ handles = [c \in ContextIds |-> 0] /\ tables = [c \in ContextIds |-> Unknown]
      /\ caller.is = "none" /\ receiver.is = "none"
  BY DEF ContextsInit, NoMessage, NoCallback
<1>2. <<>> \in Seq(Range(<<>>)) /\ \A i \in DOMAIN <<>> : FALSE
  BY SingletonAny
<1>3. SlotsSound /\ HandlesPoint
  BY <1>1, <1>2 DEF SlotsSound, HandlesPoint
<1>4. TablesPoint
  BY <1>1, <1>2 DEF TablesPoint, Unknown
<1>5. MessagesPoint /\ ReceiverSound
  BY <1>1, <1>2 DEF MessagesPoint, ReceiverSound
<1>6. InvokedSound
  BY <1>1, <1>2 DEF InvokedSound, InjectionsReachTheirs
<1> QED
  BY <1>3, <1>4, <1>5, <1>6 DEF IInv

(* And every step keeps it.                                                *)
LEMMA InvariantStep ==
  ASSUME IInv, [ContextsNext]_contextVars
  PROVE  IInv'
<1>1. SlotsSound' /\ Grow /\ HandlesPoint' /\ TablesPoint'
  BY SlotsStep, TablesStep
<1>2. MessagesPoint' /\ ReceiverSound' /\ InvokedSound'
  <2>1. CASE UNCHANGED contextVars
    BY <1>1, <2>1, QuietStep DEF contextVars
  <2>2. ASSUME NEW c \in ContextIds, NEW x,
               \/ dlt_register_context_ll_ts_llccb(c, x) \/ dlt_unregister_context(c)
               \/ dlt_register_injection_callback_with_id(c, x)
               \/ dlt_register_log_level_changed_callback(c)
        PROVE  MessagesPoint' /\ ReceiverSound' /\ InvokedSound'
    <3>1. UNCHANGED <<toUser, receiver, invoked>> /\ events' = events + 1
      BY <2>2 DEF dlt_register_context_ll_ts_llccb, dlt_unregister_context,
                  dlt_register_injection_callback_with_id,
                  dlt_register_log_level_changed_callback, dlt_set_application_ll_ts_limit, Calls
    <3> QED
      BY <1>1, <3>1, QuietStep
  <2>3. ASSUME NEW x, dlt_set_application_ll_ts_limit(x)
        PROVE  MessagesPoint' /\ ReceiverSound' /\ InvokedSound'
    <3>1. UNCHANGED <<toUser, receiver, invoked>> /\ events' = events + 1
      BY <2>3 DEF dlt_set_application_ll_ts_limit, Calls
    <3> QED
      BY <1>1, <3>1, QuietStep
  <2>4. CASE WritesToDaemon
    BY <1>1, <2>4, QuietStep DEF WritesToDaemon
  <2>5. CASE DaemonReads
    BY <2>5, ReadMessages
  <2> QED
    BY <1>1, <2>1, <2>2, <2>3, <2>4, <2>5, ClientMessages, ReceiverMessages DEF ContextsNext
<1> QED
  BY <1>1, <1>2 DEF IInv

-----------------------------------------------------------------------------
(* An injection reaches only a callback of the context and the service it  *)
(* was sent to, once and in order, for any contexts, services and levels:  *)
(* dlt_user_log_check_user_message looks the callback up by a position     *)
(* that the daemon was told when the context was registered, and positions *)
(* of dlt_ll_ts are not used again.                                        *)
THEOREM InjectionsTheorem == ContextsSpec => []InjectionsReachTheirs
<1>1. IInv => InjectionsReachTheirs
  BY DEF IInv, InvokedSound
<1>2. IInv /\ [ContextsNext]_contextVars => IInv'
  BY InvariantStep
<1> QED
  BY InitInvariant, <1>1, <1>2, PTL DEF ContextsSpec

-----------------------------------------------------------------------------
(***************************************************************************)
(* The levels.                                                             *)
(***************************************************************************)
(* What the daemon has still to read.                                      *)
Queue == IF caller = NoMessage THEN toDaemon ELSE Append(toDaemon, caller)

Concerns(m, c) == m.is \in {"register", "unregister"} /\ m.ctx = c
NoConcern(q, c) == \A i \in DOMAIN q : ~Concerns(q[i], c)
LastConcern(q, i, c) ==
    i \in DOMAIN q /\ Concerns(q[i], c) /\ \A j \in DOMAIN q : j > i => ~Concerns(q[j], c)
NoLimitAfter(q, i) == \A j \in DOMAIN q : j > i => q[j].is # "limit"

(* A position that the daemon has not read yet was never in its table, and *)
(* nothing was sent to it.                                                 *)
NewTo(s, t, u, p) ==
    /\ p \in DOMAIN s /\ s[p].told = NotSet
    /\ \A c \in ContextIds : t[c].pos < p
    /\ \A k \in DOMAIN u : u[k].pos < p
Unheard(p) == NewTo(slots, tables, toUser, p)

(* Positions are sent in the order they are given.                         *)
QueueSound ==
    /\ Queue \in Seq(Range(Queue))
    /\ \A i \in DOMAIN Queue :
          /\ Queue[i].is \in {"register", "unregister", "limit"} /\ Queue[i].level # NoCell
          /\ Queue[i].is # "limit" => Queue[i].ctx \in ContextIds
          /\ Queue[i].is = "unregister" => Queue[i].pos = 0
          /\ Queue[i].is = "limit" => Queue[i].level # NotSet
          /\ Queue[i].is = "register" => Unheard(Queue[i].pos)
    /\ \A i, j \in DOMAIN Queue :
          i < j /\ Queue[i].is = "register" /\ Queue[j].is = "register"
              => Queue[i].pos < Queue[j].pos

(* A context in use has a cell, and who has no callback was told nothing.  *)
CellsSound ==
    /\ \A p \in DOMAIN slots : /\ slots[p].ctx # EmptyId => slots[p].cell # NoCell
                               /\ slots[p].changed = 0 => slots[p].told = NotSet
    /\ \A c \in ContextIds : tables[c].level # NoCell
    /\ \A k \in DOMAIN toUser :
          toUser[k].is = "level" => toUser[k].level # NoCell

(* The receiver thread is about to tell the level at the front.            *)
Telling == receiver.is = "changed"
TellingSound ==
    Telling => /\ toUser[1].is = "level" /\ toUser[1].pos = receiver.pos
               /\ toUser[1].level = receiver.level /\ receiver.number # 0
               /\ slots[receiver.pos].changed # receiver.number
                      => slots[receiver.pos].told = NotSet

(* The levels on their way to a position, and that the last is w.          *)
Coming(u, busy, p) ==
    {k \in DOMAIN u : u[k].is = "level" /\ u[k].pos = p /\ ~(busy /\ k = 1)}
EndsWith(u, busy, p, w) ==
    \A k \in Coming(u, busy, p) : (\A j \in Coming(u, busy, p) : j <= k) => u[k].level = w

(* A context gets the level w, or has it.                                  *)
GetsFrom(s, u, r, p, w) ==
    LET busy == r.is = "changed"
    IN  /\ EndsWith(u, busy, p, w)
        /\ Coming(u, busy, p) = {} =>
              /\ s[p].cell = w
              /\ IF busy /\ r.pos = p THEN r.level = w ELSE s[p].told \in {NotSet, w}
Gets(p, w) == GetsFrom(slots, toUser, receiver, p, w)

(* The daemon has the position of a context, or will have it.              *)
Placed(c) ==
    /\ NoConcern(Queue, c) => tables[c].pos = handles[c]
    /\ \A i \in DOMAIN Queue : LastConcern(Queue, i, c) => Queue[i].pos = handles[c]

(* If nothing about a context is on its way to the daemon, then it gets the *)
(* daemon's level; if the last is its registration, it has that level.      *)
Agrees(c) ==
    handles[c] # 0 =>
       /\ NoConcern(Queue, c) /\ NoLimitAfter(Queue, 0)
              => Gets(handles[c], LevelMessage(tables[c]).level)
       /\ \A i \in DOMAIN Queue :
             LastConcern(Queue, i, c) /\ NoLimitAfter(Queue, i) /\ Queue[i].level # NotSet
                 => slots[handles[c]].cell = Queue[i].level

LInv ==
    /\ QueueSound /\ CellsSound /\ TellingSound
    /\ \A c \in ContextIds : Placed(c) /\ Agrees(c)

-----------------------------------------------------------------------------
(* A message goes to the end of the queue.                                 *)
LEMMA QueueAppended ==
  ASSUME NEW q, q \in Seq(Range(q)), NEW m, NEW r, r = Append(q, m)
  PROVE  /\ \A c : NoConcern(r, c) <=> NoConcern(q, c) /\ ~Concerns(m, c)
         /\ \A c, i : LastConcern(r, i, c) <=>
               \/ i = Len(q) + 1 /\ Concerns(m, c)
               \/ LastConcern(q, i, c) /\ ~Concerns(m, c)
         /\ \A i \in DOMAIN q : NoLimitAfter(r, i) <=> NoLimitAfter(q, i) /\ m.is # "limit"
         /\ NoLimitAfter(r, 0) <=> NoLimitAfter(q, 0) /\ m.is # "limit"
<1>1. /\ DOMAIN q = 1 .. Len(q) /\ Len(q) \in Nat /\ DOMAIN r = 1 .. Len(q) + 1
      /\ \A i \in 1 .. Len(q) : r[i] = q[i]
      /\ r[Len(q) + 1] = m
  BY AppendAny, RangeOfSequence
<1>2. PICK n \in Nat : n = Len(q)
  BY <1>1
<1>3. /\ DOMAIN q = 1 .. n /\ DOMAIN r = 1 .. n + 1
      /\ \A i \in 1 .. n : r[i] = q[i]
      /\ r[n + 1] = m
  BY <1>1, <1>2
<1>4. \A i : i \in 1 .. n + 1 <=> i \in 1 .. n \/ i = n + 1
  BY <1>2
<1>5. \A c : NoConcern(r, c) <=> NoConcern(q, c) /\ ~Concerns(m, c)
  <2> SUFFICES ASSUME NEW c PROVE NoConcern(r, c) <=> NoConcern(q, c) /\ ~Concerns(m, c)
    OBVIOUS
  <2>1. NoConcern(r, c) <=> \A i \in 1 .. n + 1 : ~Concerns(r[i], c)
    BY <1>3 DEF NoConcern
  <2>2. NoConcern(q, c) <=> \A i \in 1 .. n : ~Concerns(r[i], c)
    BY <1>3 DEF NoConcern
  <2> QED
    BY <1>3, <1>4, <2>1, <2>2
<1>6. \A c, i : LastConcern(r, i, c) <=>
         \/ i = n + 1 /\ Concerns(m, c)
         \/ LastConcern(q, i, c) /\ ~Concerns(m, c)
  <2> SUFFICES ASSUME NEW c, NEW i
               PROVE  LastConcern(r, i, c) <=>
                         \/ i = n + 1 /\ Concerns(m, c)
                         \/ LastConcern(q, i, c) /\ ~Concerns(m, c)
    OBVIOUS
  <2>1. CASE i = n + 1
    <3>1. i \in DOMAIN r /\ r[i] = m /\ i \notin DOMAIN q
      BY <1>3, <2>1
    <3>2. \A j \in DOMAIN r : ~(j > i)
      BY <1>3, <2>1
    <3> QED
      BY <2>1, <3>1, <3>2 DEF LastConcern
  <2>2. CASE i \in 1 .. n
    <3>1. i # n + 1 /\ n + 1 > i /\ r[i] = q[i] /\ n + 1 \in DOMAIN r
      BY <1>3, <2>2
    <3>2. LastConcern(q, i, c) <=> Concerns(r[i], c) /\ \A j \in 1 .. n : j > i => ~Concerns(r[j], c)
      BY <1>3, <2>2 DEF LastConcern
    <3>3. LastConcern(r, i, c) <=> Concerns(r[i], c) /\ \A j \in 1 .. n + 1 : j > i => ~Concerns(r[j], c)
      BY <1>3, <1>4, <2>2 DEF LastConcern
    <3> QED
      BY <1>3, <1>4, <3>1, <3>2, <3>3
  <2> QED
    BY <1>3, <1>4, <2>1, <2>2 DEF LastConcern
<1>7. ASSUME NEW i \in 0 .. n
      PROVE  NoLimitAfter(r, i) <=> NoLimitAfter(q, i) /\ m.is # "limit"
  <2>1. n + 1 > i
    OBVIOUS
  <2>2. NoLimitAfter(r, i) <=> \A j \in 1 .. n + 1 : j > i => r[j].is # "limit"
    BY <1>3 DEF NoLimitAfter
  <2>3. NoLimitAfter(q, i) <=> \A j \in 1 .. n : j > i => r[j].is # "limit"
    BY <1>3 DEF NoLimitAfter
  <2> QED
    BY <1>3, <1>4, <2>1, <2>2, <2>3
<1>8. 0 \in 0 .. n /\ \A i \in 1 .. n : i \in 0 .. n
  OBVIOUS
<1> QED
  BY <1>2, <1>3, <1>5, <1>6, <1>7, <1>8

(* The message at the front is read.                                       *)
LEMMA QueueRead ==
  ASSUME NEW q, q \in Seq(Range(q)), q # <<>>, NEW r, r = Tail(q)
  PROVE  /\ 1 \in DOMAIN q
         /\ \A i \in DOMAIN r : i + 1 \in DOMAIN q /\ i + 1 > 1 /\ r[i] = q[i + 1]
         /\ \A c : NoConcern(r, c) => NoConcern(q, c) \/ LastConcern(q, 1, c)
         /\ \A c, i : LastConcern(r, i, c) => i \in DOMAIN r /\ LastConcern(q, i + 1, c)
         /\ \A i \in DOMAIN r : NoLimitAfter(r, i) => NoLimitAfter(q, i + 1)
         /\ NoLimitAfter(r, 0) => NoLimitAfter(q, 1)
<1>1. PICK n \in Nat \ {0} : n = Len(q)
  BY TailAny
<1>2. /\ DOMAIN q = 1 .. n /\ DOMAIN r = 1 .. n - 1
      /\ \A i \in 1 .. n - 1 : r[i] = q[i + 1]
  BY <1>1, TailAny, RangeOfSequence
<1>3. /\ 1 \in 1 .. n
      /\ \A i \in 1 .. n - 1 : i + 1 \in 1 .. n /\ i + 1 > 1
      /\ \A j \in 1 .. n : j > 1 => j - 1 \in 1 .. n - 1 /\ j - 1 + 1 = j
      /\ \A j \in 1 .. n : j = 1 \/ j > 1
  OBVIOUS
<1>4. \A j \in DOMAIN q : j > 1 => j - 1 \in DOMAIN r /\ r[j - 1] = q[j]
  BY <1>2, <1>3
<1>5. \A c : NoConcern(r, c) => NoConcern(q, c) \/ LastConcern(q, 1, c)
  <2> SUFFICES ASSUME NEW c, NoConcern(r, c) PROVE NoConcern(q, c) \/ LastConcern(q, 1, c)
    OBVIOUS
  <2>1. \A j \in DOMAIN q : j > 1 => ~Concerns(q[j], c)
    BY <1>4 DEF NoConcern
  <2> QED
    BY <1>2, <1>3, <2>1 DEF NoConcern, LastConcern
<1>6. \A c, i : LastConcern(r, i, c) => i \in DOMAIN r /\ LastConcern(q, i + 1, c)
  <2> SUFFICES ASSUME NEW c, NEW i, LastConcern(r, i, c)
               PROVE  i \in DOMAIN r /\ LastConcern(q, i + 1, c)
    OBVIOUS
  <2>1. i \in DOMAIN r /\ i \in 1 .. n - 1 /\ i + 1 \in DOMAIN q /\ Concerns(q[i + 1], c)
    BY <1>2, <1>3 DEF LastConcern
  <2>2. ASSUME NEW j \in DOMAIN q, j > i + 1 PROVE ~Concerns(q[j], c)
    <3>1. j > 1 /\ j - 1 > i
      BY <1>2, <2>1, <2>2
    <3> QED
      BY <1>4, <3>1 DEF LastConcern
  <2> QED
    BY <2>1, <2>2 DEF LastConcern
<1>7. ASSUME NEW i \in 0 .. n - 1, NoLimitAfter(r, i) PROVE NoLimitAfter(q, i + 1)
  <2> SUFFICES ASSUME NEW j \in DOMAIN q, j > i + 1 PROVE q[j].is # "limit"
    BY DEF NoLimitAfter
  <2>1. j > 1 /\ j - 1 > i
    BY <1>2
  <2> QED
    BY <1>4, <1>7, <2>1 DEF NoLimitAfter
<1>8. \A i \in 1 .. n - 1 : i \in 0 .. n - 1
  OBVIOUS
<1>9. 0 \in 0 .. n - 1 /\ 0 + 1 = 1
  OBVIOUS
<1> QED
  BY <1>2, <1>3, <1>5, <1>6, <1>7, <1>8, <1>9

(* Messages are sent behind those on their way.                            *)
LevelTo(m, p) == m.is = "level" /\ m.pos = p
Joined(u, r, v) == u \in Seq(Range(u)) /\ r \in Seq(Range(r)) /\ v = u \o r
NoneTo(r, p) == \A i \in 1 .. Len(r) : ~LevelTo(r[i], p)
AllTo(r, p, w) == \A i \in 1 .. Len(r) : LevelTo(r[i], p) => r[i].level = w
LEMMA ComingSent ==
  ASSUME NEW u, NEW r, NEW v, Joined(u, r, v), NEW busy \in BOOLEAN, busy => u # <<>>,
         NEW p, NEW w, AllTo(r, p, w)
  PROVE  /\ ~NoneTo(r, p) => Coming(v, busy, p) # {} /\ EndsWith(v, busy, p, w)
         /\ NoneTo(r, p) => /\ Coming(v, busy, p) = Coming(u, busy, p)
                            /\ \A x : EndsWith(u, busy, p, x) => EndsWith(v, busy, p, x)
<1>1. PICK n \in Nat, l \in Nat : n = Len(u) /\ l = Len(r)
  BY RangeOfSequence DEF Joined
<1>2. /\ DOMAIN u = 1 .. n /\ DOMAIN v = 1 .. n + l
      /\ \A i \in 1 .. n : v[i] = u[i]
      /\ \A i \in n + 1 .. n + l : v[i] = r[i - n]
  BY <1>1, ConcatAny, RangeOfSequence DEF Joined
<1>3. busy => n # 0
  BY <1>1, TailAny DEF Joined
<1>4. \A i \in 1 .. n + l : i \in 1 .. n \/ (i \in n + 1 .. n + l /\ i - n \in 1 .. l)
  OBVIOUS
<1>5. \A i \in 1 .. l : i + n \in n + 1 .. n + l /\ i + n \in 1 .. n + l /\ i + n - n = i
  OBVIOUS
<1>6. ASSUME NEW i \in 1 .. l, LevelTo(r[i], p)
      PROVE  Coming(v, busy, p) # {} /\ EndsWith(v, busy, p, w)
  <2>1. v[i + n] = r[i]
    BY <1>2, <1>5
  <2>2. ~(busy /\ i + n = 1)
    BY <1>3
  <2>3. i + n \in Coming(v, busy, p)
    BY <1>2, <1>5, <1>6, <2>1, <2>2 DEF Coming, LevelTo
  <2>4. ASSUME NEW k \in Coming(v, busy, p), \A j \in Coming(v, busy, p) : j <= k
        PROVE  v[k].level = w
    <3>1. k \in 1 .. n + l /\ v[k].is = "level" /\ v[k].pos = p /\ i + n <= k
      BY <1>2, <2>3, <2>4 DEF Coming, LevelTo
    <3>2. k \in n + 1 .. n + l /\ k - n \in 1 .. l
      BY <3>1
    <3> QED
      BY <1>1, <1>2, <3>1, <3>2 DEF LevelTo, AllTo
  <2> QED
    BY <2>3, <2>4 DEF EndsWith
<1>7. ASSUME \A i \in 1 .. l : ~LevelTo(r[i], p)
      PROVE  /\ Coming(v, busy, p) = Coming(u, busy, p)
             /\ \A x : EndsWith(u, busy, p, x) => EndsWith(v, busy, p, x)
  <2>1. \A k \in 1 .. n : k \in 1 .. n + l
    OBVIOUS
  <2>2. \A k : k \in Coming(v, busy, p) <=> k \in Coming(u, busy, p)
    <3>1. ASSUME NEW k \in Coming(v, busy, p) PROVE k \in Coming(u, busy, p)
      <4>1. k \in 1 .. n + l /\ v[k].is = "level" /\ v[k].pos = p /\ ~(busy /\ k = 1)
        BY <1>2 DEF Coming, LevelTo
      <4>2. k \in 1 .. n
        BY <1>2, <1>4, <1>7, <4>1 DEF LevelTo
      <4> QED
        BY <1>2, <4>1, <4>2 DEF Coming, LevelTo
    <3>2. ASSUME NEW k \in Coming(u, busy, p) PROVE k \in Coming(v, busy, p)
      BY <1>2, <2>1 DEF Coming, LevelTo
    <3> QED
      BY <3>1, <3>2
  <2>3. Coming(v, busy, p) = Coming(u, busy, p)
    BY <2>2
  <2>4. \A k \in Coming(u, busy, p) : v[k] = u[k]
    BY <1>2 DEF Coming, LevelTo
  <2> QED
    BY <2>3, <2>4 DEF EndsWith
<1> QED
  BY <1>1, <1>6, <1>7 DEF NoneTo

(* The receiver thread is about to tell the level at the front.            *)
Queued(u) == u \in Seq(Range(u)) /\ u # <<>>
FrontGives(u, p, w) == LevelTo(u[1], p) /\ u[1].level = w
LEMMA ComingKept ==
  ASSUME NEW u, Queued(u), NEW busy \in BOOLEAN, ~busy, NEW busy2 \in BOOLEAN, busy2,
         NEW p, NEW w, EndsWith(u, busy, p, w)
  PROVE  /\ EndsWith(u, busy2, p, w)
         /\ Coming(u, busy2, p) = {} => Coming(u, busy, p) = {} \/ FrontGives(u, p, w)
<1>0. PICK n \in Nat \ {0} : n = Len(u) /\ DOMAIN u = 1 .. n
  BY TailAny, RangeOfSequence DEF Queued
<1>1. \A k : k \in Coming(u, busy2, p) <=> k \in Coming(u, busy, p) /\ k # 1
  BY DEF Coming
<1>2. ASSUME NEW k \in Coming(u, busy2, p), \A j \in Coming(u, busy2, p) : j <= k
      PROVE  u[k].level = w
  <2>1. k \in 1 .. n /\ k \in Coming(u, busy, p)
    BY <1>0, <1>1 DEF Coming
  <2>2. ASSUME NEW j \in Coming(u, busy, p) PROVE j <= k
    <3>1. CASE j = 1
      BY <2>1, <3>1
    <3>2. CASE j # 1
      BY <1>1, <1>2, <3>2
    <3> QED
      BY <3>1, <3>2
  <2> QED
    BY <2>1, <2>2 DEF EndsWith
<1>3. Coming(u, busy2, p) = {} /\ Coming(u, busy, p) # {} =>
         FrontGives(u, p, w)
  <2> SUFFICES ASSUME Coming(u, busy2, p) = {}, Coming(u, busy, p) # {}
               PROVE  FrontGives(u, p, w)
    OBVIOUS
  <2>1. Coming(u, busy, p) = {1}
    BY <1>1
  <2>2. \A j \in Coming(u, busy, p) : j <= 1
    BY <2>1
  <2> QED
    BY <2>1, <2>2 DEF EndsWith, Coming, FrontGives, LevelTo
<1> QED
  BY <1>1, <1>2, <1>3 DEF EndsWith

(* The receiver thread is done with the message at the front.              *)
LEMMA ComingRemoved ==
  ASSUME NEW u, Queued(u), NEW busy \in BOOLEAN, NEW p, NEW w, EndsWith(u, busy, p, w),
         NEW busy2 \in BOOLEAN, ~busy2, NEW v, v = Tail(u)
  PROVE  /\ EndsWith(v, busy2, p, w)
         /\ Coming(u, busy, p) = {} => Coming(v, busy2, p) = {}
         /\ Coming(v, busy2, p) = {} =>
               Coming(u, busy, p) = {} \/ (~busy /\ FrontGives(u, p, w))
<1>0. PICK n \in Nat \ {0} : n = Len(u) /\ DOMAIN u = 1 .. n
  BY TailAny, RangeOfSequence DEF Queued
<1>1. DOMAIN v = 1 .. n - 1 /\ \A i \in 1 .. n - 1 : v[i] = u[i + 1]
  BY <1>0, TailAny DEF Queued
<1>2. ASSUME NEW k \in Coming(v, busy2, p)
      PROVE  k \in Int /\ k + 1 \in Coming(u, busy, p) /\ v[k] = u[k + 1]
  <2>1. k \in 1 .. n - 1 /\ v[k].is = "level" /\ v[k].pos = p
    BY <1>1 DEF Coming
  <2>2. k + 1 \in 1 .. n /\ k + 1 # 1 /\ u[k + 1] = v[k]
    BY <1>1, <2>1
  <2> QED
    BY <1>0, <2>1, <2>2 DEF Coming
<1>3. ASSUME NEW j \in Coming(u, busy, p), j # 1
      PROVE  j \in Int /\ j - 1 \in Coming(v, busy2, p)
  <2>1. j \in 1 .. n /\ u[j].is = "level" /\ u[j].pos = p
    BY <1>0 DEF Coming
  <2>2. j - 1 \in 1 .. n - 1 /\ j - 1 + 1 = j
    BY <1>3, <2>1
  <2>3. v[j - 1] = u[j]
    BY <1>1, <2>2
  <2> QED
    BY <1>1, <2>1, <2>2, <2>3 DEF Coming
<1>4. ASSUME NEW k \in Coming(v, busy2, p), \A j \in Coming(v, busy2, p) : j <= k
      PROVE  v[k].level = w
  <2>1. k + 1 \in Coming(u, busy, p) /\ v[k] = u[k + 1] /\ k \in Int
    BY <1>2
  <2>2. k \in 1 .. n - 1
    BY <1>1 DEF Coming
  <2>3. ASSUME NEW j \in Coming(u, busy, p) PROVE j <= k + 1
    <3>1. CASE j = 1
      BY <2>2, <3>1
    <3>2. CASE j # 1
      BY <1>3, <1>4, <2>1, <3>2
    <3> QED
      BY <3>1, <3>2
  <2> QED
    BY <2>1, <2>3 DEF EndsWith
<1>5. Coming(v, busy2, p) = {} /\ Coming(u, busy, p) # {} =>
         ~busy /\ FrontGives(u, p, w)
  <2> SUFFICES ASSUME Coming(v, busy2, p) = {}, Coming(u, busy, p) # {}
               PROVE  ~busy /\ FrontGives(u, p, w)
    OBVIOUS
  <2>1. Coming(u, busy, p) = {1}
    BY <1>3
  <2>2. \A j \in Coming(u, busy, p) : j <= 1
    BY <2>1
  <2> QED
    BY <2>1, <2>2 DEF EndsWith, Coming, FrontGives, LevelTo
<1>6. Coming(u, busy, p) = {} => Coming(v, busy2, p) = {}
  BY <1>2
<1> QED
  BY <1>4, <1>5, <1>6 DEF EndsWith

-----------------------------------------------------------------------------
(* The environment: the item that decides is the first of those that match *)
(* best.                                                                   *)
Prio(item, c) == dlt_env_ll_item_get_matching_prio(item, ThisApp, c)
Item == [app : Nat, ctx : Nat, level : -1 .. 6]
Decides(items, c, i) ==
    /\ i \in DOMAIN items /\ Prio(items[i], c) # 0
    /\ \A j \in DOMAIN items : j # i =>
          \/ Prio(items[j], c) < Prio(items[i], c)
          \/ Prio(items[j], c) = Prio(items[i], c) /\ i < j

(* A priority is a number.                                                 *)
LEMMA PrioIs ==
  ASSUME NEW item, NEW c
  PROVE  Prio(item, c) \in 0 .. 4
BY DEF Prio, dlt_env_ll_item_get_matching_prio

(* The items are gone through in order, and one replaces the choice so far *)
(* only if it matches better.                                              *)
LEMMA AdjustIs ==
  ASSUME NEW items \in Seq(Item), NEW c, NEW ll,
         NEW res, res = dlt_env_adjust_ll_from_env(items, ThisApp, c, ll)
  PROVE  \/ res = ll /\ \A i \in DOMAIN items : Prio(items[i], c) = 0
         \/ \E i : Decides(items, c, i) /\ res = items[i].level
<1> DEFINE S == DOMAIN items
           H == [prio : 0 .. 4, res : {ll} \cup -1 .. 6]
           base == [prio |-> 0, res |-> ll]
           better(p, acc, item) == IF p > acc.prio THEN [prio |-> p, res |-> item.level] ELSE acc
           op(acc, item) == better(Prio(item, c), acc, item)
           C == [s \in SUBSET S |-> Max(s)]
           F == [p \in S \X H |-> op(p[2], items[p[1]])]
           Folds(it) == it = [s \in SUBSET S |-> IF s = {} THEN base ELSE
                                op(it[s \ {Max(s)}], items[Max(s)])]
           iter == CHOOSE it : Folds(it)
           Best(s, acc) ==
              \/ acc = base /\ \A i \in s : Prio(items[i], c) = 0
              \/ \E i \in s : /\ Prio(items[i], c) # 0
                              /\ acc = [prio |-> Prio(items[i], c), res |-> items[i].level]
                              /\ \A j \in s : j # i =>
                                    \/ Prio(items[j], c) < Prio(items[i], c)
                                    \/ Prio(items[j], c) = Prio(items[i], c) /\ i < j
<1>1. res = iter[S].res
  BY DEF dlt_env_adjust_ll_from_env, FoldLeft, MapThenFoldSet, Prio
<1>2. PICK n \in Nat : S = 1 .. n /\ \A i \in S : items[i] \in Item
  BY LenProperties, ElementOfSeq
<1>3. IsFiniteSet(S)
  BY <1>2, FS_Interval
<1>4. \A i \in S : Prio(items[i], c) \in 0 .. 4 /\ items[i].level \in -1 .. 6
  BY <1>2, PrioIs DEF Item
<1>5. base \in H
  OBVIOUS
<1>6. ASSUME NEW i \in S, NEW acc \in H PROVE op(acc, items[i]) \in H
  BY <1>4
<1>7. \A s \in SUBSET S : s # {} => /\ C[s] \in s /\ C[s] \in S /\ s \ {C[s]} \in SUBSET S
                                    /\ Max(s) = C[s] /\ \A y \in s : y <= C[s]
  BY <1>2, MaxIsIn
<1>8. \A i \in S, acc \in H : F[<<i, acc>>] = op(acc, items[i])
  OBVIOUS
<1> HIDE DEF H, C, F, base
<1>9. PICK some \in [SUBSET S -> H] : Folding(S, base, C, F, some)
  <2>1. Keeps(S, H, F) /\ Chooses(S, C)
    <3> HIDE DEF op
    <3> QED
      BY <1>6, <1>7, <1>8 DEF Keeps, Chooses
  <2> HIDE DEF op, S
  <2> QED
    BY <1>3, <1>5, <2>1, IterExists
<1> HIDE DEF op
<1>10. Folds(some)
  <2>1. \A s \in SUBSET S : s # {} => some[s] = op(some[s \ {C[s]}], items[C[s]])
    BY <1>7, <1>8, <1>9 DEF Folding
  <2>2. some[{}] = base
    BY <1>9 DEF Folding
  <2>3. ASSUME NEW s \in SUBSET S
        PROVE  some[s] = IF s = {} THEN base ELSE op(some[s \ {Max(s)}], items[Max(s)])
    <3>1. CASE s = {}
      BY <2>2, <3>1
    <3>2. CASE s # {}
      <4>1. Max(s) = C[s] /\ some[s] = op(some[s \ {C[s]}], items[C[s]])
        BY <1>7, <2>1, <3>2
      <4> QED
        BY <3>2, <4>1
    <3> QED
      BY <3>1, <3>2
  <2> QED
    BY <2>3
<1>11. Folds(iter)
  <2> HIDE DEF Folds
  <2> QED
    BY <1>10
<1> HIDE DEF iter
<1>12. \A s \in SUBSET S : iter[s] = IF s = {} THEN base ELSE op(iter[s \ {Max(s)}], items[Max(s)])
  BY <1>11
<1> HIDE DEF Folds
<1> DEFINE G == {s \in SUBSET S : Best(s, iter[s])}
<1>13. {} \in G
  BY <1>12
<1>14. ASSUME NEW s \in SUBSET S, s # {}, s \ {C[s]} \in G PROVE s \in G
  <2> DEFINE m == C[s]
             t == s \ {m}
             acc == iter[t]
  <2>1. /\ m \in s /\ m \in S /\ iter[s] = op(acc, items[m])
        /\ \A y \in t : y \in Int /\ y < m
    <3>1. Max(s) = C[s] /\ C[s] \in s /\ C[s] \in S /\ \A y \in s : y <= C[s]
      BY <1>7, <1>14
    <3>2. iter[s] = op(iter[s \ {Max(s)}], items[Max(s)])
      BY <1>12, <1>14
    <3>3. \A y \in s : y \in Int
      BY <1>2
    <3>4. iter[s] = op(acc, items[m])
      BY <3>1, <3>2
    <3> HIDE DEF C, G
    <3>5. ASSUME NEW y \in t PROVE y \in Int /\ y < m
      <4>1. y \in s /\ y # m
        OBVIOUS
      <4> QED
        BY <3>1, <3>3, <4>1
    <3> QED
      BY <3>1, <3>4, <3>5
  <2>2. Best(t, acc)
    BY <1>14
  <2> DEFINE p == Prio(items[m], c)
  <2>3. p \in 0 .. 4 /\ op(acc, items[m]) = better(p, acc, items[m])
    BY <1>4, <2>1 DEF op
  <2> HIDE DEF m, t, acc, p
  <2>4. \A j \in s : j = m \/ j \in t
    BY DEF t
  <2>5. t \in SUBSET S /\ t \in SUBSET s
    BY DEF t
  <2>6. CASE acc = base /\ \A i \in t : Prio(items[i], c) = 0
    <3>1. CASE p = 0
      <4>1. op(acc, items[m]) = base
        BY <2>3, <2>6, <3>1 DEF base
      <4>2. \A i \in s : Prio(items[i], c) = 0
        BY <2>4, <2>6, <3>1 DEF p
      <4> QED
        BY <2>1, <4>1, <4>2
    <3>2. CASE p # 0
      <4>1. op(acc, items[m]) = [prio |-> p, res |-> items[m].level]
        BY <2>3, <2>6, <3>2 DEF base
      <4>2. \A j \in s : j # m => Prio(items[j], c) < p
        BY <2>3, <2>4, <2>6, <3>2
      <4>3. Best(s, op(acc, items[m]))
        BY <2>1, <3>2, <4>1, <4>2 DEF p
      <4> QED
        BY <2>1, <4>3
    <3> QED
      BY <3>1, <3>2
  <2>7. ASSUME NEW i \in t, Prio(items[i], c) # 0,
               acc = [prio |-> Prio(items[i], c), res |-> items[i].level],
               \A j \in t : j # i =>
                  \/ Prio(items[j], c) < Prio(items[i], c)
                  \/ Prio(items[j], c) = Prio(items[i], c) /\ i < j
        PROVE  s \in G
    <3> DEFINE r == Prio(items[i], c)
    <3>0. r \in 0 .. 4 /\ r # 0 /\ acc.prio = r /\ i \in s /\ i < m
      BY <1>4, <2>1, <2>5, <2>7
    <3>1. CASE p > r
      <4>1. op(acc, items[m]) = [prio |-> p, res |-> items[m].level]
        BY <2>3, <3>0, <3>1
      <4>2. ASSUME NEW j \in s, j # m PROVE Prio(items[j], c) < p
        <5>1. j \in t /\ Prio(items[j], c) \in 0 .. 4
          BY <1>4, <2>4, <4>2
        <5>2. Prio(items[j], c) <= r
          BY <2>7, <5>1, <3>0
        <5> HIDE DEF r
        <5> QED
          BY <2>3, <3>0, <3>1, <5>1, <5>2
      <4>3. p # 0
        BY <2>3, <3>0, <3>1
      <4>4. Best(s, op(acc, items[m]))
        BY <2>1, <4>1, <4>2, <4>3 DEF p
      <4> QED
        BY <2>1, <4>4
    <3>2. CASE ~(p > r)
      <4>1. op(acc, items[m]) = acc
        BY <2>3, <3>0, <3>2
      <4>2. ASSUME NEW j \in s, j # i
            PROVE  \/ Prio(items[j], c) < r
                   \/ Prio(items[j], c) = r /\ i < j
        <5>1. CASE j \in t
          BY <2>7, <4>2, <5>1
        <5>2. CASE j = m
          <6>1. Prio(items[j], c) = p
            BY <5>2 DEF p
          <6> HIDE DEF r
          <6> QED
            BY <2>3, <3>0, <3>2, <5>2, <6>1
        <5> QED
          BY <2>4, <5>1, <5>2
      <4>3. Best(s, op(acc, items[m]))
        BY <2>7, <3>0, <4>1, <4>2
      <4> QED
        BY <2>1, <4>3
    <3> QED
      BY <3>1, <3>2
  <2> QED
    BY <2>2, <2>6, <2>7
<1>15. Best(S, iter[S])
  <2>1. Chooses(S, C)
    BY <1>7 DEF Chooses
  <2> HIDE DEF G
  <2>2. S \in G
    BY <1>3, <1>13, <1>14, <2>1, SubsetInduction
  <2> QED
    BY <2>2 DEF G
<1>16. CASE iter[S] = base /\ \A i \in S : Prio(items[i], c) = 0
  BY <1>1, <1>16 DEF base
<1>17. ASSUME NEW i \in S, Prio(items[i], c) # 0,
              iter[S] = [prio |-> Prio(items[i], c), res |-> items[i].level],
              \A j \in S : j # i =>
                 \/ Prio(items[j], c) < Prio(items[i], c)
                 \/ Prio(items[j], c) = Prio(items[i], c) /\ i < j
       PROVE  Decides(items, c, i) /\ res = items[i].level
  BY <1>1, <1>17 DEF Decides
<1> QED
  BY <1>15, <1>16, <1>17

(* Every item of the environment can be read: levels are numbers, but for  *)
(* the last, which may be a word.                                          *)
Readable ==
    \A env \in Environments : \A i \in DOMAIN env :
        env[i].form = "number" \/ (env[i].form = "word" /\ i = Len(env))

(* The items that are read; all of them if they can be.                    *)
LEMMA ExtractIs ==
  ASSUME NEW env \in Environments, NEW items, items = dlt_env_extract_ll_set(env)
  PROVE  /\ items \in Seq(Item)
         /\ Readable => /\ DOMAIN items = DOMAIN env
                        /\ \A i \in DOMAIN env :
                              items[i] = [app |-> env[i].app, ctx |-> env[i].ctx,
                                          level |-> env[i].level]
<1> DEFINE n == Len(env)
           results == [i \in DOMAIN env |-> dlt_env_extract_ll(env, i)]
           I == {i \in 1 .. Len(results) : ~results[i].ok}
           failed == SelectInSeq(results, LAMBDA r : ~r.ok)
           k == IF failed = 0 THEN n ELSE failed
<1>1. /\ n \in Nat /\ DOMAIN env = 1 .. n
      /\ \A i \in 1 .. n : /\ env[i].app \in Nat /\ env[i].ctx \in Nat
                           /\ env[i].level \in -1 .. 6
                           /\ env[i].form \in {"number", "word", "unreadable"}
  <2>1. env \in Seq([app : Nat, ctx : Nat, level : -1 .. 6, form : {"number", "word", "unreadable"}])
    BY ContextsAssumption
  <2>2. n \in Nat /\ DOMAIN env = 1 .. n
    BY <2>1, LenProperties
  <2>3. \A i \in 1 .. n :
           env[i] \in [app : Nat, ctx : Nat, level : -1 .. 6, form : {"number", "word", "unreadable"}]
    BY <2>1, ElementOfSeq
  <2> QED
    BY <2>2, <2>3
<1>2. items = [i \in 1 .. k |-> [app |-> env[i].app, ctx |-> env[i].ctx,
                                 level |-> dlt_env_extract_ll(env, i).level]]
  BY DEF dlt_env_extract_ll_set
<1>3. \A i \in 1 .. n : /\ dlt_env_extract_ll(env, i).level \in -1 .. 6
                        /\ env[i].form = "number" \/ (env[i].form = "word" /\ i = n) =>
                              /\ dlt_env_extract_ll(env, i).ok
                              /\ dlt_env_extract_ll(env, i).level = env[i].level
  <2> SUFFICES ASSUME NEW i \in 1 .. n
               PROVE  /\ dlt_env_extract_ll(env, i).level \in -1 .. 6
                      /\ env[i].form = "number" \/ (env[i].form = "word" /\ i = n) =>
                            /\ dlt_env_extract_ll(env, i).ok
                            /\ dlt_env_extract_ll(env, i).level = env[i].level
    OBVIOUS
  <2>1. CASE env[i].form = "number"
    BY <1>1, <2>1 DEF dlt_env_extract_ll
  <2>2. CASE env[i].form = "word"
    BY <1>1, <2>2 DEF dlt_env_extract_ll
  <2>3. CASE env[i].form = "unreadable"
    BY <1>1, <2>3 DEF dlt_env_extract_ll
  <2> QED
    BY <1>1, <2>1, <2>2, <2>3
<1>4. Len(results) = n /\ \A i \in 1 .. n : results[i] = dlt_env_extract_ll(env, i)
  <2>1. results = [i \in 1 .. n |-> results[i]]
    BY <1>1
  <2> HIDE DEF results
  <2>2. Len(results) = n
    BY <1>1, <2>1, FunctionAny
  <2> QED
    BY <1>1, <2>2 DEF results
<1>5. failed = IF I # {} THEN Min(I) ELSE 0
  BY DEF SelectInSeq
<1>6. k \in 0 .. n
  <2>1. I \in SUBSET Nat /\ \A i \in I : i \in 1 .. n
    BY <1>4
  <2> HIDE DEF I
  <2>2. I # {} => Min(I) \in I
    BY <2>1, MinIsLeast
  <2> QED
    BY <1>1, <1>5, <2>1, <2>2
<1> HIDE DEF failed
<1>7. items \in Seq(Item)
  <2> HIDE DEF k
  <2>1. \A i \in 1 .. k : i \in 1 .. n
    BY <1>1, <1>6
  <2>2. \A i \in 1 .. k : [app |-> env[i].app, ctx |-> env[i].ctx,
                          level |-> dlt_env_extract_ll(env, i).level] \in Item
    BY <1>1, <1>3, <2>1 DEF Item
  <2>3. items \in [1 .. k -> Item]
    BY <1>2, <2>2
  <2> QED
    BY <1>1, <1>6, <2>3
<1>8. ASSUME Readable
      PROVE  /\ DOMAIN items = DOMAIN env
             /\ \A i \in DOMAIN env :
                   items[i] = [app |-> env[i].app, ctx |-> env[i].ctx, level |-> env[i].level]
  <2>1. \A i \in 1 .. n : env[i].form = "number" \/ (env[i].form = "word" /\ i = n)
    BY <1>1, <1>8 DEF Readable
  <2>2. I = {}
    BY <1>3, <1>4, <2>1
  <2>3. k = n
    BY <1>1, <1>5, <2>2
  <2> HIDE DEF k
  <2>4. \A i \in 1 .. n : dlt_env_extract_ll(env, i).level = env[i].level
    BY <1>3, <2>1
  <2>5. DOMAIN items = 1 .. n
    BY <1>2, <2>3
  <2>6. ASSUME NEW i \in 1 .. n
        PROVE  items[i] = [app |-> env[i].app, ctx |-> env[i].ctx, level |-> env[i].level]
    <3>1. items[i] = [app |-> env[i].app, ctx |-> env[i].ctx,
                      level |-> dlt_env_extract_ll(env, i).level]
      BY <1>2, <2>3
    <3> QED
      BY <2>4, <3>1
  <2> QED
    BY <1>1, <2>5, <2>6
<1> QED
  BY <1>7, <1>8

(* A priority says what an item gives.                                     *)
Gives(item) == (IF item.app = EmptyId THEN {} ELSE {"app"})
               \cup (IF item.ctx = EmptyId THEN {} ELSE {"ctx"})
LEMMA PrioGives ==
  ASSUME NEW item, NEW c, c # EmptyId
  PROVE  /\ Prio(item, c) # 0 <=> item.app \in {EmptyId, ThisApp} /\ item.ctx \in {EmptyId, c}
         /\ Prio(item, c) # 0 => \/ Prio(item, c) = 1 /\ Gives(item) = {}
                                 \/ Prio(item, c) = 2 /\ Gives(item) = {"ctx"}
                                 \/ Prio(item, c) = 3 /\ Gives(item) = {"app"}
                                 \/ Prio(item, c) = 4 /\ Gives(item) = {"app", "ctx"}
<1>1. ThisApp # EmptyId
  BY DEF ThisApp, EmptyId
<1>2. CASE item.app = EmptyId /\ item.ctx = EmptyId
  BY <1>1, <1>2 DEF Prio, Gives, dlt_env_ll_item_get_matching_prio
<1>3. CASE item.app = EmptyId /\ item.ctx # EmptyId
  BY <1>1, <1>3 DEF Prio, Gives, dlt_env_ll_item_get_matching_prio
<1>4. CASE item.app # EmptyId /\ item.ctx = EmptyId
  BY <1>1, <1>4 DEF Prio, Gives, dlt_env_ll_item_get_matching_prio
<1>5. CASE item.app # EmptyId /\ item.ctx # EmptyId
  BY <1>1, <1>5 DEF Prio, Gives, dlt_env_ll_item_get_matching_prio
<1> QED
  BY <1>2, <1>3, <1>4, <1>5

(* Which items match a context, and which of two beats the other.          *)
MatchingIn(env, c) ==
    {i \in DOMAIN env : env[i].app \in {EmptyId, ThisApp} /\ env[i].ctx \in {EmptyId, c}}
BeatsIn(env, i, j) ==
    \/ Gives(env[j]) \subseteq Gives(env[i]) /\ Gives(env[i]) # Gives(env[j])
    \/ Gives(env[i]) = {"app"} /\ Gives(env[j]) = {"ctx"}
    \/ Gives(env[i]) = Gives(env[j]) /\ i < j

(* An item beats another if it has the higher priority, or comes first.    *)
LEMMA BeatsIs ==
  ASSUME NEW env, NEW c, c # EmptyId, NEW i \in MatchingIn(env, c), NEW j \in MatchingIn(env, c)
  PROVE  LET p == Prio(env[i], c)
             q == Prio(env[j], c)
         IN  /\ p \in 1 .. 4 /\ q \in 1 .. 4
             /\ BeatsIn(env, i, j) <=> q < p \/ (q = p /\ i < j)
<1> DEFINE p == Prio(env[i], c)
           q == Prio(env[j], c)
<1>1. /\ p # 0 /\ q # 0 /\ p \in 0 .. 4 /\ q \in 0 .. 4
      /\ \/ p = 1 /\ Gives(env[i]) = {}
         \/ p = 2 /\ Gives(env[i]) = {"ctx"}
         \/ p = 3 /\ Gives(env[i]) = {"app"}
         \/ p = 4 /\ Gives(env[i]) = {"app", "ctx"}
      /\ \/ q = 1 /\ Gives(env[j]) = {}
         \/ q = 2 /\ Gives(env[j]) = {"ctx"}
         \/ q = 3 /\ Gives(env[j]) = {"app"}
         \/ q = 4 /\ Gives(env[j]) = {"app", "ctx"}
  <2>1. /\ env[i].app \in {EmptyId, ThisApp} /\ env[i].ctx \in {EmptyId, c}
        /\ env[j].app \in {EmptyId, ThisApp} /\ env[j].ctx \in {EmptyId, c}
    BY DEF MatchingIn
  <2> QED
    BY <2>1, PrioGives, PrioIs
<1> HIDE DEF p, q
<1> DEFINE a == {"app"}
           b == {"ctx"}
           ab == {"app", "ctx"}
<1>2. /\ {} \subseteq a /\ {} \subseteq b /\ {} \subseteq ab /\ a \subseteq ab /\ b \subseteq ab
      /\ {} # a /\ {} # b /\ {} # ab /\ a # b /\ a # ab /\ b # ab
      /\ ~(a \subseteq {}) /\ ~(b \subseteq {}) /\ ~(ab \subseteq {})
      /\ ~(a \subseteq b) /\ ~(b \subseteq a) /\ ~(ab \subseteq a) /\ ~(ab \subseteq b)
  OBVIOUS
<1> HIDE DEF a, b, ab
<1>3. /\ \/ p = 1 /\ Gives(env[i]) = {}
         \/ p = 2 /\ Gives(env[i]) = b
         \/ p = 3 /\ Gives(env[i]) = a
         \/ p = 4 /\ Gives(env[i]) = ab
      /\ \/ q = 1 /\ Gives(env[j]) = {}
         \/ q = 2 /\ Gives(env[j]) = b
         \/ q = 3 /\ Gives(env[j]) = a
         \/ q = 4 /\ Gives(env[j]) = ab
      /\ BeatsIn(env, i, j) <=>
            \/ Gives(env[j]) \subseteq Gives(env[i]) /\ Gives(env[i]) # Gives(env[j])
            \/ Gives(env[i]) = a /\ Gives(env[j]) = b
            \/ Gives(env[i]) = Gives(env[j]) /\ i < j
  BY <1>1 DEF BeatsIn, a, b, ab
<1>4. BeatsIn(env, i, j) <=> q < p \/ (q = p /\ i < j)
  <2>1. CASE p = 1
    BY <1>2, <1>3, <2>1
  <2>2. CASE p = 2
    BY <1>2, <1>3, <2>2
  <2>3. CASE p = 3
    BY <1>2, <1>3, <2>3
  <2>4. CASE p = 4
    BY <1>2, <1>3, <2>4
  <2> QED
    BY <1>3, <2>1, <2>2, <2>3, <2>4
<1> QED
  BY <1>1, <1>4 DEF p, q

(* The level the environment gives, or none.                               *)
LEMMA DecidedIs ==
  ASSUME Readable, NEW env \in Environments, NEW c, c # EmptyId,
         NEW res, res = dlt_env_adjust_ll_from_env(dlt_env_extract_ll_set(env), ThisApp, c, NotSet)
  PROVE  IF MatchingIn(env, c) = {} THEN res = NotSet
         ELSE /\ res # NotSet
              /\ res = env[CHOOSE i \in MatchingIn(env, c) :
                                      \A j \in MatchingIn(env, c) \ {i} : BeatsIn(env, i, j)].level
<1> DEFINE best == CHOOSE i \in MatchingIn(env, c) : \A j \in MatchingIn(env, c) \ {i} : BeatsIn(env, i, j)
<1>1. PICK items : items = dlt_env_extract_ll_set(env)
  OBVIOUS
<1>2. /\ items \in Seq(Item) /\ DOMAIN items = DOMAIN env
      /\ \A i \in DOMAIN items :
            /\ items[i].app = env[i].app /\ items[i].ctx = env[i].ctx
            /\ items[i].level = env[i].level
  <2>1. /\ items \in Seq(Item) /\ DOMAIN items = DOMAIN env
        /\ \A i \in DOMAIN env :
              items[i] = [app |-> env[i].app, ctx |-> env[i].ctx,
                          level |-> env[i].level]
    BY <1>1, ExtractIs
  <2> QED
    BY <2>1
<1>3. \A i \in DOMAIN items : Prio(items[i], c) = Prio(env[i], c)
  BY <1>2 DEF Prio, dlt_env_ll_item_get_matching_prio
<1>4. \A i : i \in MatchingIn(env, c) <=> i \in DOMAIN items /\ Prio(env[i], c) # 0
  <2>1. \A i : Prio(env[i], c) # 0 <=> /\ env[i].app \in {EmptyId, ThisApp}
                                               /\ env[i].ctx \in {EmptyId, c}
    BY PrioGives
  <2> QED
    BY <1>2, <2>1 DEF MatchingIn
<1>5. \/ res = NotSet /\ \A i \in DOMAIN items : Prio(items[i], c) = 0
      \/ \E i : Decides(items, c, i) /\ res = items[i].level
  BY <1>1, <1>2, AdjustIs
<1>6. CASE res = NotSet /\ \A i \in DOMAIN items : Prio(items[i], c) = 0
  BY <1>3, <1>4, <1>6
<1>7. ASSUME NEW i, Decides(items, c, i), res = items[i].level
      PROVE  MatchingIn(env, c) # {} /\ res # NotSet /\ res = env[best].level
  <2>1. i \in MatchingIn(env, c) /\ res = env[i].level
    BY <1>2, <1>3, <1>4, <1>7 DEF Decides
  <2>2. res # NotSet
    <3>1. items[i] \in Item
      BY <1>2, <1>7, ElementOfSeq, LenProperties DEF Decides
    <3> QED
      BY <1>7, <3>1 DEF Item, NotSet
  <2>3. \A j \in MatchingIn(env, c) \ {i} :
           \/ Prio(env[j], c) < Prio(env[i], c)
           \/ Prio(env[j], c) = Prio(env[i], c) /\ i < j
    BY <1>3, <1>4, <1>7 DEF Decides
  <2>4. \A j \in MatchingIn(env, c) \ {i} : BeatsIn(env, i, j)
    BY <2>1, <2>3, BeatsIs
  <2>5. best \in MatchingIn(env, c) /\ \A j \in MatchingIn(env, c) \ {best} : BeatsIn(env, best, j)
    BY <2>1, <2>4
  <2> HIDE DEF best
  <2>6. best = i
    <3> SUFFICES ASSUME best # i PROVE FALSE
      OBVIOUS
    <3> DEFINE p == Prio(env[best], c)
               q == Prio(env[i], c)
    <3>1. BeatsIn(env, best, i) /\ best \in MatchingIn(env, c) \ {i}
      BY <2>1, <2>5
    <3>2. /\ q < p \/ (q = p /\ best < i)
          /\ p < q \/ (p = q /\ i < best)
      BY <2>1, <2>3, <2>5, <3>1, BeatsIs
    <3>6. p \in 1 .. 4 /\ q \in 1 .. 4
      BY <2>1, <2>5, BeatsIs
    <3>3. best \in Int /\ i \in Int
      BY <1>2, <1>4, <2>1, <2>5, LenProperties
    <3> HIDE DEF p, q
    <3>4. \A a, b, x, y \in Int : ~((b < a \/ (b = a /\ x < y)) /\ (a < b \/ (a = b /\ y < x)))
      OBVIOUS
    <3>5. p \in Int /\ q \in Int
      BY <3>6
    <3> QED
      BY <3>2, <3>3, <3>4, <3>5
  <2> QED
    BY <2>1, <2>2, <2>6
<1> QED
  BY <1>5, <1>6, <1>7

-----------------------------------------------------------------------------
(* A call's message comes to the end of the queue.                         *)
LEMMA CallQueue ==
  ASSUME caller = NoMessage, caller' # NoMessage, toDaemon' = toDaemon
  PROVE  Queue' = Append(Queue, caller')
BY DEF Queue

(* When it is written it does not move.                                    *)
LEMMA WriteQueue ==
  ASSUME WritesToDaemon
  PROVE  Queue' = Queue
BY DEF WritesToDaemon, Queue

(* The daemon reads from the front.                                        *)
LEMMA ReadQueue ==
  ASSUME IInv, DaemonReads
  PROVE  Queue # <<>> /\ Queue' = Tail(Queue) /\ Queue[1] = Head(toDaemon)
<1>1. /\ toDaemon # <<>> /\ toDaemon' = Tail(toDaemon) /\ caller' = caller
      /\ toDaemon \in Seq(Range(toDaemon))
  BY DEF DaemonReads, IInv, TablesPoint
<1>2. Head(toDaemon) = toDaemon[1] /\ 1 \in 1 .. Len(toDaemon) /\ DOMAIN toDaemon = 1 .. Len(toDaemon)
  BY <1>1, TailAny, RangeOfSequence
<1>3. CASE caller = NoMessage
  BY <1>1, <1>2, <1>3 DEF Queue
<1>4. CASE caller # NoMessage
  <2> DEFINE S == Range(toDaemon) \cup {caller}
  <2>1. toDaemon \in Seq(S) /\ caller \in S
    BY <1>1
  <2> HIDE DEF S
  <2>2. Append(toDaemon, caller) # <<>> /\ Tail(Append(toDaemon, caller)) = Append(Tail(toDaemon), caller)
    BY <1>1, <2>1
  <2>3. Append(toDaemon, caller)[1] = toDaemon[1]
    BY <1>1, <1>2, AppendAny
  <2> QED
    BY <1>1, <1>2, <1>4, <2>2, <2>3 DEF Queue
<1> QED
  BY <1>3, <1>4

(* Positions of contexts that the daemon and the application have.         *)
LEMMA PositionsAre ==
  ASSUME IInv
  PROVE  /\ Len(slots) \in Nat /\ DOMAIN slots = 1 .. Len(slots)
         /\ DOMAIN handles = ContextIds /\ DOMAIN tables = ContextIds
         /\ \A c \in ContextIds : handles[c] # 0 =>
               /\ handles[c] \in DOMAIN slots /\ slots[handles[c]].ctx = c
               /\ c # EmptyId
         /\ \A c \in ContextIds : /\ tables[c].pos \in 0 .. Len(slots)
                                  /\ tables[c].pos # 0 => OfContext(tables[c].pos, c)
                                  /\ tables[c].pos # 0 <=> tables[c] # Unknown
         /\ \A c, d \in ContextIds :
               c # d /\ handles[c] # 0 => handles[c] # tables[d].pos /\ handles[c] # handles[d]
         /\ \A k \in DOMAIN toUser : toUser[k].pos \in 1 .. Len(slots)
         /\ toUser \in Seq(Range(toUser))
         /\ Telling => toUser # <<>> /\ 1 \in DOMAIN toUser /\ receiver.pos \in DOMAIN slots
<1>1. Len(slots) \in Nat /\ DOMAIN slots = 1 .. Len(slots)
  BY RangeOfSequence DEF IInv, SlotsSound
<1>2. /\ DOMAIN handles = ContextIds
      /\ \A c \in ContextIds : handles[c] # 0 =>
            handles[c] \in DOMAIN slots /\ slots[handles[c]].ctx = c /\ c # EmptyId
  BY EmptyIsNoContext DEF IInv, HandlesPoint
<1>3. /\ DOMAIN tables = ContextIds
      /\ \A c \in ContextIds : tables[c] = Unknown \/ OfContext(tables[c].pos, c)
  BY DEF IInv, TablesPoint
<1>4. \A c \in ContextIds : /\ tables[c].pos \in 0 .. Len(slots)
                            /\ tables[c].pos # 0 => OfContext(tables[c].pos, c)
                            /\ tables[c].pos # 0 <=> tables[c] # Unknown
  <2> SUFFICES ASSUME NEW c \in ContextIds
               PROVE  /\ tables[c].pos \in 0 .. Len(slots)
                      /\ tables[c].pos # 0 => OfContext(tables[c].pos, c)
                      /\ tables[c].pos # 0 <=> tables[c] # Unknown
    OBVIOUS
  <2>1. Unknown.pos = 0
    BY DEF Unknown
  <2>2. CASE tables[c] = Unknown
    BY <1>1, <2>1, <2>2
  <2>3. CASE OfContext(tables[c].pos, c) /\ tables[c] # Unknown
    <3>1. tables[c].pos \in 1 .. Len(slots)
      BY <1>1, <2>3 DEF OfContext
    <3> QED
      BY <1>1, <2>3, <3>1
  <2> QED
    BY <1>3, <2>2, <2>3
<1>5. \A c, d \in ContextIds :
         c # d /\ handles[c] # 0 => handles[c] # tables[d].pos /\ handles[c] # handles[d]
  BY <1>2, <1>4 DEF OfContext
<1>6. toUser \in Seq(Range(toUser)) /\ \A k \in DOMAIN toUser : toUser[k].pos \in 1 .. Len(slots)
  BY <1>1 DEF IInv, MessagesPoint
<1>7. Telling => toUser # <<>> /\ 1 \in DOMAIN toUser /\ receiver.pos \in DOMAIN slots
  <2>1. toUser # <<>> => 1 \in DOMAIN toUser
    BY <1>6, TailAny, RangeOfSequence
  <2> QED
    BY <2>1 DEF IInv, ReceiverSound, Telling
<1> QED
  BY <1>1, <1>2, <1>3, <1>4, <1>5, <1>6, <1>7

(* The queue loses its front, or a sound message comes.                    *)
LEMMA QueueStep ==
  ASSUME QueueSound,
         \/ Queue' = Queue
         \/ Queue # <<>> /\ Queue' = Tail(Queue)
         \/ \E m : /\ Queue' = Append(Queue, m)
                   /\ m.is \in {"register", "unregister", "limit"} /\ m.level # NoCell
                   /\ m.is # "limit" => m.ctx \in ContextIds
                   /\ m.is = "unregister" => m.pos = 0
                   /\ m.is = "limit" => m.level # NotSet
                   /\ m.is = "register" =>
                         /\ NewTo(slots', tables', toUser', m.pos)
                         /\ \A i \in DOMAIN Queue :
                               Queue[i].is = "register" => Queue[i].pos < m.pos,
         \A i \in DOMAIN Queue :
            /\ Queue[i].is = "register" /\ Unheard(Queue[i].pos)
            /\ Queue' = Tail(Queue) => i > 1
            => NewTo(slots', tables', toUser', Queue[i].pos)
  PROVE  QueueSound'
<1> DEFINE Good(m) == /\ m.is \in {"register", "unregister", "limit"} /\ m.level # NoCell
                      /\ m.is # "limit" => m.ctx \in ContextIds
                      /\ m.is = "unregister" => m.pos = 0
                      /\ m.is = "limit" => m.level # NotSet
           New(m) == m.is = "register" => NewTo(slots', tables', toUser', m.pos)
<1>1. /\ Queue \in Seq(Range(Queue))
      /\ \A i \in DOMAIN Queue : Good(Queue[i])
      /\ \A i \in DOMAIN Queue : Queue[i].is = "register" => Unheard(Queue[i].pos)
      /\ \A i, j \in DOMAIN Queue :
            i < j /\ Queue[i].is = "register" /\ Queue[j].is = "register"
                => Queue[i].pos < Queue[j].pos
  BY DEF QueueSound
<1>2. \A i \in DOMAIN Queue : (Queue' = Tail(Queue) => i > 1) => New(Queue[i])
  BY <1>1 DEF Unheard
<1>3. SUFFICES /\ Queue' \in Seq(Range(Queue'))
               /\ \A i \in DOMAIN Queue' : Good(Queue'[i]) /\ New(Queue'[i])
               /\ \A i, j \in DOMAIN Queue' :
                     i < j /\ Queue'[i].is = "register" /\ Queue'[j].is = "register"
                         => Queue'[i].pos < Queue'[j].pos
  BY <1>3 DEF QueueSound, Unheard
<1> HIDE DEF Good, New
<1>4. CASE Queue # <<>> /\ Queue' = Tail(Queue)
  <2>0. PICK n \in Nat \ {0} : n = Len(Queue)
    BY <1>1, <1>4, TailAny
  <2>1. /\ Queue' \in Seq(Range(Queue')) /\ DOMAIN Queue' = 1 .. n - 1
        /\ DOMAIN Queue = 1 .. n
        /\ \A i \in 1 .. n - 1 : Queue'[i] = Queue[i + 1]
    BY <1>1, <1>4, <2>0, TailAny, RangeOfSequence
  <2>2. \A i \in DOMAIN Queue' : /\ i \in Int /\ i + 1 \in DOMAIN Queue /\ i + 1 > 1
                                 /\ Queue'[i] = Queue[i + 1]
    BY <2>1
  <2>3. \A i, j \in DOMAIN Queue' : i < j => i + 1 < j + 1
    BY <2>2
  <2> QED
    BY <1>1, <1>2, <2>1, <2>2, <2>3
<1>5. CASE Queue' = Queue
  <2>1. Queue = Tail(Queue) => Queue = <<>>
    <3> SUFFICES ASSUME Queue = Tail(Queue), Queue # <<>> PROVE FALSE
      OBVIOUS
    <3>1. Len(Queue) = Len(Queue) - 1 /\ Len(Queue) \in Nat
      BY <1>1, TailAny
    <3> QED
      BY <3>1
  <2>2. Queue = <<>> => DOMAIN Queue = {}
    OBVIOUS
  <2>3. \A i \in DOMAIN Queue : New(Queue[i])
    BY <1>2, <1>5, <2>1, <2>2
  <2> QED
    BY <1>1, <1>5, <2>3
<1>6. ASSUME NEW m, Queue' = Append(Queue, m), Good(m), New(m),
             m.is = "register" =>
                \A i \in DOMAIN Queue : Queue[i].is = "register" => Queue[i].pos < m.pos
      PROVE  /\ Queue' \in Seq(Range(Queue'))
             /\ \A i \in DOMAIN Queue' : Good(Queue'[i]) /\ New(Queue'[i])
             /\ \A i, j \in DOMAIN Queue' :
                   i < j /\ Queue'[i].is = "register" /\ Queue'[j].is = "register"
                       => Queue'[i].pos < Queue'[j].pos
  <2>1. PICK n \in Nat : n = Len(Queue)
    BY <1>1, RangeOfSequence
  <2>2. /\ Queue' \in Seq(Range(Queue')) /\ DOMAIN Queue' = 1 .. n + 1 /\ DOMAIN Queue = 1 .. n
        /\ Len(Queue') = n + 1
        /\ \A i \in 1 .. n : Queue'[i] = Queue[i]
        /\ Queue'[n + 1] = m
    BY <1>1, <1>6, <2>1, AppendAny, RangeOfSequence
  <2>3. \A i \in DOMAIN Queue' : i = n + 1 \/ (i \in DOMAIN Queue /\ i < n + 1)
    BY <2>2
  <2>4. Queue' # Tail(Queue)
    <3> SUFFICES ASSUME Queue' = Tail(Queue) PROVE FALSE
      OBVIOUS
    <3>1. CASE Queue = <<>>
      <4>1. n = 0 /\ Queue'[1] = m
        BY <2>1, <2>2, <3>1
      <4>2. Len(Tail(<<>>)) = 0
        OBVIOUS
      <4> QED
        BY <2>2, <3>1, <4>1, <4>2
    <3>2. CASE Queue # <<>>
      <4>1. Len(Tail(Queue)) = n - 1
        BY <1>1, <2>1, <3>2, TailAny
      <4> QED
        BY <2>2, <4>1
    <3> QED
      BY <3>1, <3>2
  <2>5. \A i \in DOMAIN Queue' : Good(Queue'[i]) /\ New(Queue'[i])
    BY <1>1, <1>2, <1>6, <2>2, <2>3, <2>4
  <2>6. ASSUME NEW i \in DOMAIN Queue', NEW j \in DOMAIN Queue', i < j,
               Queue'[i].is = "register", Queue'[j].is = "register"
        PROVE  Queue'[i].pos < Queue'[j].pos
    <3>1. i \in DOMAIN Queue /\ Queue'[i] = Queue[i]
      <4>1. i # n + 1
        BY <2>2, <2>6
      <4> QED
        BY <2>2, <2>3, <4>1
    <3>2. CASE j = n + 1
      BY <1>6, <2>2, <2>6, <3>1, <3>2
    <3>3. CASE j \in DOMAIN Queue
      BY <1>1, <2>2, <2>6, <3>1, <3>3
    <3> QED
      BY <2>3, <3>2, <3>3
  <2> QED
    BY <2>2, <2>5, <2>6
<1> QED
  BY <1>4, <1>5, <1>6 DEF Good, New, Unheard

-----------------------------------------------------------------------------
(* A call leaves alone the contexts it is not about; a limit that is on    *)
(* its way to the daemon excuses them all.                                 *)
LEMMA Untouched ==
  ASSUME LInv, NEW c \in ContextIds, NEW m,
         Queue' = Queue \/ (Queue' = Append(Queue, m) /\ ~Concerns(m, c)),
         UNCHANGED <<tables, toUser, receiver>>, handles'[c] = handles[c],
         handles[c] # 0 /\ (Queue' = Queue \/ m.is # "limit") =>
            /\ slots'[handles[c]].cell = slots[handles[c]].cell
            /\ slots'[handles[c]].told \in {slots[handles[c]].told, NotSet}
  PROVE  Placed(c)' /\ Agrees(c)'
<1>1. /\ Queue \in Seq(Range(Queue)) /\ Placed(c) /\ Agrees(c)
  BY DEF LInv, QueueSound
<1> DEFINE p == handles[c]
           w == LevelMessage(tables[c]).level
<1>2. /\ handles'[c] = p /\ LevelMessage(tables'[c]).level = w /\ tables'[c].pos = tables[c].pos
  OBVIOUS
<1>3. ASSUME slots'[p].cell = slots[p].cell, slots'[p].told \in {slots[p].told, NotSet}, Gets(p, w)
      PROVE  Gets(handles[c], LevelMessage(tables[c]).level)'
  BY <1>2, <1>3 DEF Gets, GetsFrom
<1>4. CASE Queue' = Queue
  <2>1. Placed(c)'
    BY <1>1, <1>2, <1>4 DEF Placed
  <2>2. Agrees(c)'
    BY <1>1, <1>2, <1>3, <1>4 DEF Agrees
  <2> QED
    BY <2>1, <2>2
<1>5. CASE Queue' = Append(Queue, m) /\ ~Concerns(m, c) /\ Queue' # Queue
  <2>1. /\ NoConcern(Queue', c) <=> NoConcern(Queue, c)
        /\ \A i : LastConcern(Queue', i, c) <=> LastConcern(Queue, i, c)
        /\ \A i \in DOMAIN Queue : NoLimitAfter(Queue', i) <=> NoLimitAfter(Queue, i) /\ m.is # "limit"
        /\ NoLimitAfter(Queue', 0) <=> NoLimitAfter(Queue, 0) /\ m.is # "limit"
    BY <1>1, <1>5, QueueAppended
  <2>2. \A i \in DOMAIN Queue : Queue'[i] = Queue[i]
    BY <1>1, <1>5, AppendAny, RangeOfSequence
  <2>3. \A i : LastConcern(Queue, i, c) => i \in DOMAIN Queue
    BY DEF LastConcern
  <2>4. Placed(c)'
    <3>1. NoConcern(Queue', c) => tables'[c].pos = handles'[c]
      BY <1>1, <1>2, <2>1 DEF Placed
    <3>2. \A i \in DOMAIN Queue' : LastConcern(Queue', i, c) => Queue'[i].pos = handles'[c]
      BY <1>1, <1>2, <2>1, <2>2, <2>3 DEF Placed
    <3> QED
      BY <3>1, <3>2 DEF Placed
  <2>5. Agrees(c)'
    <3> SUFFICES ASSUME p # 0, m.is # "limit"
                 PROVE  /\ NoConcern(Queue', c) /\ NoLimitAfter(Queue', 0)
                              => Gets(handles[c], LevelMessage(tables[c]).level)'
                        /\ \A i \in DOMAIN Queue' :
                              LastConcern(Queue', i, c) /\ NoLimitAfter(Queue', i)
                              /\ Queue'[i].level # NotSet
                                 => slots'[p].cell = Queue'[i].level
      BY <1>2, <2>1, <2>3 DEF Agrees
    <3>1. slots'[p].cell = slots[p].cell /\ slots'[p].told \in {slots[p].told, NotSet}
      OBVIOUS
    <3>2. NoConcern(Queue', c) /\ NoLimitAfter(Queue', 0)
             => Gets(handles[c], LevelMessage(tables[c]).level)'
      BY <1>1, <1>3, <2>1, <3>1 DEF Agrees
    <3>3. \A i \in DOMAIN Queue' :
             LastConcern(Queue', i, c) /\ NoLimitAfter(Queue', i) /\ Queue'[i].level # NotSet
                => slots'[p].cell = Queue'[i].level
      BY <1>1, <2>1, <2>2, <2>3, <3>1 DEF Agrees
    <3> QED
      BY <3>2, <3>3
  <2> QED
    BY <2>4, <2>5
<1> QED
  BY <1>4, <1>5

(* A call that registers or unregisters a context, and is still to be read.*)
LEMMA Touched ==
  ASSUME LInv, NEW c \in ContextIds, NEW m, Queue' = Append(Queue, m), Concerns(m, c),
         m.pos = handles'[c],
         handles'[c] # 0 /\ m.level # NotSet => slots'[handles'[c]].cell = m.level
  PROVE  Placed(c)' /\ Agrees(c)'
<1>1. Queue \in Seq(Range(Queue))
  BY DEF LInv, QueueSound
<1>2. /\ ~NoConcern(Queue', c)
      /\ \A i : LastConcern(Queue', i, c) => i = Len(Queue) + 1
      /\ Queue'[Len(Queue) + 1] = m
  <2>1. /\ NoConcern(Queue', c) <=> NoConcern(Queue, c) /\ ~Concerns(m, c)
        /\ \A i : LastConcern(Queue', i, c) <=>
              \/ i = Len(Queue) + 1 /\ Concerns(m, c)
              \/ LastConcern(Queue, i, c) /\ ~Concerns(m, c)
    BY <1>1, QueueAppended
  <2>2. Queue'[Len(Queue) + 1] = m
    BY <1>1, AppendAny
  <2> QED
    BY <2>1, <2>2
<1>3. Placed(c)'
  BY <1>2 DEF Placed
<1>4. Agrees(c)'
  BY <1>2 DEF Agrees
<1> QED
  BY <1>3, <1>4

(* The contexts of slots stay what they are for the daemon and receiver.   *)
LEMMA NewStays ==
  ASSUME QueueSound, UNCHANGED <<tables, toUser>>, NEW p, Unheard(p),
         DOMAIN slots \subseteq DOMAIN slots', slots'[p].told \in {slots[p].told, NotSet}
  PROVE  NewTo(slots', tables', toUser', p)
BY DEF Unheard, NewTo

(* A context is registered.                                                *)
LEMMA RegisterLevels ==
  ASSUME IInv, LInv, environment \in Environments, NEW c \in ContextIds,
         NEW asked \in LogLevels \cup {NotSet},
         dlt_register_context_ll_ts_llccb(c, asked)
  PROVE  LInv'
<1> DEFINE env == dlt_env_adjust_ll_from_env(dlt_env_extract_ll_set(environment), ThisApp, c, NotSet)
           loglevel == IF env # NotSet THEN env ELSE asked
           first == IF loglevel = NotSet THEN InitialLevel ELSE loglevel
           m == Message("register", c, Len(slots) + 1, loglevel)
<1>0. PICK n \in Nat : n = Len(slots) /\ DOMAIN slots = 1 .. n
  BY PositionsAre
<1>1. /\ caller = NoMessage /\ caller' = m /\ UNCHANGED <<toDaemon, toUser, tables, receiver>>
      /\ slots' = [p \in 1 .. (IF n + 1 > n THEN n + 1 ELSE n) |->
                      IF p = n + 1 THEN Slot(c, first) ELSE slots[p]]
      /\ handles' = [handles EXCEPT ![c] = n + 1]
  BY <1>0 DEF dlt_register_context_ll_ts_llccb, NewPosition, Calls
<1>2. loglevel # NoCell /\ first # NoCell
  <2>1. env = NotSet \/ env \in -1 .. 6
    <3>1. PICK items : items = dlt_env_extract_ll_set(environment)
      OBVIOUS
    <3>2. items \in Seq(Item)
      BY <3>1, ExtractIs
    <3>3. env = NotSet \/ \E i \in DOMAIN items : env = items[i].level
      BY <3>1, <3>2, AdjustIs DEF Decides
    <3>4. \A i \in DOMAIN items : items[i].level \in -1 .. 6
      <4>1. \A i \in DOMAIN items : items[i] \in Item
        BY <3>2, LenProperties, ElementOfSeq
      <4> QED
        BY <4>1 DEF Item
    <3> QED
      BY <3>3, <3>4
  <2>2. asked = NotSet \/ asked \in 0 .. 6
    BY ContextsAssumption
  <2> HIDE DEF env
  <2> QED
    BY <2>1, <2>2, ContextsAssumption DEF NotSet, NoCell
<1> HIDE DEF env, loglevel, first
<1>3. /\ DOMAIN slots' = 1 .. n + 1 /\ slots'[n + 1] = Slot(c, first)
      /\ \A p \in 1 .. n : slots'[p] = slots[p]
      /\ handles'[c] = n + 1 /\ \A d \in ContextIds : d # c => handles'[d] = handles[d]
  <2>1. slots' = [p \in 1 .. n + 1 |-> IF p = n + 1 THEN Slot(c, first) ELSE slots[p]]
    BY <1>1
  <2>2. DOMAIN handles = ContextIds
    BY PositionsAre
  <2> QED
    BY <1>1, <2>1, <2>2
<1>4. /\ m.is = "register" /\ m.ctx = c /\ m.pos = n + 1 /\ m.level = loglevel /\ m # NoMessage
  BY <1>0 DEF Message, NoMessage
<1> HIDE DEF m
<1>5. Queue' = Append(Queue, m)
  BY <1>1, <1>4, CallQueue
<1>6. \A q \in 1 .. n : q < n + 1
  OBVIOUS
<1>7. QueueSound'
  <2>1. NewTo(slots', tables', toUser', n + 1)
    <3>1. \A d \in ContextIds : tables[d].pos < n + 1
      <4>1. \A d \in ContextIds : tables[d].pos \in 0 .. n
        BY <1>0, PositionsAre
      <4> QED
        BY <4>1
    <3>2. \A k \in DOMAIN toUser : toUser[k].pos < n + 1
      BY <1>0, <1>6, PositionsAre
    <3>3. n + 1 \in DOMAIN slots' /\ slots'[n + 1].told = NotSet
      BY <1>3 DEF Slot
    <3> QED
      BY <1>1, <3>1, <3>2, <3>3 DEF NewTo
  <2>2. \A i \in DOMAIN Queue : Queue[i].is = "register" =>
           Queue[i].pos < n + 1 /\ NewTo(slots', tables', toUser', Queue[i].pos)
    <3> SUFFICES ASSUME NEW i \in DOMAIN Queue, Queue[i].is = "register"
                 PROVE  Queue[i].pos < n + 1 /\ NewTo(slots', tables', toUser', Queue[i].pos)
      OBVIOUS
    <3> DEFINE q == Queue[i].pos
    <3>1. Unheard(q)
      BY DEF LInv, QueueSound
    <3>2. q \in 1 .. n
      BY <1>0, <3>1 DEF Unheard, NewTo
    <3>3. slots'[q].told = slots[q].told /\ DOMAIN slots \subseteq DOMAIN slots'
      BY <1>0, <1>3, <3>2
    <3> QED
      BY <1>1, <1>6, <3>1, <3>2, <3>3, NewStays DEF LInv
  <2> QED
    BY <1>2, <1>4, <1>5, <2>1, <2>2, QueueStep DEF LInv
<1>8. CellsSound'
  <2>1. \A p \in DOMAIN slots' : p \in 1 .. n \/ p = n + 1
    BY <1>3
  <2>2. \A p \in DOMAIN slots' : /\ slots'[p].ctx # EmptyId => slots'[p].cell # NoCell
                                 /\ slots'[p].changed = 0 => slots'[p].told = NotSet
    BY <1>0, <1>2, <1>3, <2>1 DEF LInv, CellsSound, Slot
  <2> QED
    BY <1>1, <2>2 DEF LInv, CellsSound
<1>9. TellingSound'
  <2>1. Telling => receiver.pos \in 1 .. n
    BY <1>0, PositionsAre
  <2> QED
    BY <1>1, <1>3, <2>1 DEF LInv, TellingSound, Telling
<1>10. ASSUME NEW d \in ContextIds PROVE Placed(d)' /\ Agrees(d)'
  <2>1. CASE d = c
    <3>1. m.level # NotSet => slots'[handles'[c]].cell = m.level
      BY <1>3, <1>4 DEF Slot, first
    <3>2. Concerns(m, c) /\ m.pos = handles'[c]
      BY <1>3, <1>4 DEF Concerns
    <3> QED
      BY <1>5, <2>1, <3>1, <3>2, Touched
  <2>2. CASE d # c
    <3>1. ~Concerns(m, d) /\ handles'[d] = handles[d]
      BY <1>3, <1>4, <2>2 DEF Concerns
    <3>2. handles[d] # 0 => slots'[handles[d]] = slots[handles[d]]
      BY <1>0, <1>3, PositionsAre
    <3> QED
      BY <1>1, <1>5, <3>1, <3>2, Untouched
  <2> QED
    BY <2>1, <2>2
<1> QED
  BY <1>7, <1>8, <1>9, <1>10 DEF LInv

(* A context is unregistered.                                              *)
LEMMA UnregisterLevels ==
  ASSUME IInv, LInv, NEW c \in ContextIds, dlt_unregister_context(c)
  PROVE  LInv'
<1> DEFINE s == [Slot(EmptyId, InitialLevel) EXCEPT !.cell = NoCell]
           p == handles[c]
           m == Message("unregister", c, 0, 0)
<1>1. /\ caller = NoMessage /\ caller' = m /\ UNCHANGED <<toDaemon, toUser, tables, receiver>>
      /\ slots' = [slots EXCEPT ![p] = s] /\ handles' = [handles EXCEPT ![c] = 0] /\ p # 0
  BY DEF dlt_unregister_context, Calls
<1>2. s.ctx = EmptyId /\ s.told = NotSet
  BY DEF Slot
<1>3. /\ m.is = "unregister" /\ m.ctx = c /\ m.pos = 0 /\ m.level = 0 /\ m # NoMessage
  BY DEF Message, NoMessage
<1>4. 0 # NoCell
  BY DEF NoCell
<1> HIDE DEF m, s
<1>5. Queue' = Append(Queue, m)
  BY <1>1, <1>3, CallQueue
<1>6. /\ DOMAIN slots' = DOMAIN slots
      /\ \A q \in DOMAIN slots : slots'[q] = IF q = p THEN s ELSE slots[q]
      /\ handles'[c] = 0 /\ \A d \in ContextIds : d # c => handles'[d] = handles[d]
  <2>1. DOMAIN handles = ContextIds
    BY PositionsAre
  <2> QED
    BY <1>1, <2>1
<1>7. \A q \in DOMAIN slots : slots'[q].told \in {slots[q].told, NotSet}
  BY <1>2, <1>6
<1>8. QueueSound'
  <2>1. \A i \in DOMAIN Queue : Queue[i].is = "register" =>
           NewTo(slots', tables', toUser', Queue[i].pos)
    <3> SUFFICES ASSUME NEW i \in DOMAIN Queue, Queue[i].is = "register"
                 PROVE  NewTo(slots', tables', toUser', Queue[i].pos)
      OBVIOUS
    <3>1. Unheard(Queue[i].pos) /\ Queue[i].pos \in DOMAIN slots
      BY DEF LInv, QueueSound, Unheard, NewTo
    <3> QED
      BY <1>1, <1>6, <1>7, <3>1, NewStays DEF LInv
  <2> QED
    BY <1>3, <1>4, <1>5, <2>1, QueueStep DEF LInv
<1>9. CellsSound'
  <2>1. \A q \in DOMAIN slots' : /\ slots'[q].ctx # EmptyId => slots'[q].cell # NoCell
                                 /\ slots'[q].changed = 0 => slots'[q].told = NotSet
    BY <1>2, <1>6 DEF LInv, CellsSound
  <2> QED
    BY <1>1, <2>1 DEF LInv, CellsSound
<1>10. TellingSound'
  BY <1>1, <1>2, <1>6, PositionsAre DEF LInv, TellingSound, Telling
<1>11. ASSUME NEW d \in ContextIds PROVE Placed(d)' /\ Agrees(d)'
  <2>1. CASE d = c
    <3>1. Concerns(m, c) /\ m.pos = handles'[c] /\ handles'[c] = 0
      BY <1>3, <1>6 DEF Concerns
    <3> QED
      BY <1>5, <2>1, <3>1, Touched
  <2>2. CASE d # c
    <3>1. ~Concerns(m, d) /\ handles'[d] = handles[d]
      BY <1>3, <1>6, <2>2 DEF Concerns
    <3>2. handles[d] # 0 => slots'[handles[d]] = slots[handles[d]]
      BY <1>1, <1>6, <2>2, PositionsAre
    <3> QED
      BY <1>1, <1>5, <3>1, <3>2, Untouched
  <2> QED
    BY <2>1, <2>2
<1> QED
  BY <1>8, <1>9, <1>10, <1>11 DEF LInv

(* The level of all contexts is limited; the daemon will tell them.        *)
LEMMA LimitLevels ==
  ASSUME IInv, LInv, NEW level \in LogLevels, dlt_set_application_ll_ts_limit(level)
  PROVE  LInv'
<1> DEFINE m == Message("limit", 0, 0, level)
<1>0. level # NoCell /\ level # NotSet
  BY ContextsAssumption DEF NoCell, NotSet
<1>1. /\ caller = NoMessage /\ caller' = m
      /\ UNCHANGED <<toDaemon, toUser, tables, receiver, handles>>
      /\ slots' = [p \in DOMAIN slots |->
                    [slots[p] EXCEPT !.level = level, !.cell = IF @ = NoCell THEN @ ELSE level]]
  BY DEF dlt_set_application_ll_ts_limit, Calls
<1>2. m.is = "limit" /\ m.level = level /\ m # NoMessage
  BY DEF Message, NoMessage
<1> HIDE DEF m
<1>3. Queue' = Append(Queue, m)
  BY <1>1, <1>2, CallQueue
<1>4. /\ DOMAIN slots' = DOMAIN slots
      /\ \A p \in DOMAIN slots :
            /\ slots'[p].told = slots[p].told /\ slots'[p].changed = slots[p].changed
            /\ slots'[p].ctx = slots[p].ctx
            /\ slots[p].cell # NoCell => slots'[p].cell # NoCell
  <2>1. ASSUME NEW p \in DOMAIN slots
        PROVE  /\ slots'[p].told = slots[p].told /\ slots'[p].changed = slots[p].changed
               /\ slots'[p].ctx = slots[p].ctx
               /\ slots[p].cell # NoCell => slots'[p].cell # NoCell
    <3> DEFINE cell == IF slots[p].cell = NoCell THEN slots[p].cell ELSE level
    <3>1. slots'[p] = [slots[p] EXCEPT !.level = level, !.cell = cell]
      BY <1>1
    <3>2. slots[p] = [ctx |-> slots[p].ctx, level |-> slots[p].level, cell |-> slots[p].cell,
                      injections |-> slots[p].injections, changed |-> slots[p].changed,
                      told |-> slots[p].told]
      BY DEF IInv, SlotsSound, SlotSound
    <3>3. slots[p].cell # NoCell => cell # NoCell
      BY <1>0
    <3> HIDE DEF cell
    <3>4. slots'[p] = [ctx |-> slots[p].ctx, level |-> level, cell |-> cell,
                       injections |-> slots[p].injections, changed |-> slots[p].changed,
                       told |-> slots[p].told]
      BY <3>1, <3>2
    <3> QED
      BY <3>3, <3>4
  <2> QED
    BY <1>1, <2>1
<1>5. QueueSound'
  <2>1. \A i \in DOMAIN Queue : Queue[i].is = "register" =>
           NewTo(slots', tables', toUser', Queue[i].pos)
    <3> SUFFICES ASSUME NEW i \in DOMAIN Queue, Queue[i].is = "register"
                 PROVE  NewTo(slots', tables', toUser', Queue[i].pos)
      OBVIOUS
    <3>1. Unheard(Queue[i].pos) /\ Queue[i].pos \in DOMAIN slots
      BY DEF LInv, QueueSound, Unheard, NewTo
    <3> QED
      BY <1>1, <1>4, <3>1, NewStays DEF LInv
  <2> QED
    BY <1>0, <1>2, <1>3, <2>1, QueueStep DEF LInv
<1>6. CellsSound'
  <2>1. \A q \in DOMAIN slots' : /\ slots'[q].ctx # EmptyId => slots'[q].cell # NoCell
                                 /\ slots'[q].changed = 0 => slots'[q].told = NotSet
    BY <1>4 DEF LInv, CellsSound
  <2> QED
    BY <1>1, <2>1 DEF LInv, CellsSound
<1>7. TellingSound'
  <2> SUFFICES ASSUME Telling
               PROVE  /\ toUser[1].is = "level" /\ toUser[1].pos = receiver.pos
                      /\ toUser[1].level = receiver.level /\ receiver.number # 0
                      /\ slots'[receiver.pos].changed # receiver.number
                             => slots'[receiver.pos].told = NotSet
    BY <1>1 DEF TellingSound, Telling
  <2>1. receiver.pos \in DOMAIN slots
    BY PositionsAre
  <2>2. /\ slots'[receiver.pos].changed = slots[receiver.pos].changed
        /\ slots'[receiver.pos].told = slots[receiver.pos].told
    BY <1>4, <2>1
  <2> QED
    BY <2>2 DEF LInv, TellingSound
<1>8. ASSUME NEW d \in ContextIds PROVE Placed(d)' /\ Agrees(d)'
  <2>1. ~Concerns(m, d) /\ handles'[d] = handles[d]
    BY <1>1, <1>2 DEF Concerns
  <2>2. Queue' # Queue
    <3>1. Queue \in Seq(Range(Queue))
      BY DEF LInv, QueueSound
    <3>2. Len(Queue') = Len(Queue) + 1 /\ Len(Queue) \in Nat
      BY <1>3, <3>1, AppendAny, RangeOfSequence
    <3> QED
      BY <3>2
  <2> QED
    BY <1>1, <1>2, <1>3, <2>1, <2>2, Untouched
<1> QED
  BY <1>5, <1>6, <1>7, <1>8 DEF LInv

(* A step that leaves levels alone: the fields of one slot that change are *)
(* others, or the level it was told is forgotten.                          *)
LEMMA OtherLevels ==
  ASSUME IInv, LInv, Queue' = Queue, UNCHANGED <<handles, tables, toUser, receiver>>,
         DOMAIN slots' = DOMAIN slots,
         \A p \in DOMAIN slots :
            /\ slots'[p].ctx = slots[p].ctx /\ slots'[p].cell = slots[p].cell
            /\ \/ slots'[p].told = slots[p].told /\ slots'[p].changed = slots[p].changed
               \/ slots'[p].told = NotSet
  PROVE  LInv'
<1>1. QueueSound'
  <2>1. \A i \in DOMAIN Queue : Queue[i].is = "register" =>
           NewTo(slots', tables', toUser', Queue[i].pos)
    <3> SUFFICES ASSUME NEW i \in DOMAIN Queue, Queue[i].is = "register"
                 PROVE  NewTo(slots', tables', toUser', Queue[i].pos)
      OBVIOUS
    <3>1. Unheard(Queue[i].pos) /\ Queue[i].pos \in DOMAIN slots
      BY DEF LInv, QueueSound, Unheard, NewTo
    <3> QED
      BY <3>1, NewStays DEF LInv
  <2> QED
    BY <2>1, QueueStep DEF LInv
<1>2. CellsSound'
  BY DEF LInv, CellsSound
<1>3. TellingSound'
  BY PositionsAre DEF LInv, TellingSound, Telling
<1>4. ASSUME NEW d \in ContextIds PROVE Placed(d)' /\ Agrees(d)'
  <2>1. handles[d] # 0 => handles[d] \in DOMAIN slots
    BY PositionsAre
  <2> QED
    BY <2>1, Untouched
<1> QED
  BY <1>1, <1>2, <1>3, <1>4 DEF LInv

(* A callback for injections or for changed levels is registered.          *)
LEMMA CallbackLevels ==
  ASSUME IInv, LInv, NEW c \in ContextIds, NEW service,
         \/ dlt_register_injection_callback_with_id(c, service)
         \/ dlt_register_log_level_changed_callback(c)
  PROVE  LInv'
<1> DEFINE p == handles[c]
<1>1. /\ UNCHANGED <<handles, caller, toDaemon, toUser, tables, receiver>> /\ p # 0
  BY DEF dlt_register_injection_callback_with_id, dlt_register_log_level_changed_callback
<1>2. Queue' = Queue
  BY <1>1 DEF Queue
<1>3. p \in DOMAIN slots
  BY <1>1, PositionsAre
<1>4. slots[p] = [ctx |-> slots[p].ctx, level |-> slots[p].level, cell |-> slots[p].cell,
                  injections |-> slots[p].injections, changed |-> slots[p].changed,
                  told |-> slots[p].told]
  BY <1>3 DEF IInv, SlotsSound, SlotSound
<1> HIDE DEF p
<1>5. \E e : /\ slots' = [slots EXCEPT ![p] = e]
             /\ e.ctx = slots[p].ctx /\ e.cell = slots[p].cell
             /\ \/ e.told = slots[p].told /\ e.changed = slots[p].changed
                \/ e.told = NotSet
  <2>1. CASE dlt_register_injection_callback_with_id(c, service)
    <3>1. PICK table : slots' = [slots EXCEPT ![p].injections = table]
      BY <2>1 DEF dlt_register_injection_callback_with_id, p
    <3> DEFINE e == [slots[p] EXCEPT !.injections = table]
    <3>2. slots' = [slots EXCEPT ![p] = e]
      BY <1>3, <3>1
    <3>3. e = [ctx |-> slots[p].ctx, level |-> slots[p].level, cell |-> slots[p].cell,
               injections |-> table, changed |-> slots[p].changed, told |-> slots[p].told]
      BY <1>4
    <3> HIDE DEF e
    <3>4. /\ e.ctx = slots[p].ctx /\ e.cell = slots[p].cell
          /\ \/ e.told = slots[p].told /\ e.changed = slots[p].changed
             \/ e.told = NotSet
      BY <3>3
    <3> QED
      BY <3>2, <3>4
  <2>2. CASE dlt_register_log_level_changed_callback(c)
    <3> DEFINE e == [slots[p] EXCEPT !.changed = events, !.told = NotSet]
    <3>2. slots' = [slots EXCEPT ![p] = e]
      BY <1>3, <2>2 DEF dlt_register_log_level_changed_callback, p
    <3>1. e = [slots[p] EXCEPT !.changed = events, !.told = NotSet]
      OBVIOUS
    <3> HIDE DEF e
    <3>3. e = [ctx |-> slots[p].ctx, level |-> slots[p].level, cell |-> slots[p].cell,
               injections |-> slots[p].injections, changed |-> events, told |-> NotSet]
      BY <1>4, <3>1
    <3>4. /\ e.ctx = slots[p].ctx /\ e.cell = slots[p].cell
          /\ \/ e.told = slots[p].told /\ e.changed = slots[p].changed
             \/ e.told = NotSet
      BY <3>3
    <3> QED
      BY <3>2, <3>4
  <2> QED
    BY <2>1, <2>2
<1>6. PICK e : /\ slots' = [slots EXCEPT ![p] = e]
               /\ e.ctx = slots[p].ctx /\ e.cell = slots[p].cell
               /\ \/ e.told = slots[p].told /\ e.changed = slots[p].changed
                  \/ e.told = NotSet
  BY <1>5
<1>7. /\ DOMAIN slots' = DOMAIN slots
      /\ \A q \in DOMAIN slots : slots'[q] = IF q = p THEN e ELSE slots[q]
  BY <1>6
<1> QED
  BY <1>1, <1>2, <1>6, <1>7, OtherLevels

(* The message of a call is written.                                       *)
LEMMA WriteLevels ==
  ASSUME IInv, LInv, WritesToDaemon
  PROVE  LInv'
BY WriteQueue, OtherLevels DEF WritesToDaemon

-----------------------------------------------------------------------------
(* What the daemon sends comes behind what is on its way.                  *)
LEMMA SentLevels ==
  ASSUME IInv, LInv, UNCHANGED <<slots, receiver>>,
         NEW r, r \in Seq(Range(r)), toUser' = toUser \o r,
         \A i \in 1 .. Len(r) : r[i].is = "level" => r[i].level # NoCell,
         \A c \in ContextIds : tables'[c].level # NoCell
  PROVE  /\ CellsSound' /\ TellingSound'
         /\ \A q : /\ NewTo(slots, tables, toUser, q)
                   /\ \A c \in ContextIds : tables'[c].pos < q
                   /\ \A i \in 1 .. Len(r) : r[i].pos < q
                   => NewTo(slots', tables', toUser', q)
         /\ \A p, w : GetsFrom(slots, toUser, receiver, p, w) /\ NoneTo(r, p)
                       => GetsFrom(slots', toUser', receiver', p, w)
         /\ \A p, w : ~NoneTo(r, p) /\ AllTo(r, p, w) => GetsFrom(slots', toUser', receiver', p, w)
<1>1. PICK n \in Nat, l \in Nat : n = Len(toUser) /\ l = Len(r)
  BY PositionsAre, RangeOfSequence
<1>2. toUser \in Seq(Range(toUser)) /\ (Telling => toUser # <<>> /\ 1 \in DOMAIN toUser)
  BY PositionsAre
<1>3. /\ DOMAIN toUser = 1 .. n /\ DOMAIN toUser' = 1 .. n + l
      /\ \A k \in 1 .. n : toUser'[k] = toUser[k]
      /\ \A k \in n + 1 .. n + l : toUser'[k] = r[k - n]
  BY <1>1, <1>2, ConcatAny, RangeOfSequence
<1>4. \A k \in DOMAIN toUser' : \/ k \in DOMAIN toUser /\ toUser'[k] = toUser[k]
                                \/ k - n \in 1 .. l /\ toUser'[k] = r[k - n]
  <2>1. \A k \in 1 .. n + l : k \in 1 .. n \/ (k \in n + 1 .. n + l /\ k - n \in 1 .. l)
    OBVIOUS
  <2> QED
    BY <1>3, <2>1
<1>5. CellsSound'
  <2>1. \A k \in DOMAIN toUser' : toUser'[k].is = "level" => toUser'[k].level # NoCell
    BY <1>1, <1>4 DEF LInv, CellsSound
  <2> QED
    BY <2>1 DEF LInv, CellsSound
<1>6. TellingSound'
  <2>1. Telling => toUser'[1] = toUser[1]
    BY <1>2, <1>3
  <2> QED
    BY <2>1 DEF LInv, TellingSound, Telling
<1>7. ASSUME NEW q, NewTo(slots, tables, toUser, q),
             \A c \in ContextIds : tables'[c].pos < q,
             \A i \in 1 .. Len(r) : r[i].pos < q
      PROVE  NewTo(slots', tables', toUser', q)
  <2>1. \A k \in DOMAIN toUser' : toUser'[k].pos < q
    BY <1>1, <1>4, <1>7 DEF NewTo
  <2> QED
    BY <1>7, <2>1 DEF NewTo
<1> DEFINE busy == receiver.is = "changed"
<1>8. busy \in BOOLEAN /\ (busy => toUser # <<>>)
  BY <1>2 DEF Telling
<1>0. Joined(toUser, r, toUser')
  BY <1>2 DEF Joined
<1>9. ASSUME NEW p, NEW w, GetsFrom(slots, toUser, receiver, p, w), NoneTo(r, p)
      PROVE  GetsFrom(slots', toUser', receiver', p, w)
  <2> HIDE DEF busy
  <2>0. AllTo(r, p, w)
    BY <1>9 DEF AllTo, NoneTo
  <2>1. /\ Coming(toUser', busy, p) = Coming(toUser, busy, p)
        /\ \A x : EndsWith(toUser, busy, p, x) => EndsWith(toUser', busy, p, x)
    BY <1>0, <1>8, <1>9, <2>0, ComingSent
  <2> QED
    BY <1>9, <2>1 DEF GetsFrom, busy
<1>10. ASSUME NEW p, NEW w, ~NoneTo(r, p), AllTo(r, p, w)
       PROVE  GetsFrom(slots', toUser', receiver', p, w)
  <2> HIDE DEF busy
  <2>1. Coming(toUser', busy, p) # {} /\ EndsWith(toUser', busy, p, w)
    BY <1>0, <1>8, <1>10, ComingSent
  <2> QED
    BY <2>1 DEF GetsFrom, busy
<1> QED
  BY <1>5, <1>6, <1>7, <1>9, <1>10

(* What a message that is read leaves behind is as it was.                 *)
LEMMA ReadStep ==
  ASSUME IInv, LInv, DaemonReads, NEW c \in ContextIds,
         NoConcern(Queue', c) => tables'[c].pos = handles[c],
         handles[c] # 0 /\ NoConcern(Queue', c) /\ NoLimitAfter(Queue', 0) =>
            GetsFrom(slots', toUser', receiver', handles[c], LevelMessage(tables'[c]).level)
  PROVE  Placed(c)' /\ Agrees(c)'
<1>1. /\ Queue \in Seq(Range(Queue)) /\ Queue # <<>> /\ Queue' = Tail(Queue)
      /\ handles' = handles /\ slots' = slots
      /\ Placed(c) /\ Agrees(c)
  BY ReadQueue DEF LInv, QueueSound, DaemonReads
<1>2. /\ \A i \in DOMAIN Queue' : i + 1 \in DOMAIN Queue /\ Queue'[i] = Queue[i + 1]
      /\ \A i : LastConcern(Queue', i, c) => i \in DOMAIN Queue' /\ LastConcern(Queue, i + 1, c)
      /\ \A i \in DOMAIN Queue' : NoLimitAfter(Queue', i) => NoLimitAfter(Queue, i + 1)
  BY <1>1, QueueRead
<1>3. Placed(c)'
  <2>1. \A i \in DOMAIN Queue' : LastConcern(Queue', i, c) => Queue'[i].pos = handles[c]
    BY <1>1, <1>2 DEF Placed
  <2> QED
    BY <1>1, <2>1 DEF Placed
<1>4. Agrees(c)'
  <2>1. handles[c] # 0 =>
           \A i \in DOMAIN Queue' :
              LastConcern(Queue', i, c) /\ NoLimitAfter(Queue', i) /\ Queue'[i].level # NotSet
                 => slots[handles[c]].cell = Queue'[i].level
    BY <1>1, <1>2 DEF Agrees
  <2> QED
    BY <1>1, <2>1 DEF Agrees, Gets
<1> QED
  BY <1>3, <1>4

(* The daemon reads a message: what it has to do for each context, and for *)
(* the positions it has not read yet.                                      *)
LEMMA ReadSends ==
  ASSUME IInv, LInv, DaemonReads, NEW r, r \in Seq(Range(r)), toUser' = toUser \o r,
         \A i \in 1 .. Len(r) : r[i].is = "level" => r[i].level # NoCell,
         \A c \in ContextIds : tables'[c].level # NoCell,
         \A q : /\ Unheard(q)
                /\ Queue[1].is = "register" => Queue[1].pos < q
                => /\ \A c \in ContextIds : tables'[c].pos < q
                   /\ \A i \in 1 .. Len(r) : r[i].pos < q,
         \A c \in ContextIds : NoConcern(Queue', c) =>
            /\ tables'[c].pos = handles[c]
            /\ handles[c] # 0 /\ NoLimitAfter(Queue', 0) =>
                  LET w == LevelMessage(tables'[c]).level
                  IN  \/ Gets(handles[c], w) /\ NoneTo(r, handles[c])
                      \/ ~NoneTo(r, handles[c]) /\ AllTo(r, handles[c], w)
  PROVE  LInv'
<1>1. UNCHANGED <<slots, handles, receiver>>
  BY DEF DaemonReads
<1>2. /\ CellsSound' /\ TellingSound'
      /\ \A q : /\ NewTo(slots, tables, toUser, q)
                /\ \A c \in ContextIds : tables'[c].pos < q
                /\ \A i \in 1 .. Len(r) : r[i].pos < q
                => NewTo(slots', tables', toUser', q)
      /\ \A p, w : GetsFrom(slots, toUser, receiver, p, w) /\ NoneTo(r, p)
                    => GetsFrom(slots', toUser', receiver', p, w)
      /\ \A p, w : ~NoneTo(r, p) /\ AllTo(r, p, w) => GetsFrom(slots', toUser', receiver', p, w)
  BY <1>1, SentLevels
<1>3. Queue # <<>> /\ Queue' = Tail(Queue) /\ 1 \in DOMAIN Queue
  <2>1. Queue \in Seq(Range(Queue))
    BY DEF LInv, QueueSound
  <2> QED
    BY <2>1, ReadQueue, QueueRead
<1>4. QueueSound'
  <2>1. ASSUME NEW i \in DOMAIN Queue, Queue[i].is = "register", Unheard(Queue[i].pos), i > 1
        PROVE  NewTo(slots', tables', toUser', Queue[i].pos)
    <3>1. Queue[1].is = "register" => Queue[1].pos < Queue[i].pos
      BY <1>3, <2>1 DEF LInv, QueueSound
    <3> QED
      BY <1>2, <2>1, <3>1 DEF Unheard
  <2> QED
    BY <1>3, <2>1, QueueStep DEF LInv
<1>5. ASSUME NEW c \in ContextIds PROVE Placed(c)' /\ Agrees(c)'
  <2>1. NoConcern(Queue', c) => tables'[c].pos = handles[c]
    OBVIOUS
  <2>2. handles[c] # 0 /\ NoConcern(Queue', c) /\ NoLimitAfter(Queue', 0) =>
           GetsFrom(slots', toUser', receiver', handles[c], LevelMessage(tables'[c]).level)
    BY <1>2 DEF Gets
  <2> QED
    BY <2>1, <2>2, ReadStep
<1> QED
  BY <1>2, <1>4, <1>5 DEF LInv

(* A context the message read is not about, but for limits.                *)
LEMMA ReadOther ==
  ASSUME IInv, LInv, DaemonReads, NEW c \in ContextIds, ~Concerns(Queue[1], c),
         NoConcern(Queue', c)
  PROVE  /\ tables[c].pos = handles[c]
         /\ handles[c] # 0 /\ Queue[1].is # "limit" /\ NoLimitAfter(Queue', 0)
               => Gets(handles[c], LevelMessage(tables[c]).level)
<1>1. /\ Queue \in Seq(Range(Queue)) /\ Queue # <<>> /\ Queue' = Tail(Queue)
      /\ Placed(c) /\ Agrees(c)
  BY ReadQueue DEF LInv, QueueSound
<1>2. /\ NoConcern(Queue', c) => NoConcern(Queue, c) \/ LastConcern(Queue, 1, c)
      /\ NoLimitAfter(Queue', 0) => NoLimitAfter(Queue, 1)
  BY <1>1, QueueRead
<1>3. NoConcern(Queue, c)
  BY <1>2 DEF LastConcern
<1>4. DOMAIN Queue = 1 .. Len(Queue) /\ Len(Queue) \in Nat
  BY <1>1, RangeOfSequence
<1>5. Queue[1].is # "limit" /\ NoLimitAfter(Queue, 1) => NoLimitAfter(Queue, 0)
  <2>1. \A i \in DOMAIN Queue : i = 1 \/ i > 1
    BY <1>4
  <2> QED
    BY <2>1 DEF NoLimitAfter
<1> QED
  BY <1>1, <1>2, <1>3, <1>5 DEF Placed, Agrees

(* A position that the daemon has not read is not being told a level.      *)
LEMMA UnheardGets ==
  ASSUME IInv, LInv, NEW p, Unheard(p), NEW w, slots[p].cell = w
  PROVE  Gets(p, w)
<1>1. /\ p \in Int /\ slots[p].told = NotSet
      /\ \A k \in DOMAIN toUser : toUser[k].pos < p /\ toUser[k].pos \in Int
  BY PositionsAre DEF Unheard, NewTo
<1>2. \A k \in DOMAIN toUser : toUser[k].pos # p
  BY <1>1
<1>3. Telling => receiver.pos # p
  BY <1>2, PositionsAre DEF LInv, TellingSound
<1>4. \A busy : Coming(toUser, busy, p) = {}
  BY <1>2 DEF Coming
<1> QED
  BY <1>1, <1>3, <1>4 DEF Gets, GetsFrom, EndsWith, Telling

(* The daemon reads that a context was registered.                         *)
LEMMA ReadRegisters ==
  ASSUME IInv, LInv, DaemonReads, NEW m, m = Queue[1], m.is = "register", DaemonRegisters(m)
  PROVE  LInv'
<1> DEFINE k == [pos |-> m.pos, level |-> IF m.level = NotSet THEN DLT_LOG_DEFAULT ELSE m.level]
           e == LevelMessage(k)
           r == IF k.level = DLT_LOG_DEFAULT THEN <<e>> ELSE <<>>
<1>1. /\ Queue \in Seq(Range(Queue)) /\ Queue # <<>> /\ Queue' = Tail(Queue) /\ 1 \in DOMAIN Queue
  BY ReadQueue, QueueRead DEF LInv, QueueSound
<1>2. /\ m.ctx \in ContextIds /\ m.level # NoCell /\ Unheard(m.pos)
  BY <1>1 DEF LInv, QueueSound
<1>3. /\ k.pos = m.pos /\ k.level # NoCell
      /\ m.level # NotSet => k.level = m.level
      /\ k.level # DLT_LOG_DEFAULT => m.level # NotSet
  BY <1>2 DEF NoCell, DLT_LOG_DEFAULT
<1>4. /\ e.pos = m.pos /\ e.is = "level" /\ e.level # NoCell
      /\ k.level # DLT_LOG_DEFAULT => e.level = k.level
  BY <1>3, ContextsAssumption DEF LevelMessage, NoCell
<1>5. tables' = [tables EXCEPT ![m.ctx] = k] /\ toUser' = toUser \o r /\ DOMAIN tables = ContextIds
  BY PositionsAre DEF DaemonRegisters, Sends
<1>6. \A w : LevelMessage(k).level = w <=> e.level = w
  OBVIOUS
<1> HIDE DEF k, e
<1>7. \A c \in ContextIds : tables'[c] = IF c = m.ctx THEN k ELSE tables[c]
  BY <1>5
<1>8. \/ k.level = DLT_LOG_DEFAULT /\ r = <<e>> /\ Len(r) = 1 /\ r[1] = e /\ r \in Seq(Range(r))
      \/ k.level # DLT_LOG_DEFAULT /\ r = <<>> /\ Len(r) = 0 /\ r \in Seq(Range(r))
  BY SingletonAny
<1>9. /\ r \in Seq(Range(r))
      /\ \A i \in 1 .. Len(r) : r[i] = e
      /\ k.level # DLT_LOG_DEFAULT => 1 .. Len(r) = {}
      /\ k.level = DLT_LOG_DEFAULT => 1 \in 1 .. Len(r)
  BY <1>8
<1> HIDE DEF r
<1>10. \A c \in ContextIds : tables'[c].level # NoCell
  BY <1>3, <1>7 DEF LInv, CellsSound
<1>11. ASSUME NEW q, Unheard(q), m.pos < q
       PROVE  /\ \A c \in ContextIds : tables'[c].pos < q
              /\ \A i \in 1 .. Len(r) : r[i].pos < q
  BY <1>3, <1>4, <1>7, <1>9, <1>11 DEF Unheard, NewTo
<1>12. ASSUME NEW c \in ContextIds, NoConcern(Queue', c)
       PROVE  /\ tables'[c].pos = handles[c]
              /\ handles[c] # 0 /\ NoLimitAfter(Queue', 0) =>
                    LET w == LevelMessage(tables'[c]).level
                    IN  \/ Gets(handles[c], w) /\ NoneTo(r, handles[c])
                        \/ ~NoneTo(r, handles[c]) /\ AllTo(r, handles[c], w)
  <2>1. CASE c = m.ctx
    <3>1. LastConcern(Queue, 1, c) /\ (NoLimitAfter(Queue', 0) => NoLimitAfter(Queue, 1))
      <4>1. Concerns(Queue[1], c)
        BY <2>1 DEF Concerns
      <4>2. /\ NoConcern(Queue, c) \/ LastConcern(Queue, 1, c)
            /\ NoLimitAfter(Queue', 0) => NoLimitAfter(Queue, 1)
        BY <1>1, <1>12, QueueRead
      <4> QED
        BY <1>1, <4>1, <4>2 DEF NoConcern
    <3>2. m.pos = handles[c]
      BY <1>1, <3>1 DEF LInv, Placed
    <3>3. tables'[c] = k
      BY <1>7, <2>1
    <3>4. CASE k.level = DLT_LOG_DEFAULT
      <4>1. ~NoneTo(r, handles[c]) /\ AllTo(r, handles[c], e.level)
        BY <1>4, <1>9, <3>2, <3>4 DEF NoneTo, AllTo, LevelTo
      <4> QED
        BY <1>3, <1>6, <3>2, <3>3, <4>1
    <3>5. CASE k.level # DLT_LOG_DEFAULT
      <4>1. NoneTo(r, handles[c])
        BY <1>9, <3>5 DEF NoneTo
      <4>2. handles[c] # 0 /\ NoLimitAfter(Queue', 0) => slots[m.pos].cell = m.level
        BY <1>1, <1>3, <3>1, <3>2, <3>5 DEF LInv, Agrees
      <4>3. LevelMessage(tables'[c]).level = m.level
        BY <1>3, <1>4, <1>6, <3>3, <3>5
      <4>4. handles[c] # 0 /\ NoLimitAfter(Queue', 0) => Gets(m.pos, m.level)
        BY <1>2, <4>2, UnheardGets
      <4> QED
        BY <1>3, <3>2, <3>3, <4>1, <4>3, <4>4
    <3> QED
      BY <3>4, <3>5
  <2>2. CASE c # m.ctx
    <3>1. ~Concerns(Queue[1], c) /\ tables'[c] = tables[c]
      BY <1>7, <2>2 DEF Concerns
    <3>2. /\ tables[c].pos = handles[c]
          /\ handles[c] # 0 /\ NoLimitAfter(Queue', 0)
               => Gets(handles[c], LevelMessage(tables[c]).level)
      BY <1>12, <3>1, ReadOther
    <3>3. NoneTo(r, handles[c])
      <4>1. handles[c] < m.pos /\ handles[c] \in Int
        BY <1>2, <3>2, PositionsAre DEF Unheard, NewTo
      <4>2. m.pos \in Int
        BY <1>2, PositionsAre DEF Unheard, NewTo
      <4>3. m.pos # handles[c]
        BY <4>1, <4>2
      <4> QED
        BY <1>4, <1>9, <4>3 DEF NoneTo, LevelTo
    <3> QED
      BY <3>1, <3>2, <3>3
  <2> QED
    BY <2>1, <2>2
<1>13. \A i \in 1 .. Len(r) : r[i].is = "level" => r[i].level # NoCell
  BY <1>4, <1>9
<1> QED
  BY <1>5, <1>9, <1>10, <1>11, <1>12, <1>13, ReadSends

(* The daemon reads that a context was unregistered.                       *)
LEMMA ReadUnregisters ==
  ASSUME IInv, LInv, DaemonReads, NEW m, m = Queue[1], m.is = "unregister", DaemonUnregisters(m)
  PROVE  LInv'
<1>1. /\ Queue \in Seq(Range(Queue)) /\ Queue # <<>> /\ Queue' = Tail(Queue) /\ 1 \in DOMAIN Queue
  BY ReadQueue, QueueRead DEF LInv, QueueSound
<1>2. m.pos = 0
  BY <1>1 DEF LInv, QueueSound
<1>3. tables' = [tables EXCEPT ![m.ctx] = Unknown] /\ toUser' = toUser /\ DOMAIN tables = ContextIds
  BY PositionsAre DEF DaemonUnregisters
<1>4. \A c \in ContextIds : tables'[c] = IF c = m.ctx THEN Unknown ELSE tables[c]
  BY <1>3
<1> DEFINE r == <<>>
<1>5. r \in Seq(Range(r)) /\ toUser' = toUser \o r /\ 1 .. Len(r) = {}
  BY <1>3, SingletonAny, PositionsAre
<1> HIDE DEF r
<1>6. \A c \in ContextIds : tables'[c].level # NoCell
  BY <1>4 DEF LInv, CellsSound, Unknown, NoCell, DLT_LOG_DEFAULT
<1>7. ASSUME NEW q, Unheard(q)
      PROVE  \A c \in ContextIds : tables'[c].pos < q
  <2>1. 0 < q /\ \A c \in ContextIds : tables[c].pos < q
    BY <1>7, PositionsAre DEF Unheard, NewTo
  <2> QED
    BY <1>4, <2>1 DEF Unknown
<1>8. ASSUME NEW c \in ContextIds, NoConcern(Queue', c)
      PROVE  /\ tables'[c].pos = handles[c]
             /\ handles[c] # 0 /\ NoLimitAfter(Queue', 0) =>
                   Gets(handles[c], LevelMessage(tables'[c]).level) /\ NoneTo(r, handles[c])
  <2>1. CASE c = m.ctx
    <3>1. Concerns(Queue[1], c)
      BY <2>1 DEF Concerns
    <3>2. NoConcern(Queue, c) \/ LastConcern(Queue, 1, c)
      BY <1>1, <1>8, QueueRead
    <3>3. handles[c] = 0
      BY <1>1, <1>2, <3>1, <3>2 DEF LInv, Placed, NoConcern
    <3> QED
      BY <1>4, <2>1, <3>3 DEF Unknown
  <2>2. CASE c # m.ctx
    <3>1. ~Concerns(Queue[1], c) /\ tables'[c] = tables[c]
      BY <1>4, <2>2 DEF Concerns
    <3>2. NoneTo(r, handles[c])
      BY <1>5 DEF NoneTo
    <3> QED
      BY <1>8, <3>1, <3>2, ReadOther
  <2> QED
    BY <2>1, <2>2
<1> QED
  BY <1>5, <1>6, <1>7, <1>8, ReadSends

(* The daemon limits the level of all contexts it has, and tells them.     *)
LEMMA ReadLimit ==
  ASSUME IInv, LInv, DaemonReads, NEW m, m = Queue[1], m.is = "limit",
         dlt_daemon_process_user_message_set_app_ll_ts(m)
  PROVE  LInv'
<1> DEFINE those == {c \in ContextIds : tables[c] # Unknown}
           new == [c \in ContextIds |-> IF c \in those THEN [tables[c] EXCEPT !.level = m.level]
                                        ELSE tables[c]]
           order == InOrder(those)
           r == [i \in DOMAIN order |-> LevelMessage(new[order[i]])]
           n == Cardinality(those)
<1>1. /\ Queue \in Seq(Range(Queue)) /\ Queue # <<>> /\ Queue' = Tail(Queue) /\ 1 \in DOMAIN Queue
  BY ReadQueue, QueueRead DEF LInv, QueueSound
<1>2. m.level # NoCell
  BY <1>1 DEF LInv, QueueSound
<1>3. tables' = new /\ toUser' = toUser \o r
  BY DEF dlt_daemon_process_user_message_set_app_ll_ts, Sends
<1>4. /\ order \in [1 .. n -> those] /\ n \in Nat
      /\ \A c \in those : \E i \in 1 .. n : order[i] = c
  BY InOrderIs
<1>5. ASSUME NEW c \in ContextIds
      PROVE  /\ new[c].pos = tables[c].pos /\ new[c].level # NoCell
             /\ LevelMessage(new[c]).level # NoCell
             /\ LevelMessage(new[c]).pos = tables[c].pos /\ LevelMessage(new[c]).is = "level"
  <2>1. tables[c] = [pos |-> tables[c].pos, level |-> tables[c].level] /\ tables[c].level # NoCell
    BY DEF IInv, TablesPoint, LInv, CellsSound
  <2>2. new[c] = [tables[c] EXCEPT !.level = m.level] \/ new[c] = tables[c]
    OBVIOUS
  <2> HIDE DEF new
  <2>3. new[c].pos = tables[c].pos /\ new[c].level # NoCell
    BY <1>2, <2>1, <2>2
  <2> QED
    BY <2>3, ContextsAssumption DEF LevelMessage, NoCell
<1> DEFINE e(c) == LevelMessage(new[c])
<1>6. \A c \in ContextIds : e(c) = LevelMessage(tables'[c])
  BY <1>3
<1>7. \A c \in ContextIds : /\ tables'[c].pos = tables[c].pos /\ tables'[c].level # NoCell
                            /\ e(c).level # NoCell /\ e(c).pos = tables[c].pos /\ e(c).is = "level"
  BY <1>3, <1>5
<1>8. r = [i \in 1 .. n |-> e(order[i])]
  BY <1>4
<1> HIDE DEF new, order, r, e
<1>9. r \in Seq(Range(r)) /\ Len(r) = n /\ \A i \in 1 .. n : r[i] = e(order[i])
  <2>1. r = [i \in 1 .. n |-> r[i]]
    BY <1>8
  <2> QED
    BY <1>4, <1>8, <2>1, FunctionAny
<1>10. \A i \in 1 .. n : order[i] \in ContextIds /\ tables[order[i]] # Unknown
  BY <1>4
<1>11. \A i \in 1 .. n : r[i].is = "level" => r[i].level # NoCell
  BY <1>7, <1>9, <1>10
<1>12. ASSUME NEW q, Unheard(q)
       PROVE  /\ \A c \in ContextIds : tables'[c].pos < q
              /\ \A i \in 1 .. n : r[i].pos < q
  BY <1>7, <1>9, <1>10, <1>12 DEF Unheard, NewTo
<1>13. ASSUME NEW c \in ContextIds, NoConcern(Queue', c)
       PROVE  /\ tables'[c].pos = handles[c]
              /\ handles[c] # 0 =>
                    /\ ~NoneTo(r, handles[c])
                    /\ AllTo(r, handles[c], LevelMessage(tables'[c]).level)
  <2>1. tables'[c].pos = handles[c] /\ tables[c].pos = handles[c]
    <3>1. ~Concerns(Queue[1], c)
      BY DEF Concerns
    <3> QED
      BY <1>7, <1>13, <3>1, ReadOther
  <2>2. SUFFICES ASSUME handles[c] # 0
                 PROVE  ~NoneTo(r, handles[c]) /\ AllTo(r, handles[c], e(c).level)
    BY <1>6, <2>1
  <2>3. c \in those
    BY <2>1, <2>2, PositionsAre
  <2>4. PICK i \in 1 .. n : order[i] = c
    BY <1>4, <2>3
  <2>5. LevelTo(r[i], handles[c])
    BY <1>7, <1>9, <2>1, <2>4 DEF LevelTo
  <2>6. ASSUME NEW j \in 1 .. n, LevelTo(r[j], handles[c]) PROVE r[j].level = e(c).level
    <3>1. r[j] = e(order[j]) /\ order[j] \in ContextIds
      BY <1>9, <1>10
    <3>2. tables[order[j]].pos = handles[c]
      BY <1>7, <2>6, <3>1 DEF LevelTo
    <3>3. order[j] = c
      BY <2>2, <3>1, <3>2, PositionsAre
    <3> QED
      BY <3>1, <3>3
  <2> QED
    BY <1>9, <2>5, <2>6 DEF NoneTo, AllTo
<1> QED
  BY <1>3, <1>7, <1>9, <1>11, <1>12, <1>13, ReadSends

(* The daemon reads.                                                       *)
LEMMA ReadLevels ==
  ASSUME IInv, LInv, DaemonReads
  PROVE  LInv'
<1>1. PICK m : m = Head(toDaemon)
  OBVIOUS
<1>2. m = Queue[1]
  BY <1>1, ReadQueue
<1>3. \/ m.is = "register" /\ DaemonRegisters(m)
      \/ m.is = "unregister" /\ DaemonUnregisters(m)
      \/ m.is = "limit" /\ dlt_daemon_process_user_message_set_app_ll_ts(m)
  BY <1>1 DEF DaemonReads
<1> QED
  BY <1>2, <1>3, ReadRegisters, ReadUnregisters, ReadLimit

-----------------------------------------------------------------------------
(* A client's request: what the daemon sends for it, and for each context  *)
(* that it gets what it got, or the level that is sent.                    *)
LEMMA ClientSends ==
  ASSUME IInv, LInv, NEW e, toUser' = toUser \o <<e>>, e.is = "level" => e.level # NoCell,
         UNCHANGED <<slots, handles, caller, toDaemon, receiver>>,
         \A c \in ContextIds : /\ tables'[c].level # NoCell /\ tables'[c].pos = tables[c].pos
                               /\ handles[c] # 0 /\ handles[c] = tables[c].pos =>
                                     \/ tables'[c] = tables[c] /\ ~LevelTo(e, tables[c].pos)
                                     \/ LevelTo(e, tables[c].pos)
                                        /\ e.level = LevelMessage(tables'[c]).level,
         \E c \in ContextIds : e.pos = tables[c].pos
  PROVE  LInv'
<1> DEFINE r == <<e>>
<1>1. r \in Seq(Range(r)) /\ Len(r) = 1 /\ r[1] = e
  BY SingletonAny
<1>2. toUser' = toUser \o r
  OBVIOUS
<1> HIDE DEF r
<1>3. 1 .. Len(r) = {1}
  BY <1>1
<1>4. /\ CellsSound' /\ TellingSound'
      /\ \A q : /\ NewTo(slots, tables, toUser, q)
                /\ \A c \in ContextIds : tables'[c].pos < q
                /\ \A i \in 1 .. Len(r) : r[i].pos < q
                => NewTo(slots', tables', toUser', q)
      /\ \A p, w : GetsFrom(slots, toUser, receiver, p, w) /\ NoneTo(r, p)
                    => GetsFrom(slots', toUser', receiver', p, w)
      /\ \A p, w : ~NoneTo(r, p) /\ AllTo(r, p, w) => GetsFrom(slots', toUser', receiver', p, w)
  <2>1. \A i \in 1 .. Len(r) : r[i].is = "level" => r[i].level # NoCell
    BY <1>1, <1>3
  <2> QED
    BY <1>1, <1>2, <2>1, SentLevels
<1>5. Queue' = Queue
  BY DEF Queue
<1>6. QueueSound'
  <2>1. ASSUME NEW i \in DOMAIN Queue, Unheard(Queue[i].pos)
        PROVE  NewTo(slots', tables', toUser', Queue[i].pos)
    <3>1. \A c \in ContextIds : tables'[c].pos < Queue[i].pos
      BY <2>1 DEF Unheard, NewTo
    <3>2. \A k \in 1 .. Len(r) : r[k].pos < Queue[i].pos
      BY <1>1, <1>3, <2>1 DEF Unheard, NewTo
    <3> QED
      BY <1>4, <2>1, <3>1, <3>2 DEF Unheard
  <2> QED
    BY <1>5, <2>1, QueueStep DEF LInv
<1>7. ASSUME NEW c \in ContextIds PROVE Placed(c)' /\ Agrees(c)'
  <2>0. Placed(c) /\ Agrees(c)
    BY DEF LInv
  <2>1. Placed(c)'
    BY <1>5, <2>0 DEF Placed
  <2>2. ASSUME handles[c] # 0, NoConcern(Queue, c), NoLimitAfter(Queue, 0)
        PROVE  GetsFrom(slots', toUser', receiver', handles[c], LevelMessage(tables'[c]).level)
    <3>1. tables[c].pos = handles[c] /\ Gets(handles[c], LevelMessage(tables[c]).level)
      BY <2>0, <2>2 DEF Placed, Agrees
    <3>2. CASE tables'[c] = tables[c] /\ ~LevelTo(e, tables[c].pos)
      <4>1. NoneTo(r, handles[c])
        BY <1>1, <1>3, <3>1, <3>2 DEF NoneTo
      <4> QED
        BY <1>4, <3>1, <3>2, <4>1 DEF Gets
    <3>3. CASE LevelTo(e, tables[c].pos) /\ e.level = LevelMessage(tables'[c]).level
      <4>1. ~NoneTo(r, handles[c]) /\ AllTo(r, handles[c], LevelMessage(tables'[c]).level)
        BY <1>1, <1>3, <3>1, <3>3 DEF NoneTo, AllTo
      <4> QED
        BY <1>4, <4>1
    <3> QED
      BY <2>2, <3>1, <3>2, <3>3
  <2>3. Agrees(c)'
    BY <1>5, <2>0, <2>2 DEF Agrees, Gets
  <2> QED
    BY <2>1, <2>3
<1> QED
  BY <1>4, <1>6, <1>7 DEF LInv

(* A client sets the level of a context, or sends an injection.            *)
LEMMA ClientLevels ==
  ASSUME IInv, LInv, NEW c \in ContextIds,
         \/ \E level \in LogLevels : ClientSetsLevel(c, level)
         \/ \E s : ClientInjects(c, s)
  PROVE  LInv'
<1>0. /\ DOMAIN tables = ContextIds
      /\ \A d \in ContextIds : /\ tables[d].level # NoCell
                               /\ tables[d] = [pos |-> tables[d].pos, level |-> tables[d].level]
  BY DEF IInv, TablesPoint, LInv, CellsSound
<1>1. ASSUME NEW level \in LogLevels, ClientSetsLevel(c, level) PROVE LInv'
  <2> DEFINE k == [tables[c] EXCEPT !.level = level]
  <2>1. /\ tables[c] # Unknown /\ tables' = [tables EXCEPT ![c] = k]
        /\ UNCHANGED <<slots, handles, caller, toDaemon, receiver>>
    BY <1>1 DEF ClientSetsLevel
  <2>2. tables'[c] = k /\ \A d \in ContextIds : d # c => tables'[d] = tables[d]
    BY <1>0, <2>1
  <2>3. k = [pos |-> tables[c].pos, level |-> level] /\ level # NoCell
    BY <1>0, ContextsAssumption DEF NoCell
  <2> HIDE DEF k
  <2>4. k.pos = tables[c].pos /\ k.level # NoCell
    BY <2>3
  <2> DEFINE e == LevelMessage(k)
  <2>5. e.is = "level" /\ e.pos = tables[c].pos /\ e.level # NoCell
    BY <2>4, ContextsAssumption DEF LevelMessage, NoCell
  <2>6. toUser' = toUser \o <<e>>
    BY <1>1, <2>2 DEF ClientSetsLevel, Sends
  <2> HIDE DEF e
  <2>7. \A d \in ContextIds : d # c /\ handles[d] # 0 => handles[d] # tables[c].pos
    BY PositionsAre
  <2>8. ASSUME NEW d \in ContextIds
        PROVE  /\ tables'[d].level # NoCell /\ tables'[d].pos = tables[d].pos
               /\ handles[d] # 0 /\ handles[d] = tables[d].pos =>
                     \/ tables'[d] = tables[d] /\ ~LevelTo(e, tables[d].pos)
                     \/ LevelTo(e, tables[d].pos) /\ e.level = LevelMessage(tables'[d]).level
    <3>1. CASE d = c
      BY <2>2, <2>4, <2>5, <3>1 DEF LevelTo, e
    <3>2. CASE d # c
      BY <1>0, <2>2, <2>5, <2>7, <3>2 DEF LevelTo
    <3> QED
      BY <3>1, <3>2
  <2> QED
    BY <2>1, <2>5, <2>6, <2>8, ClientSends
<1>2. ASSUME NEW s, ClientInjects(c, s) PROVE LInv'
  <2> DEFINE e == [is |-> "injection", pos |-> tables[c].pos, level |-> 0, ctx |-> c,
                   service |-> s, number |-> events]
  <2>1. toUser' = toUser \o <<e>> /\ e.is = "injection" /\ e.pos = tables[c].pos
    BY <1>2 DEF ClientInjects, Sends
  <2> HIDE DEF e
  <2>2. UNCHANGED <<slots, handles, caller, toDaemon, receiver, tables>>
    BY <1>2 DEF ClientInjects
  <2>3. \A p : ~LevelTo(e, p)
    BY <2>1 DEF LevelTo
  <2> QED
    BY <1>0, <2>1, <2>2, <2>3, ClientSends
<1> QED
  BY <1>1, <1>2

-----------------------------------------------------------------------------
(* The receiver thread at the message at the front: it changes at most its *)
(* slot, and contexts still get what they got.                             *)
LEMMA ReceiverStep ==
  ASSUME IInv, LInv, UNCHANGED <<handles, caller, toDaemon, tables>>, toUser # <<>>,
         NEW p, p = toUser[1].pos, DOMAIN slots' = DOMAIN slots,
         \A q \in DOMAIN slots : q # p => slots'[q] = slots[q],
         /\ slots'[p].ctx = slots[p].ctx
         /\ slots[p].cell # NoCell => slots'[p].cell # NoCell
         /\ slots'[p].changed = 0 => slots'[p].told = NotSet,
         toUser' \in {toUser, Tail(toUser)}, TellingSound',
         \A h, w : h \in DOMAIN slots /\ slots[h].ctx # EmptyId /\ Gets(h, w)
                      => GetsFrom(slots', toUser', receiver', h, w)
  PROVE  LInv'
<1>1. toUser \in Seq(Range(toUser)) /\ 1 \in DOMAIN toUser
  <2>1. toUser \in Seq(Range(toUser))
    BY PositionsAre
  <2> QED
    BY <2>1, TailAny, RangeOfSequence
<1>2. \A k \in DOMAIN toUser' : \E j \in DOMAIN toUser : toUser'[k] = toUser[j]
  <2>1. CASE toUser' = Tail(toUser)
    <3>1. PICK n \in Nat : n = Len(toUser) /\ DOMAIN toUser = 1 .. n
      BY <1>1, RangeOfSequence
    <3>2. DOMAIN toUser' = 1 .. n - 1 /\ \A k \in 1 .. n - 1 : toUser'[k] = toUser[k + 1]
      BY <1>1, <2>1, <3>1, TailAny
    <3>3. \A k \in 1 .. n - 1 : k + 1 \in 1 .. n
      BY <3>1
    <3> QED
      BY <3>1, <3>2, <3>3
  <2>2. CASE toUser' = toUser
    BY <2>2
  <2> QED
    BY <2>1, <2>2
<1>3. Queue' = Queue
  BY DEF Queue
<1>4. \A q : Unheard(q) => q # p /\ NewTo(slots', tables', toUser', q)
  <2> SUFFICES ASSUME NEW q, Unheard(q) PROVE q # p /\ NewTo(slots', tables', toUser', q)
    OBVIOUS
  <2>1. q # p
    <3>1. p < q /\ q \in Int /\ p \in Int
      BY <1>1, PositionsAre DEF Unheard, NewTo
    <3> QED
      BY <3>1
  <2>2. \A k \in DOMAIN toUser' : toUser'[k].pos < q
    BY <1>2 DEF Unheard, NewTo
  <2> QED
    BY <2>1, <2>2 DEF Unheard, NewTo
<1>5. QueueSound'
  BY <1>3, <1>4, QueueStep DEF LInv
<1>6. CellsSound'
  <2>1. \A q \in DOMAIN slots' : /\ slots'[q].ctx # EmptyId => slots'[q].cell # NoCell
                                 /\ slots'[q].changed = 0 => slots'[q].told = NotSet
    BY DEF LInv, CellsSound
  <2>2. \A k \in DOMAIN toUser' : toUser'[k].is = "level" => toUser'[k].level # NoCell
    BY <1>2 DEF LInv, CellsSound
  <2> QED
    BY <2>1, <2>2 DEF LInv, CellsSound
<1>7. ASSUME NEW c \in ContextIds PROVE Placed(c)' /\ Agrees(c)'
  <2>0. Placed(c) /\ Agrees(c)
    BY DEF LInv
  <2>1. Placed(c)'
    BY <1>3, <2>0 DEF Placed
  <2>2. CASE handles[c] = 0
    BY <2>1, <2>2 DEF Agrees
  <2>3. CASE handles[c] # 0
    <3>0. handles[c] \in DOMAIN slots /\ slots[handles[c]].ctx # EmptyId
      BY <2>3, PositionsAre
    <3>1. NoConcern(Queue, c) /\ NoLimitAfter(Queue, 0) =>
             GetsFrom(slots', toUser', receiver', handles[c], LevelMessage(tables'[c]).level)
      BY <2>0, <2>3, <3>0 DEF Agrees
    <3>2. ASSUME NEW i \in DOMAIN Queue, LastConcern(Queue, i, c)
          PROVE  slots'[handles[c]].cell = slots[handles[c]].cell
      <4>1. Queue[i].pos = handles[c]
        BY <2>0, <3>2 DEF Placed
      <4>2. Queue[i].is = "register"
        BY <2>3, <3>2, <4>1 DEF LastConcern, Concerns, LInv, QueueSound
      <4>3. handles[c] # p
        BY <1>4, <4>1, <4>2 DEF LInv, QueueSound
      <4> QED
        BY <3>0, <4>3
    <3>3. Agrees(c)'
      BY <1>3, <2>0, <2>3, <3>1, <3>2 DEF Agrees, Gets
    <3> QED
      BY <2>1, <3>3
  <2> QED
    BY <2>2, <2>3
<1> QED
  BY <1>5, <1>6, <1>7 DEF LInv

(* A level is received.                                                    *)
LEMMA ReceivedLevels ==
  ASSUME IInv, LInv, ReceivesLevel
  PROVE  LInv'
<1> DEFINE p == toUser[1].pos
           l == toUser[1].level
           cell == IF slots[p].cell = NoCell THEN slots[p].cell ELSE l
           s == [slots[p] EXCEPT !.level = l, !.cell = cell]
           callback == [is |-> "changed", pos |-> p, level |-> l, number |-> slots[p].changed]
<1>1. /\ toUser \in Seq(Range(toUser)) /\ toUser # <<>> /\ Head(toUser) = toUser[1]
      /\ 1 \in DOMAIN toUser /\ toUser[1].is = "level"
  <2>1. toUser \in Seq(Range(toUser)) /\ toUser # <<>> /\ Head(toUser).is = "level"
    BY PositionsAre DEF ReceivesLevel
  <2> QED
    BY <2>1, TailAny, RangeOfSequence
<1>2. p \in DOMAIN slots /\ l # NoCell
  BY <1>1, PositionsAre DEF LInv, CellsSound
<1>3. /\ receiver = NoCallback /\ UNCHANGED <<handles, caller, toDaemon, tables>>
      /\ slots' = [slots EXCEPT ![p] = s]
      /\ receiver' = IF slots[p].changed = 0 THEN NoCallback ELSE callback
      /\ toUser' = IF slots[p].changed = 0 THEN Tail(toUser) ELSE toUser
  BY <1>1, <1>2 DEF ReceivesLevel, Removed
<1>4. /\ s.ctx = slots[p].ctx /\ s.changed = slots[p].changed /\ s.told = slots[p].told
      /\ s.cell = cell
  <2>1. slots[p] = [ctx |-> slots[p].ctx, level |-> slots[p].level, cell |-> slots[p].cell,
                    injections |-> slots[p].injections, changed |-> slots[p].changed,
                    told |-> slots[p].told]
    BY <1>2 DEF IInv, SlotsSound, SlotSound
  <2>2. s = [slots[p] EXCEPT !.level = l, !.cell = cell]
    OBVIOUS
  <2> HIDE DEF s, cell, p, l
  <2>3. s = [ctx |-> slots[p].ctx, level |-> l, cell |-> cell,
             injections |-> slots[p].injections, changed |-> slots[p].changed,
             told |-> slots[p].told]
    BY <2>1, <2>2
  <2> QED
    BY <2>3
<1> HIDE DEF s
<1>5. /\ DOMAIN slots' = DOMAIN slots /\ slots'[p] = s
      /\ \A q \in DOMAIN slots : q # p => slots'[q] = slots[q]
  BY <1>2, <1>3
<1>6. \/ /\ slots[p].changed = 0 /\ receiver'.is # "changed" /\ toUser' = Tail(toUser)
      \/ /\ slots[p].changed # 0 /\ receiver'.is = "changed" /\ receiver'.pos = p
         /\ receiver'.level = l /\ receiver'.number = slots[p].changed /\ toUser' = toUser
  BY <1>3 DEF NoCallback
<1>7. receiver.is # "changed"
  BY <1>3 DEF NoCallback
<1> HIDE DEF callback
<1>8. TellingSound'
  BY <1>1, <1>4, <1>5, <1>6 DEF TellingSound, Telling
<1>9. slots[p].cell # NoCell => s.cell = l
  BY <1>4
<1>10. slots[p].changed = 0 => slots[p].told = NotSet
  BY <1>2 DEF LInv, CellsSound
<1> DEFINE was == receiver.is = "changed"
           busy == receiver'.is = "changed"
<1>11. \/ toUser' = Tail(toUser) /\ ~busy
       \/ toUser' = toUser /\ busy
  BY <1>6
<1> HIDE DEF cell, p, l
<1>12. ASSUME NEW h \in DOMAIN slots, slots[h].ctx # EmptyId, NEW w, Gets(h, w)
       PROVE  GetsFrom(slots', toUser', receiver', h, w)
  <2>1. /\ EndsWith(toUser, was, h, w)
        /\ Coming(toUser, was, h) = {} => slots[h].cell = w /\ slots[h].told \in {NotSet, w}
    BY <1>7, <1>12 DEF Gets, GetsFrom
  <2>0. was \in BOOLEAN /\ ~was /\ busy \in BOOLEAN /\ Queued(toUser)
    BY <1>1, <1>7 DEF Queued
  <2>2. /\ EndsWith(toUser', busy, h, w)
        /\ Coming(toUser', busy, h) = {} =>
              Coming(toUser, was, h) = {} \/ FrontGives(toUser, h, w)
    <3> HIDE DEF was, busy
    <3>1. CASE toUser' = toUser /\ busy
      <4>1. /\ EndsWith(toUser, busy, h, w)
            /\ Coming(toUser, busy, h) = {} =>
                  Coming(toUser, was, h) = {} \/ FrontGives(toUser, h, w)
        BY <2>0, <2>1, <3>1, ComingKept
      <4> QED
        BY <3>1, <4>1
    <3>2. CASE toUser' = Tail(toUser) /\ ~busy
      <4>1. EndsWith(toUser, was, h, w) /\ toUser' = Tail(toUser) /\ ~busy
        BY <2>1, <3>2
      <4>2. /\ EndsWith(toUser', busy, h, w)
            /\ Coming(toUser', busy, h) = {} =>
                  Coming(toUser, was, h) = {} \/ (~was /\ FrontGives(toUser, h, w))
        BY <2>0, <4>1, ComingRemoved
      <4> QED
        BY <4>2
    <3> QED
      BY <1>11, <3>1, <3>2
  <2>3. Coming(toUser, was, h) = {} => h # p
    BY <1>1, <2>0 DEF Coming, p
  <2>4. ASSUME Coming(toUser, was, h) = {}
        PROVE  slots'[h].cell = w /\ (IF busy /\ receiver'.pos = h THEN receiver'.level = w
                                      ELSE slots'[h].told \in {NotSet, w})
    BY <1>5, <1>6, <2>1, <2>3, <2>4 DEF busy
  <2>5. ASSUME h = p, l = w
        PROVE  slots'[h].cell = w /\ (IF busy /\ receiver'.pos = h THEN receiver'.level = w
                                      ELSE slots'[h].told \in {NotSet, w})
    <3>1. slots[h].cell # NoCell
      BY <1>12 DEF LInv, CellsSound
    <3> QED
      BY <1>4, <1>5, <1>6, <1>9, <1>10, <2>5, <3>1 DEF busy
  <2> QED
    BY <2>2, <2>4, <2>5 DEF GetsFrom, busy, p, l, FrontGives, LevelTo
<1>13. toUser' \in {toUser, Tail(toUser)}
  BY <1>6
<1>14. /\ slots'[p].ctx = slots[p].ctx
       /\ slots[p].cell # NoCell => slots'[p].cell # NoCell
       /\ slots'[p].changed = 0 => slots'[p].told = NotSet
  BY <1>2, <1>4, <1>5, <1>9, <1>10 DEF p, l
<1> QED
  BY <1>1, <1>3, <1>5, <1>8, <1>12, <1>13, <1>14, ReceiverStep DEF p

(* The callback is told the level.                                         *)
LEMMA ToldLevels ==
  ASSUME IInv, LInv, CallsLevelCallback
  PROVE  LInv'
<1> DEFINE p == receiver.pos
           told == IF slots[p].changed = receiver.number THEN receiver.level ELSE slots[p].told
           s == [slots[p] EXCEPT !.told = told]
<1>1. /\ Telling /\ toUser \in Seq(Range(toUser)) /\ toUser # <<>> /\ p \in DOMAIN slots
      /\ toUser[1].is = "level" /\ toUser[1].pos = p /\ receiver.number # 0
      /\ slots[p].changed # receiver.number => slots[p].told = NotSet
  BY PositionsAre DEF CallsLevelCallback, Telling, LInv, TellingSound
<1>2. /\ UNCHANGED <<handles, caller, toDaemon, tables>> /\ toUser' = Tail(toUser)
      /\ slots' = [slots EXCEPT ![p] = s] /\ receiver'.is # "changed"
  BY <1>1 DEF CallsLevelCallback, Removed, NoCallback
<1>3. /\ s.ctx = slots[p].ctx /\ s.changed = slots[p].changed /\ s.cell = slots[p].cell
      /\ s.told = told
  <2>1. slots[p] = [ctx |-> slots[p].ctx, level |-> slots[p].level, cell |-> slots[p].cell,
                    injections |-> slots[p].injections, changed |-> slots[p].changed,
                    told |-> slots[p].told]
    BY <1>1 DEF IInv, SlotsSound, SlotSound
  <2> HIDE DEF told
  <2>2. s = [ctx |-> slots[p].ctx, level |-> slots[p].level, cell |-> slots[p].cell,
             injections |-> slots[p].injections, changed |-> slots[p].changed,
             told |-> told]
    BY <2>1
  <2> HIDE DEF s
  <2> QED
    BY <2>2
<1> HIDE DEF s
<1>4. /\ DOMAIN slots' = DOMAIN slots /\ slots'[p] = s
      /\ \A q \in DOMAIN slots : q # p => slots'[q] = slots[q]
  BY <1>1, <1>2
<1>5. slots[p].changed = 0 => slots[p].told = NotSet /\ told = NotSet
  BY <1>1 DEF LInv, CellsSound
<1>6. told \in {receiver.level, NotSet}
  BY <1>1
<1> HIDE DEF told
<1> DEFINE busy == receiver.is = "changed"
           still == receiver'.is = "changed"
<1>7. ASSUME NEW h \in DOMAIN slots, NEW w, Gets(h, w)
      PROVE  GetsFrom(slots', toUser', receiver', h, w)
  <2>0. busy \in BOOLEAN /\ still \in BOOLEAN /\ ~still /\ Queued(toUser)
    BY <1>2, <1>1 DEF Queued
  <2>4. busy
    BY <1>1 DEF Telling
  <2>1. /\ EndsWith(toUser, busy, h, w)
        /\ Coming(toUser, busy, h) = {} =>
              /\ slots[h].cell = w
              /\ IF p = h THEN receiver.level = w ELSE slots[h].told \in {NotSet, w}
    BY <1>7, <2>4 DEF Gets, GetsFrom
  <2> HIDE DEF busy, still
  <2>2. /\ EndsWith(toUser', still, h, w)
        /\ Coming(toUser', still, h) = {} => Coming(toUser, busy, h) = {}
    <3>1. EndsWith(toUser, busy, h, w)
      BY <2>1
    <3>2. PICK v : v = Tail(toUser)
      OBVIOUS
    <3>3. /\ EndsWith(v, still, h, w)
          /\ Coming(v, still, h) = {} =>
                Coming(toUser, busy, h) = {} \/ (~busy /\ FrontGives(toUser, h, w))
      BY <2>0, <3>1, <3>2, ComingRemoved, ZenonT(60)
    <3> QED
      BY <1>2, <2>4, <3>2, <3>3
  <2>3. Coming(toUser', still, h) = {} => slots'[h].cell = w /\ slots'[h].told \in {NotSet, w}
    BY <1>3, <1>4, <1>6, <2>1, <2>2
  <2> QED
    BY <2>0, <2>2, <2>3 DEF GetsFrom, still
<1>8. TellingSound'
  BY <1>2 DEF TellingSound, Telling
<1>9. /\ slots'[p].ctx = slots[p].ctx
      /\ slots[p].cell # NoCell => slots'[p].cell # NoCell
      /\ slots'[p].changed = 0 => slots'[p].told = NotSet
  BY <1>3, <1>4, <1>5
<1> HIDE DEF p
<1>10. p = toUser[1].pos /\ toUser' \in {toUser, Tail(toUser)}
  BY <1>1, <1>2
<1> QED
  BY <1>1, <1>2, <1>4, <1>7, <1>8, <1>9, <1>10, ReceiverStep

(* Injections are no levels.                                               *)
LEMMA InjectionLevels ==
  ASSUME IInv, LInv, ReceivesInjection \/ CallsInjectionCallback
  PROVE  LInv'
<1> DEFINE p == toUser[1].pos
<1>1. /\ toUser \in Seq(Range(toUser)) /\ toUser # <<>> /\ Head(toUser) = toUser[1]
      /\ 1 \in DOMAIN toUser /\ toUser[1].is = "injection"
  <2>1. /\ toUser \in Seq(Range(toUser)) /\ toUser # <<>>
        /\ Head(toUser).is = "injection" \/ toUser[1].is = "injection"
    BY PositionsAre DEF ReceivesInjection, CallsInjectionCallback, IInv, ReceiverSound
  <2> QED
    BY <2>1, TailAny, RangeOfSequence
<1>2. /\ receiver.is # "changed" /\ receiver'.is # "changed"
      /\ UNCHANGED <<slots, handles, caller, toDaemon, tables>>
      /\ toUser' \in {toUser, Tail(toUser)}
  <2>1. CASE ReceivesInjection
    <3> DEFINE m == Head(toUser)
               k == SelectInSeq(slots[m.pos].injections, LAMBDA e : e.service = m.service)
               callback == slots[m.pos].injections[k].callback
    <3>1. /\ receiver = NoCallback /\ UNCHANGED <<slots, handles, caller, toDaemon, tables>>
          /\ IF k = 0 THEN Removed /\ UNCHANGED receiver
             ELSE /\ receiver' = [is |-> "injection", message |-> m, callback |-> callback]
                  /\ UNCHANGED toUser
      BY <2>1 DEF ReceivesInjection
    <3> HIDE DEF k, callback
    <3> QED
      BY <3>1 DEF NoCallback, Removed
  <2>2. CASE CallsInjectionCallback
    BY <2>2 DEF CallsInjectionCallback, Removed, NoCallback
  <2> QED
    BY <2>1, <2>2
<1>3. p \in DOMAIN slots
  BY <1>1, PositionsAre
<1> DEFINE busy == receiver.is = "changed"
           still == receiver'.is = "changed"
<1>4. ASSUME NEW h \in DOMAIN slots, NEW w, Gets(h, w)
      PROVE  GetsFrom(slots', toUser', receiver', h, w)
  <2>0. busy \in BOOLEAN /\ ~busy /\ still \in BOOLEAN /\ ~still /\ Queued(toUser)
    BY <1>1, <1>2 DEF Queued
  <2>1. /\ EndsWith(toUser, busy, h, w)
        /\ Coming(toUser, busy, h) = {} => slots[h].cell = w /\ slots[h].told \in {NotSet, w}
    BY <1>4, <2>0 DEF Gets, GetsFrom
  <2>2. /\ EndsWith(toUser', still, h, w)
        /\ Coming(toUser', still, h) = {} => Coming(toUser, busy, h) = {}
    <3>1. CASE toUser' = toUser
      <4>1. still = busy
        BY <2>0
      <4> QED
        BY <2>1, <3>1, <4>1
    <3>2. CASE toUser' = Tail(toUser)
      <4>1. ~FrontGives(toUser, h, w)
        BY <1>1 DEF FrontGives, LevelTo
      <4> HIDE DEF busy, still
      <4> QED
        BY <2>0, <2>1, <3>2, <4>1, ComingRemoved
    <3> QED
      BY <1>2, <3>1, <3>2
  <2> QED
    BY <1>2, <2>0, <2>1, <2>2 DEF GetsFrom
<1>5. TellingSound'
  BY <1>2 DEF TellingSound, Telling
<1>6. slots[p].changed = 0 => slots[p].told = NotSet
  BY <1>3 DEF LInv, CellsSound
<1> QED
  BY <1>1, <1>2, <1>4, <1>5, <1>6, ReceiverStep

(* The receiver thread.                                                    *)
LEMMA ReceiverLevels ==
  ASSUME IInv, LInv, dlt_user_log_check_user_message
  PROVE  LInv'
BY ReceivedLevels, ToldLevels, InjectionLevels DEF dlt_user_log_check_user_message

-----------------------------------------------------------------------------
(* The level of the last registration is the one the environment decides.  *)
DecidesIn(env, r) ==
    r.ctx # EmptyId =>
        r.level = IF MatchingIn(env, r.ctx) = {} THEN r.asked
                  ELSE env[CHOOSE i \in MatchingIn(env, r.ctx) :
                               \A j \in MatchingIn(env, r.ctx) \ {i} : BeatsIn(env, i, j)].level
LEMMA EnvironmentDecidesIs ==
  /\ EnvironmentDecides <=> DecidesIn(environment, registered)
  /\ EnvironmentDecides' <=> DecidesIn(environment', registered')
BY DEF EnvironmentDecides, DecidesIn, Matching, MatchingIn, Beats, BeatsIn, Given, Gives, EmptyId

(* A context is registered with the level that is decided.                 *)
LEMMA RegisterDecides ==
  ASSUME Readable, environment \in Environments, NEW c \in ContextIds, NEW asked,
         dlt_register_context_ll_ts_llccb(c, asked)
  PROVE  DecidesIn(environment, registered')
<1> DEFINE env == dlt_env_adjust_ll_from_env(dlt_env_extract_ll_set(environment), ThisApp, c, NotSet)
           level == IF env # NotSet THEN env ELSE asked
<1>1. registered' = [ctx |-> c, asked |-> asked, level |-> level]
  BY DEF dlt_register_context_ll_ts_llccb
<1>2. c # EmptyId
  BY EmptyIsNoContext
<1>3. IF MatchingIn(environment, c) = {} THEN env = NotSet
      ELSE /\ env # NotSet
           /\ env = environment[CHOOSE i \in MatchingIn(environment, c) :
                        \A j \in MatchingIn(environment, c) \ {i} : BeatsIn(environment, i, j)].level
  BY <1>2, DecidedIs
<1>4. level = IF MatchingIn(environment, c) = {} THEN asked
              ELSE environment[CHOOSE i \in MatchingIn(environment, c) :
                       \A j \in MatchingIn(environment, c) \ {i} : BeatsIn(environment, i, j)].level
  BY <1>3
<1> HIDE DEF level
<1>5. registered'.ctx = c /\ registered'.asked = asked /\ registered'.level = level
  BY <1>1
<1> QED
  BY <1>4, <1>5 DEF DecidesIn

(* At the start no context has a level, and nothing is on its way.         *)
LEMMA InitLevels ==
  ASSUME ContextsInit
  PROVE  LInv /\ environment \in Environments /\ EnvironmentDecides
<1>1. /\ slots = <<>> /\ toDaemon = <<>> /\ toUser = <<>>
      /\ handles = [c \in ContextIds |-> 0] /\ tables = [c \in ContextIds |-> Unknown]
      /\ Queue = <<>> /\ receiver.is = "none" /\ environment \in Environments /\ registered.ctx = 0
  BY DEF ContextsInit, NoCallback, Queue
<1>2. <<>> \in Seq(Range(<<>>)) /\ \A i \in DOMAIN <<>> : FALSE
  BY SingletonAny
<1>3. QueueSound
  BY <1>1, <1>2 DEF QueueSound
<1>4. CellsSound /\ TellingSound
  BY <1>1, <1>2 DEF CellsSound, TellingSound, Telling, Unknown, NoCell, DLT_LOG_DEFAULT
<1>5. \A c \in ContextIds : Placed(c) /\ Agrees(c)
  BY <1>1, <1>2 DEF Placed, Agrees, Unknown
<1>6. EnvironmentDecides
  BY <1>1 DEF EnvironmentDecides
<1> QED
  BY <1>1, <1>3, <1>4, <1>5, <1>6 DEF LInv

(* Every step keeps the levels agreed, or on their way.                    *)
LEMMA LevelsStep ==
  ASSUME IInv, LInv, environment \in Environments, [ContextsNext]_contextVars
  PROVE  LInv' /\ environment' \in Environments
<1>1. environment' = environment
  BY DEF ContextsNext, contextVars, dlt_register_context_ll_ts_llccb, dlt_unregister_context,
         dlt_register_injection_callback_with_id, ClientInjects, ClientSetsLevel, WritesToDaemon,
         dlt_register_log_level_changed_callback, dlt_set_application_ll_ts_limit, DaemonReads,
         dlt_user_log_check_user_message, ReceivesLevel, CallsLevelCallback, ReceivesInjection,
         CallsInjectionCallback
<1>2. CASE UNCHANGED contextVars
  <2>1. UNCHANGED <<slots, handles, tables, toUser, receiver, caller, toDaemon>>
    BY <1>2 DEF contextVars
  <2>2. Queue' = Queue
    BY <2>1 DEF Queue
  <2>3. LInv'
    BY <2>1, <2>2, OtherLevels
  <2> QED
    BY <1>1, <2>3
<1>3. ASSUME NEW c \in ContextIds, NEW asked \in LogLevels \cup {NotSet},
             dlt_register_context_ll_ts_llccb(c, asked)
      PROVE  LInv'
  BY <1>3, RegisterLevels
<1>4. ASSUME NEW c \in ContextIds, dlt_unregister_context(c) PROVE LInv'
  BY <1>4, UnregisterLevels
<1>5. ASSUME NEW c \in ContextIds,
             \/ \E s \in Services : dlt_register_injection_callback_with_id(c, s)
             \/ dlt_register_log_level_changed_callback(c)
      PROVE  LInv'
  BY <1>5, CallbackLevels
<1>6. ASSUME NEW c \in ContextIds,
             \/ \E s \in Services : ClientInjects(c, s)
             \/ \E level \in LogLevels : ClientSetsLevel(c, level)
      PROVE  LInv'
  BY <1>6, ClientLevels
<1>7. ASSUME NEW level \in LogLevels, dlt_set_application_ll_ts_limit(level) PROVE LInv'
  BY <1>7, LimitLevels
<1>8. CASE WritesToDaemon
  BY <1>1, <1>8, WriteLevels
<1>9. CASE DaemonReads
  BY <1>1, <1>9, ReadLevels
<1>10. CASE dlt_user_log_check_user_message
  BY <1>1, <1>10, ReceiverLevels
<1> QED
  BY <1>1, <1>2, <1>3, <1>4, <1>5, <1>6, <1>7, <1>8, <1>9, <1>10 DEF ContextsNext

(* Every step keeps to what the environment decides.                       *)
LEMMA DecidesStep ==
  ASSUME Readable, environment \in Environments, EnvironmentDecides, [ContextsNext]_contextVars
  PROVE  EnvironmentDecides'
<1>1. ASSUME \A c \in ContextIds : \A asked : ~dlt_register_context_ll_ts_llccb(c, asked)
      PROVE  UNCHANGED <<environment, registered>>
  BY <1>1 DEF ContextsNext, contextVars, dlt_unregister_context,
         dlt_register_injection_callback_with_id, ClientInjects, ClientSetsLevel, WritesToDaemon,
         dlt_register_log_level_changed_callback, dlt_set_application_ll_ts_limit, DaemonReads,
         dlt_user_log_check_user_message, ReceivesLevel, CallsLevelCallback, ReceivesInjection,
         CallsInjectionCallback
<1>2. ASSUME NEW c \in ContextIds, NEW asked, dlt_register_context_ll_ts_llccb(c, asked)
      PROVE  environment' = environment /\ DecidesIn(environment, registered')
  BY <1>2, RegisterDecides DEF dlt_register_context_ll_ts_llccb
<1> QED
  BY <1>1, <1>2, EnvironmentDecidesIs

(* Once all messages have arrived nothing is on its way.                   *)
LEMMA QuietLevels ==
  ASSUME LInv
  PROVE  LevelsAgree
<1> SUFFICES ASSUME Quiet, NEW c \in ContextIds
             PROVE  /\ tables[c].pos = handles[c]
                    /\ handles[c] # 0 =>
                          LET s == slots[handles[c]]
                          IN  /\ s.cell = LevelMessage(tables[c]).level
                              /\ s.told \in {NotSet, s.cell}
  BY DEF LevelsAgree
<1>1. Queue = <<>> /\ toUser = <<>> /\ receiver.is # "changed" /\ Placed(c) /\ Agrees(c)
  BY DEF Quiet, Queue, NoCallback, LInv
<1>2. NoConcern(Queue, c) /\ NoLimitAfter(Queue, 0) /\ \A busy, p : Coming(toUser, busy, p) = {}
  BY <1>1 DEF NoConcern, NoLimitAfter, Coming
<1>3. handles[c] # 0 => Gets(handles[c], LevelMessage(tables[c]).level)
  BY <1>1, <1>2 DEF Agrees
<1> QED
  BY <1>1, <1>2, <1>3 DEF Placed, Gets, GetsFrom

-----------------------------------------------------------------------------
(* Once all messages have arrived, the daemon has the contexts that are    *)
(* registered, each logs with the level the daemon has for it, and its     *)
(* callback was told that level last: whatever dlt_register_context,       *)
(* dlt_unregister_context and dlt_set_application_ll_ts_limit change in    *)
(* the library while dlt_daemon_process_user_message_register_context and  *)
(* its likes, and requests of clients, change the daemon's table.          *)
THEOREM LevelsAgreeTheorem == ContextsSpec => []LevelsAgree
<1> DEFINE Inv == IInv /\ LInv /\ environment \in Environments
<1>1. ContextsInit => Inv
  BY InitInvariant, InitLevels
<1>2. Inv /\ [ContextsNext]_contextVars => Inv'
  BY InvariantStep, LevelsStep
<1>3. Inv => LevelsAgree
  BY QuietLevels
<1> HIDE DEF Inv
<1> QED
  BY <1>1, <1>2, <1>3, PTL DEF ContextsSpec

(* And if every level of DLT_INITIAL_LOG_LEVEL can be read, a context is   *)
(* registered with the level that the most specific item gives it, for any *)
(* number of items: dlt_env_adjust_ll_from_env goes through all of them.   *)
THEOREM LevelsInUseTheorem ==
  ASSUME Readable
  PROVE  ContextsSpec => []LevelsInUse
<1> DEFINE Inv == IInv /\ LInv /\ environment \in Environments /\ EnvironmentDecides
<1>1. ContextsInit => Inv
  BY InitInvariant, InitLevels
<1>2. Inv /\ [ContextsNext]_contextVars => Inv'
  BY InvariantStep, LevelsStep, DecidesStep
<1>3. Inv => LevelsInUse
  BY QuietLevels DEF LevelsInUse
<1> HIDE DEF Inv
<1> QED
  BY <1>1, <1>2, <1>3, PTL DEF ContextsSpec
=============================================================================
