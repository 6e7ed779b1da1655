------------------------- MODULE HmsttServiceProofs -------------------------
(***************************************************************************)
(* What holds of HmsttService for any number of requests, slots, values    *)
(* and descriptions, whatever fails and whatever overlaps.                 *)
(***************************************************************************)
EXTENDS HmsttService, TLAPS

\* The fields of an input, by operation
LEMMA InputFields ==
    ASSUME NEW q \in Input
    PROVE  /\ q.op \in Mutators \cup {"get"}
           /\ q.slot \in Slots
           /\ q.value \in Optional(Values)
           /\ q.description \in Optional(Descriptions)
           /\ q.op \in {"create", "set"} => q.value \in Values
           /\ q.op = "create" => q.description \in Descriptions
    BY DEF Input, Mutators, Optional

\* A GET yields the stored entry or nothing.
LEMMA HGetReads ==
    ASSUME store \in Stores, NEW slot \in Slots, NEW current \in HGet(slot)
    PROVE  /\ current \in Entry \cup {NoEntry}
           /\ current = store[slot] \/ current = NoEntry
    BY DEF HGet, Stores

\* What the three mutations make is an entry.
LEMMA SetDescriptionType ==
    ASSUME NEW current \in Entry \cup {NoEntry},
           NEW description \in Optional(Descriptions)
    PROVE  SetDescription(current, description) \in Descriptions
    BY VocabularyAssumption DEF SetDescription, Entry, Optional

\* A patch makes an entry of an entry.
LEMMA PatchedType ==
    ASSUME NEW current \in Entry, NEW q \in Input
    PROVE  Patched(current, q) \in Entry
    BY InputFields DEF Patched, Entry, Optional

\* Whether the value changes is a yes or a no.
LEMMA ValueChangedType ==
    ASSUME NEW current, NEW value
    PROVE  ValueChanged(current, value) \in BOOLEAN
    BY DEF ValueChanged
-----------------------------------------------------------------------------
(* Type correctness *)

\* A request that is answered has an answer of the right type.
LEMMA AnswerType ==
    ASSUME TypeOK, NEW r \in Requests, NEW result \in Results,
           NEW entry \in Entry \cup {NoEntry},
           pc[r] # "idle", Answer(r, result, entry),
           store' \in Stores, UNCHANGED <<announced, channel, req, overlapped>>,
           unsynced' \subseteq Slots
    PROVE  TypeOK'
    BY DEF TypeOK, Answer, Reply, Phases

\* A request that decides to write has an entry to write.
LEMMA GoWriteType ==
    ASSUME TypeOK, NEW r \in Requests, NEW current, NEW e \in Entry,
           NEW valueChanged \in BOOLEAN,
           pc[r] # "idle", req[r].op \in Mutators,
           GoWrite(r, current, e, valueChanged),
           UNCHANGED <<store, announced, channel, req, overlapped, unsynced>>
    PROVE  TypeOK'
    BY DEF TypeOK, GoWrite, Phases

\* The types hold when the service starts.
LEMMA TypeInit == Init => TypeOK
    BY ServiceAssumption DEF Init, TypeOK, Optional, ValueOf, Stores, Entry, Phases,
       ChannelStates

\* Every step of a request keeps the types.
LEMMA TypeStep ==
    ASSUME TypeOK, NEW r \in Requests, Step(r)
    PROVE  TypeOK'
<1> DEFINE q == req[r]
<1>0. /\ pc[r] # "idle"
      /\ q \in Input
      /\ q.slot \in Slots
    BY InputFields DEF TypeOK, Step, CreateRead, SetRead, PatchRead, WriteOk,
       WriteFailed, WriteLost, Store, Publish, PublishLost, ReadBack
<1> USE <1>0
<1>1. CASE CreateRead(r)
  <2>1. CASE Answer(r, "invalid", NoEntry) \/ Answer(r, "exists", NoEntry)
    BY <1>1, <2>1, AnswerType DEF CreateRead, Results, TypeOK
  <2>2. CASE \E current \in HGet(q.slot) :
                GoWrite(r, current, [value |-> q.value,
                                     description |-> q.description], TRUE)
    <3>1. [value |-> q.value, description |-> q.description] \in Entry
      BY <1>1, InputFields DEF CreateRead, Entry
    <3> QED BY <1>1, <2>2, <3>1, GoWriteType DEF CreateRead, Mutators
  <2> QED BY <1>1, <2>1, <2>2 DEF CreateRead
<1>2. CASE SetRead(r)
  <2>1. CASE Answer(r, "invalid", NoEntry)
    BY <1>2, <2>1, AnswerType DEF SetRead, Results, TypeOK
  <2>2. ASSUME NEW current \in HGet(q.slot),
               GoWrite(r, current,
                       [value |-> q.value,
                        description |-> SetDescription(current, q.description)],
                       ValueChanged(current, q.value))
        PROVE  TypeOK'
    <3>1. current \in Entry \cup {NoEntry}
      BY HGetReads DEF TypeOK
    <3>2. [value |-> q.value,
           description |-> SetDescription(current, q.description)] \in Entry
      BY <1>2, <3>1, InputFields, SetDescriptionType DEF SetRead, Entry
    <3> QED BY <1>2, <2>2, <3>2, ValueChangedType, GoWriteType DEF SetRead, Mutators
  <2> QED BY <1>2, <2>1, <2>2 DEF SetRead
<1>3. CASE PatchRead(r)
  <2>1. CASE \/ Answer(r, "nothing", NoEntry)
             \/ Answer(r, "notfound", NoEntry)
             \/ Answer(r, "invalid", NoEntry)
    BY <1>3, <2>1, AnswerType DEF PatchRead, Results, TypeOK
  <2>2. ASSUME NEW current \in HGet(q.slot), current # NoEntry,
               GoWrite(r, current, Patched(current, q),
                       q.value # None /\ ValueChanged(current, q.value))
        PROVE  TypeOK'
    <3>1. Patched(current, q) \in Entry
      BY <2>2, HGetReads, PatchedType DEF TypeOK
    <3>2. (q.value # None /\ ValueChanged(current, q.value)) \in BOOLEAN
      OBVIOUS
    <3> QED BY <1>3, <2>2, <3>1, <3>2, GoWriteType DEF PatchRead, Mutators
  <2> QED BY <1>3, <2>1, <2>2 DEF PatchRead
<1>4. CASE WriteOk(r)
    BY <1>4 DEF WriteOk, Store, TypeOK, Stores, Phases
<1>5. CASE WriteFailed(r)
    BY <1>5, AnswerType DEF WriteFailed, Results, TypeOK
<1>6. CASE WriteLost(r)
  <2>1. store' \in Stores
    BY <1>6 DEF WriteLost, Store, TypeOK, Stores
  <2>2. unsynced' \subseteq Slots
    BY <1>6 DEF WriteLost, TypeOK
  <2> QED BY <1>6, <2>1, <2>2, AnswerType DEF WriteLost, Store, Results
<1>7. CASE Publish(r)
    BY <1>7 DEF Publish, TypeOK, Entry, Optional, Phases
<1>8. CASE PublishLost(r)
    BY <1>8 DEF PublishLost, TypeOK, Phases
<1>9. CASE ReadBack(r)
    BY <1>9, HGetReads, AnswerType DEF ReadBack, Results, TypeOK
<1> QED BY <1>1, <1>2, <1>3, <1>4, <1>5, <1>6, <1>7, <1>8, <1>9 DEF Step

\* Every step of the system keeps the types.
LEMMA TypeNext == TypeOK /\ [Next]_vars => TypeOK'
<1> SUFFICES ASSUME TypeOK, [Next]_vars PROVE TypeOK'
    OBVIOUS
<1>1. ASSUME NEW r \in Requests, Arrive(r) PROVE TypeOK'
  <2>1. overlapped' \in [Requests -> BOOLEAN]
    BY <1>1 DEF Arrive
  <2> QED BY <1>1, <2>1 DEF Arrive, TypeOK, Phases
<1>2. ASSUME NEW r \in Requests, Step(r) PROVE TypeOK'
    BY <1>2, TypeStep
<1>3. ASSUME NEW r \in Requests, Return(r) PROVE TypeOK'
    BY <1>3 DEF Return, TypeOK, Phases
<1>4. CASE ChannelChange
    BY <1>4 DEF ChannelChange, ChannelClose, ChannelBlock, ChannelUnblock,
       ChannelStates, locals, history, TypeOK
<1>5. CASE Restart
  <2>1. unsynced' \subseteq Slots
    BY <1>5, InputFields DEF Restart, TypeOK
  <2> QED BY <1>5, <2>1 DEF Restart, TypeOK, Phases, ChannelStates
<1>6. CASE UNCHANGED vars
    BY <1>6 DEF vars, locals, history, TypeOK
<1> QED BY <1>1, <1>2, <1>3, <1>4, <1>5, <1>6 DEF Next

\* The variables always hold what the program could put in them: an entry to
\* write is complete, and only a mutation ever writes.
THEOREM TypeCorrect == Spec => []TypeOK
<1> QED BY TypeInit, TypeNext, PTL DEF Spec
-----------------------------------------------------------------------------
(* What Redis holds.  The invariant is inductive together with what requests *)
(* are about to store.                                                       *)

WritesLegal ==
    \A r \in Requests : pc[r] = "write" => Legal(req[r].slot, upd[r])

LegalInv == TypeOK /\ StoreWellFormed /\ WritesLegal

\* What passes the check is legal, and so is what a patch without a value
\* keeps of a legal entry.
LEMMA CheckedIsLegal ==
    ASSUME NEW slot, NEW entry, canTypeChangedWithKey(slot, entry.value)
    PROVE  Legal(slot, entry)
    BY DEF canTypeChangedWithKey, Legal

\* A patch of a legal entry that names no illegal value is legal.
LEMMA PatchedLegal ==
    ASSUME NEW q, NEW current, Legal(q.slot, current),
           q.value # None => canTypeChangedWithKey(q.slot, q.value)
    PROVE  Legal(q.slot, Patched(current, q))
    BY DEF canTypeChangedWithKey, Legal, Patched

\* A request that moves on without writing keeps the invariant.
LEMMA LegalFrame ==
    ASSUME LegalInv, TypeOK', store' = store,
           \A r \in Requests :
                pc'[r] = "write" =>
                    \/ Legal(req'[r].slot, upd'[r])
                    \/ pc[r] = "write" /\ req'[r] = req[r] /\ upd'[r] = upd[r]
    PROVE  LegalInv'
    BY DEF LegalInv, StoreWellFormed, WellFormed, WritesLegal

\* Every step of a request keeps what is stored, and about to be, legal.
LEMMA LegalStep ==
    ASSUME LegalInv, TypeOK', NEW r \in Requests, Step(r)
    PROVE  LegalInv'
<1> DEFINE q == req[r]
<1> USE DEF LegalInv
<1>1. ASSUME NEW result, NEW entry, Answer(r, result, entry),
             UNCHANGED <<store, req>>
      PROVE  LegalInv'
    BY <1>1, LegalFrame DEF Answer, TypeOK
<1>2. ASSUME NEW current, NEW e, NEW valueChanged, Legal(q.slot, e),
             GoWrite(r, current, e, valueChanged), UNCHANGED <<store, req>>
      PROVE  LegalInv'
    BY <1>2, LegalFrame DEF GoWrite, TypeOK
<1>3. ASSUME canTypeChangedWithKey(q.slot, q.value), NEW description
      PROVE  Legal(q.slot, [value |-> q.value, description |-> description])
    BY <1>3, CheckedIsLegal
<1>4. CASE CreateRead(r)
  <2>1. CASE Answer(r, "invalid", NoEntry) \/ Answer(r, "exists", NoEntry)
    BY <1>1, <1>4, <2>1 DEF CreateRead
  <2>2. ASSUME NEW current, canTypeChangedWithKey(q.slot, q.value),
               GoWrite(r, current, [value |-> q.value,
                                    description |-> q.description], TRUE)
        PROVE  LegalInv'
    BY <1>2, <1>3, <1>4, <2>2 DEF CreateRead
  <2> QED BY <1>4, <2>1, <2>2 DEF CreateRead
<1>5. CASE SetRead(r)
  <2>1. CASE Answer(r, "invalid", NoEntry)
    BY <1>1, <1>5, <2>1 DEF SetRead
  <2>2. ASSUME NEW current, canTypeChangedWithKey(q.slot, q.value),
               GoWrite(r, current,
                       [value |-> q.value,
                        description |-> SetDescription(current, q.description)],
                       ValueChanged(current, q.value))
        PROVE  LegalInv'
    BY <1>2, <1>3, <1>5, <2>2 DEF SetRead
  <2> QED BY <1>5, <2>1, <2>2 DEF SetRead
<1>6. CASE PatchRead(r)
  <2>1. ASSUME NEW current \in HGet(q.slot), current # NoEntry,
               q.value # None => canTypeChangedWithKey(q.slot, q.value),
               GoWrite(r, current, Patched(current, q),
                       q.value # None /\ ValueChanged(current, q.value))
        PROVE  LegalInv'
    <3>1. q.slot \in Slots /\ current = store[q.slot]
      BY <1>6, <2>1, HGetReads, InputFields DEF PatchRead, TypeOK
    <3>2. Legal(q.slot, Patched(current, q))
      BY <2>1, <3>1, PatchedLegal DEF StoreWellFormed, WellFormed
    <3> QED BY <1>2, <1>6, <2>1, <3>2 DEF PatchRead
  <2> QED BY <1>1, <1>6, <2>1 DEF PatchRead
<1>7. CASE Store(r) /\ \A o \in Requests : pc'[o] = "write" =>
                            pc[o] = "write" /\ upd'[o] = upd[o]
  <2>1. StoreWellFormed'
    BY <1>7, InputFields DEF Store, StoreWellFormed, WellFormed, WritesLegal,
       TypeOK, Stores
  <2>2. WritesLegal'
    BY <1>7 DEF Store, WritesLegal
  <2> QED BY <2>1, <2>2
<1>8. CASE WriteOk(r)
    BY <1>7, <1>8 DEF WriteOk, Store, TypeOK
<1>9. CASE WriteLost(r)
    BY <1>7, <1>9 DEF WriteLost, Answer, Store, TypeOK
<1>10. CASE WriteFailed(r)
    BY <1>1, <1>10 DEF WriteFailed
<1>11. CASE Publish(r) \/ PublishLost(r)
    BY <1>11, LegalFrame DEF Publish, PublishLost, TypeOK
<1>12. CASE ReadBack(r)
    BY <1>1, <1>12 DEF ReadBack
<1> QED BY <1>4, <1>6, <1>8, <1>9, <1>10, <1>11, <1>12, <1>5 DEF Step

\* So does every step of the service.
LEMMA LegalNext == LegalInv /\ [Next]_vars => LegalInv'
<1> SUFFICES ASSUME LegalInv, [Next]_vars PROVE LegalInv'
    OBVIOUS
<1>0. TypeOK'
    BY TypeNext DEF LegalInv
<1>1. ASSUME NEW r \in Requests, Arrive(r) \/ Return(r) PROVE LegalInv'
    BY <1>0, <1>1, LegalFrame DEF Arrive, Return, LegalInv, TypeOK
<1>2. ASSUME NEW r \in Requests, Step(r) PROVE LegalInv'
    BY <1>0, <1>2, LegalStep
<1>3. CASE ChannelChange \/ UNCHANGED vars
    BY <1>0, <1>3, LegalFrame DEF ChannelChange, vars, locals
<1>4. CASE Restart
    BY <1>0, <1>4, LegalFrame DEF Restart
<1> QED BY <1>1, <1>2, <1>3, <1>4 DEF Next

\* Redis never holds anything but on or off for a named switch, whichever
\* requests overlapped and whatever was read back and written again.
THEOREM StoreAlwaysWellFormed == Spec => []StoreWellFormed
<1>1. Init => LegalInv
    BY TypeInit DEF Init, LegalInv, StoreWellFormed, WritesLegal
<1>2. LegalInv => StoreWellFormed
    BY DEF LegalInv
<1> QED BY <1>1, <1>2, LegalNext, PTL DEF Spec
-----------------------------------------------------------------------------
(* Overlap.  Mutations of one slot that are in flight together all know it. *)

Mutates(r) == InFlight(r) /\ req[r].op \in Mutators

RivalsOverlap ==
    \A r, o \in Requests :
        (r # o /\ Mutates(r) /\ Mutates(o) /\ req[r].slot = req[o].slot)
        => overlapped[r]

\* At first nothing is in flight.
LEMMA RivalsInit == Init => RivalsOverlap
    BY DEF Init, RivalsOverlap, Mutates, InFlight

\* No step of a request puts another one in flight.
LEMMA StepFrame ==
    ASSUME TypeOK, NEW r \in Requests, Step(r)
    PROVE  /\ UNCHANGED <<req, overlapped>>
           /\ InFlight(r)
           /\ \A o \in Requests \ {r} :
                /\ pc'[o] = pc[o] /\ upd'[o] = upd[o] /\ changed'[o] = changed[o]
                /\ blind'[o] = blind[o] /\ reply'[o] = reply[o]
<1> USE DEF TypeOK, InFlight
<1>1. CASE CreateRead(r)
    BY <1>1 DEF CreateRead, Answer, GoWrite
<1>2. CASE SetRead(r)
    BY <1>2 DEF SetRead, Answer, GoWrite
<1>3. CASE PatchRead(r)
    BY <1>3 DEF PatchRead, Answer, GoWrite
<1>4. CASE WriteOk(r) \/ WriteFailed(r) \/ WriteLost(r)
    BY <1>4 DEF WriteOk, WriteFailed, WriteLost, Store, Answer
<1>5. CASE Publish(r) \/ PublishLost(r)
    BY <1>5 DEF Publish, PublishLost
<1>6. CASE ReadBack(r)
    BY <1>6 DEF ReadBack, Answer
<1> QED BY <1>1, <1>2, <1>3, <1>4, <1>5, <1>6 DEF Step

\* Two mutations in flight for one slot stay marked as overlapping.
LEMMA RivalsNext ==
    ASSUME TypeOK, RivalsOverlap, [Next]_vars
    PROVE  RivalsOverlap'
<1> USE DEF RivalsOverlap, Mutates
<1>1. ASSUME NEW r \in Requests, Arrive(r) PROVE RivalsOverlap'
  <2>1. PICK q \in Input :
            /\ req' = [req EXCEPT ![r] = q]
            /\ overlapped' = [o \in Requests |->
                    IF o = r THEN Rivals(r, q) # {}
                    ELSE overlapped[o] \/ o \in Rivals(r, q)]
    BY <1>1 DEF Arrive
  <2>2. \A o \in Requests \ {r} :
            /\ pc'[o] = pc[o]
            /\ req'[o] = req[o]
            /\ overlapped[o] => overlapped'[o]
    BY <1>1, <2>1 DEF Arrive, TypeOK
  <2>3. req'[r] = q
    BY <2>1 DEF TypeOK
  <2>4. ASSUME NEW o \in Requests \ {r}, InFlight(o)', req'[o].op \in Mutators,
               q.op \in Mutators, req'[o].slot = q.slot
        PROVE  overlapped'[o] /\ overlapped'[r]
    <3>1. o \in Requests \ {r} /\ InFlight(o) /\ req[o] = req'[o]
      BY <2>2, <2>4 DEF InFlight
    <3>2. {q.op, req[o].op} \subseteq Mutators
      BY <2>4, <3>1
    <3>3. o \in Rivals(r, q)
      BY <2>4, <3>1, <3>2 DEF Rivals
    <3> QED BY <2>1, <3>3
  <2>5. ASSUME NEW o \in Requests, NEW p \in Requests, o # p, Mutates(o)',
               Mutates(p)', req'[o].slot = req'[p].slot
        PROVE  overlapped'[o]
    <3>1. CASE o = r
      BY <2>3, <2>4, <2>5, <3>1
    <3>2. CASE p = r
      BY <2>3, <2>4, <2>5, <3>2
    <3>3. CASE o # r /\ p # r
      BY <2>2, <2>5, <3>3 DEF InFlight
    <3> QED BY <3>1, <3>2, <3>3
  <2> QED BY <2>5
<1>2. ASSUME NEW r \in Requests, Step(r) PROVE RivalsOverlap'
    BY <1>2, StepFrame DEF InFlight
<1>3. ASSUME NEW r \in Requests, Return(r) PROVE RivalsOverlap'
    BY <1>3 DEF Return, TypeOK, InFlight
<1>4. CASE ChannelChange \/ UNCHANGED vars
    BY <1>4 DEF ChannelChange, vars, locals, history, InFlight
<1>5. CASE Restart
    BY <1>5 DEF Restart, InFlight
<1> QED BY <1>1, <1>2, <1>3, <1>4, <1>5 DEF Next
-----------------------------------------------------------------------------
(* What subscribers know.  A request that nobody overlaps finds its slot as  *)
(* it left it: what it thinks is no change is none, and what it announces is *)
(* still stored.                                                             *)

SilentWritesKeepValues ==
    \A r \in Requests :
        (pc[r] = "write" /\ ~overlapped[r] /\ ~changed[r])
        => /\ store[req[r].slot] # NoEntry
           /\ upd[r].value = store[req[r].slot].value

MessagesAreCurrent ==
    \A r \in Requests :
        (pc[r] = "publish" /\ (~overlapped[r] \/ req[r].slot \notin unsynced))
        => store[req[r].slot] = upd[r]

AgreeInv ==
    /\ TypeOK
    /\ RivalsOverlap
    /\ SilentWritesKeepValues
    /\ MessagesAreCurrent
    /\ SubscribersAgree

\* Steps after which no slot is less synced, no new message is pending and no
\* new write is due keep the invariant.
LEMMA AgreeFrame ==
    ASSUME AgreeInv, TypeOK', RivalsOverlap',
           UNCHANGED <<store, announced>>,
           unsynced \subseteq unsynced',
           \A r \in Requests :
                pc[r] = "publish" =>
                    \/ pc'[r] = "publish" /\ req'[r] = req[r]
                    \/ req[r].slot \in unsynced',
           \A r \in Requests :
                pc'[r] \in {"write", "publish"} =>
                    /\ pc'[r] = pc[r] /\ req'[r] = req[r] /\ upd'[r] = upd[r]
                    /\ changed'[r] = changed[r]
                    /\ overlapped[r] => overlapped'[r]
    PROVE  AgreeInv'
<1> USE DEF AgreeInv
<1>1. SilentWritesKeepValues'
    BY DEF SilentWritesKeepValues
<1>2. MessagesAreCurrent'
    BY DEF MessagesAreCurrent
<1>3. SubscribersAgree'
    BY DEF SubscribersAgree
<1> QED BY <1>1, <1>2, <1>3

\* The decision to write announces every change of value.
LEMMA AgreeGoWrite ==
    ASSUME AgreeInv, TypeOK', RivalsOverlap', NEW r \in Requests, NEW current,
           NEW e \in Entry, NEW valueChanged \in BOOLEAN,
           pc[r] = "read",
           GoWrite(r, current, e, valueChanged),
           UNCHANGED <<store, announced, req, overlapped, unsynced>>,
           ~valueChanged => /\ store[req[r].slot] # NoEntry
                            /\ e.value = store[req[r].slot].value
    PROVE  AgreeInv'
<1> USE DEF AgreeInv, GoWrite
<1>1. SilentWritesKeepValues'
    BY DEF SilentWritesKeepValues, TypeOK
<1>2. MessagesAreCurrent'
    BY DEF MessagesAreCurrent, TypeOK
<1>3. SubscribersAgree'
    BY DEF SubscribersAgree, TypeOK
<1> QED BY <1>1, <1>2, <1>3

\* An answer that stores nothing leaves subscribers as right as they were.
LEMMA AgreeAnswer ==
    ASSUME AgreeInv, TypeOK', RivalsOverlap', NEW r \in Requests,
           NEW result, NEW entry, pc[r] \in {"read", "write", "readback"},
           Answer(r, result, entry),
           UNCHANGED <<store, announced, req, overlapped, unsynced>>
    PROVE  AgreeInv'
<1>1. \A o \in Requests \ {r} :
            pc'[o] = pc[o] /\ upd'[o] = upd[o] /\ changed'[o] = changed[o]
    BY DEF Answer, AgreeInv, TypeOK
<1>2. pc'[r] = "done"
    BY DEF Answer, AgreeInv, TypeOK
<1> QED BY <1>1, <1>2, AgreeFrame

\* An HSET.  Whoever else is about to write or to announce the same slot knows
\* it is overlapped, and so does r.
LEMMA AgreeStore ==
    ASSUME AgreeInv, TypeOK', RivalsOverlap', NEW r \in Requests,
           Store(r), Step(r),
           ~overlapped[r] /\ changed[r] =>
                pc'[r] = "publish" \/ req[r].slot \in unsynced',
           unsynced' = unsynced \/ unsynced' = unsynced \cup {req[r].slot},
           overlapped[r] => req[r].slot \in unsynced',
           pc'[r] # "write",
           pc'[r] = "publish" => upd'[r] = upd[r]
    PROVE  AgreeInv'
<1> DEFINE slot == req[r].slot
<1> USE DEF AgreeInv
<1>1. /\ slot \in Slots
      /\ Mutates(r)
      /\ upd[r] \in Entry
      /\ store' = [store EXCEPT ![slot] = upd[r]]
      /\ UNCHANGED <<announced, req, overlapped>>
    BY InputFields DEF Store, TypeOK, Mutates, InFlight
<1>2. \A o \in Requests \ {r} :
            /\ pc'[o] = pc[o] /\ upd'[o] = upd[o] /\ changed'[o] = changed[o]
            /\ pc[o] \in {"write", "publish"} =>
                    /\ req[o].slot \in Slots
                    /\ Mutates(o)
    BY StepFrame, InputFields DEF TypeOK, Mutates, InFlight
<1>3. \A o \in Requests \ {r} :
            pc[o] \in {"write", "publish"} /\ req[o].slot = slot
            => overlapped[o] /\ overlapped[r]
    BY <1>1, <1>2 DEF RivalsOverlap
<1>4. store'[slot] = upd[r] /\ \A s \in Slots \ {slot} : store'[s] = store[s]
    BY <1>1 DEF TypeOK, Stores
<1>5. SilentWritesKeepValues'
    BY <1>1, <1>2, <1>3, <1>4 DEF SilentWritesKeepValues
<1>6. MessagesAreCurrent'
    BY <1>1, <1>2, <1>3, <1>4 DEF MessagesAreCurrent
<1>7. ASSUME NEW s \in Slots \ unsynced'
      PROVE  \/ announced[s] = ValueOf(store'[s])
             \/ \E o \in Requests : pc'[o] = "publish" /\ req[o].slot = s
  <2>1. s \notin unsynced
    BY <1>7
  <2>2. CASE s # slot
    BY <1>1, <1>2, <1>4, <2>1, <2>2 DEF SubscribersAgree, Store
  <2>3. CASE s = slot /\ changed[r]
    BY <1>1, <1>7, <2>3
  <2>4. CASE s = slot /\ ~changed[r]
    <3>1. ~overlapped[r]
      BY <1>7, <2>4
    <3>2. /\ store[s] # NoEntry
          /\ upd[r].value = store[s].value
      BY <2>4, <3>1 DEF SilentWritesKeepValues, Store
    <3>3. ValueOf(store'[s]) = ValueOf(store[s])
      BY <1>1, <1>4, <2>4, <3>2, VocabularyAssumption DEF ValueOf
    <3> QED BY <1>2, <2>1, <3>3 DEF SubscribersAgree, Store
  <2> QED BY <2>2, <2>3, <2>4
<1>8. SubscribersAgree'
    BY <1>1, <1>7 DEF SubscribersAgree
<1> QED BY <1>5, <1>6, <1>8

\* Every step of a request keeps subscribers right, or has a reason on record.
LEMMA AgreeStep ==
    ASSUME AgreeInv, TypeOK', RivalsOverlap', NEW r \in Requests, Step(r)
    PROVE  AgreeInv'
<1> DEFINE q == req[r]
<1>0. /\ TypeOK
      /\ pc[r] # "idle" /\ q \in Input /\ q.slot \in Slots
    BY StepFrame, InputFields DEF AgreeInv, TypeOK, InFlight
<1>1. CASE CreateRead(r)
  <2>1. [value |-> q.value, description |-> q.description] \in Entry
    BY <1>0, <1>1, InputFields DEF CreateRead, Entry
  <2>2. CASE Answer(r, "invalid", NoEntry) \/ Answer(r, "exists", NoEntry)
    BY <1>1, <2>2, AgreeAnswer DEF CreateRead
  <2>3. ASSUME NEW current,
               GoWrite(r, current, [value |-> q.value,
                                    description |-> q.description], TRUE)
        PROVE  AgreeInv'
    BY <1>1, <2>1, <2>3, AgreeGoWrite DEF CreateRead
  <2> QED BY <1>1, <2>2, <2>3 DEF CreateRead
<1>2. CASE SetRead(r)
  <2>1. CASE Answer(r, "invalid", NoEntry)
    BY <1>2, <2>1, AgreeAnswer DEF SetRead
  <2>2. ASSUME NEW current \in HGet(q.slot),
               GoWrite(r, current,
                       [value |-> q.value,
                        description |-> SetDescription(current, q.description)],
                       ValueChanged(current, q.value))
        PROVE  AgreeInv'
    <3>1. /\ current \in Entry \cup {NoEntry}
          /\ current = store[q.slot] \/ current = NoEntry
      BY <1>0, HGetReads DEF TypeOK
    <3>2. [value |-> q.value,
           description |-> SetDescription(current, q.description)] \in Entry
      BY <1>0, <1>2, <3>1, InputFields, SetDescriptionType DEF SetRead, Entry
    <3>3. ~ValueChanged(current, q.value)
            => store[q.slot] # NoEntry /\ q.value = store[q.slot].value
      BY <3>1 DEF ValueChanged
    <3> QED BY <1>2, <2>2, <3>2, <3>3, ValueChangedType, AgreeGoWrite DEF SetRead
  <2> QED BY <1>2, <2>1, <2>2 DEF SetRead
<1>3. CASE PatchRead(r)
  <2>1. ASSUME NEW current \in HGet(q.slot), current # NoEntry,
               GoWrite(r, current, Patched(current, q),
                       q.value # None /\ ValueChanged(current, q.value))
        PROVE  AgreeInv'
    <3>1. current \in Entry /\ current = store[q.slot]
      BY <1>0, <2>1, HGetReads DEF TypeOK
    <3>2. Patched(current, q) \in Entry
      BY <1>0, <3>1, PatchedType
    <3>3. ~(q.value # None /\ ValueChanged(current, q.value))
            => Patched(current, q).value = store[q.slot].value
      <4>1. CASE q.value = None
        BY <3>1, <4>1 DEF Patched
      <4>2. CASE q.value # None /\ ~ValueChanged(current, q.value)
        BY <3>1, <4>2 DEF Patched, ValueChanged
      <4> QED BY <4>1, <4>2
    <3>4. (q.value # None /\ ValueChanged(current, q.value)) \in BOOLEAN
      OBVIOUS
    <3> QED BY <1>3, <2>1, <3>1, <3>2, <3>3, <3>4, AgreeGoWrite DEF PatchRead
  <2> QED BY <1>3, <2>1, AgreeAnswer DEF PatchRead
<1>4. CASE WriteOk(r)
    BY <1>0, <1>4, AgreeStore DEF WriteOk, Store, TypeOK
<1>5. CASE WriteLost(r)
    BY <1>0, <1>5, AgreeStore DEF WriteLost, Answer, Store, TypeOK
<1>6. CASE WriteFailed(r)
    BY <1>6, AgreeAnswer DEF WriteFailed
<1>7. CASE Publish(r)
  <2> USE DEF AgreeInv
  <2>1. \A o \in Requests \ {r} : pc'[o] = pc[o]
    BY <1>0, StepFrame
  <2>2. /\ pc[r] = "publish" /\ pc'[r] = "readback"
        /\ unsynced' = IF overlapped[r] THEN unsynced ELSE unsynced \ {q.slot}
        /\ announced' = [announced EXCEPT ![q.slot] = upd[r].value]
        /\ UNCHANGED <<store, req, upd, changed, overlapped>>
    BY <1>0, <1>7 DEF Publish, TypeOK
  <2>3. SilentWritesKeepValues'
    BY <2>1, <2>2 DEF SilentWritesKeepValues
  <2>4. \A o \in Requests \ {r} :
            pc[o] = "publish" /\ req[o].slot = q.slot
            => overlapped[o] /\ overlapped[r]
    BY <1>0, <2>2 DEF RivalsOverlap, Mutates, InFlight, TypeOK
  <2>5. MessagesAreCurrent'
    BY <2>1, <2>2, <2>4 DEF MessagesAreCurrent
  <2>6. ASSUME NEW s \in Slots \ unsynced'
        PROVE  \/ announced'[s] = ValueOf(store[s])
               \/ \E o \in Requests : pc'[o] = "publish" /\ req[o].slot = s
    <3>1. CASE s # q.slot
      BY <2>1, <2>2, <2>6, <3>1 DEF SubscribersAgree, TypeOK
    <3>2. CASE s = q.slot
      <4>1. store[s] = upd[r]
        BY <2>2, <2>6, <3>2 DEF MessagesAreCurrent
      <4>2. upd[r] \in Entry
        BY <1>0, <2>2 DEF TypeOK
      <4> QED BY <1>0, <2>2, <3>2, <4>1, <4>2, VocabularyAssumption
              DEF TypeOK, ValueOf
    <3> QED BY <3>1, <3>2
  <2>7. SubscribersAgree'
    BY <2>2, <2>6 DEF SubscribersAgree
  <2> QED BY <2>3, <2>5, <2>7
<1>8. CASE PublishLost(r)
    BY <1>0, <1>8, AgreeFrame DEF PublishLost, TypeOK
<1>9. CASE ReadBack(r)
    BY <1>9, AgreeAnswer DEF ReadBack
<1> QED BY <1>1, <1>2, <1>3, <1>4, <1>5, <1>6, <1>7, <1>8, <1>9 DEF Step

\* So does every step of the service.
LEMMA AgreeNext == AgreeInv /\ [Next]_vars => AgreeInv'
<1> SUFFICES ASSUME AgreeInv, [Next]_vars PROVE AgreeInv'
    OBVIOUS
<1>0. TypeOK' /\ RivalsOverlap'
    BY TypeNext, RivalsNext DEF AgreeInv
<1>1. ASSUME NEW r \in Requests, Arrive(r) PROVE AgreeInv'
  <2>1. \A o \in Requests \ {r} :
            /\ pc'[o] = pc[o] /\ req'[o] = req[o]
            /\ overlapped[o] => overlapped'[o]
    BY <1>1 DEF Arrive, AgreeInv, TypeOK
  <2>2. pc[r] = "idle" /\ pc'[r] \in {"read", "readback"}
    BY <1>1 DEF Arrive, AgreeInv, TypeOK
  <2> QED BY <1>0, <1>1, <2>1, <2>2, AgreeFrame DEF Arrive
<1>2. ASSUME NEW r \in Requests, Step(r) PROVE AgreeInv'
    BY <1>0, <1>2, AgreeStep
<1>3. ASSUME NEW r \in Requests, Return(r) PROVE AgreeInv'
    BY <1>0, <1>3, AgreeFrame DEF Return, AgreeInv, TypeOK
<1>4. CASE ChannelChange \/ UNCHANGED vars
    BY <1>0, <1>4, AgreeFrame DEF ChannelChange, vars, locals, history
<1>5. CASE Restart
    BY <1>0, <1>5, AgreeFrame DEF Restart
<1> QED BY <1>1, <1>2, <1>3, <1>4, <1>5 DEF Next

\* No state changes in silence: what subscribers were told last is what is
\* stored, unless mutations of it overlapped, a message of it was lost, or the
\* process died between storing it and announcing it.  Failing GETs and HSETs
\* do not matter.
THEOREM SubscribersAlwaysAgree == Spec => []SubscribersAgree
<1>1. Init => AgreeInv
    BY TypeInit, RivalsInit DEF Init, AgreeInv, SilentWritesKeepValues,
       MessagesAreCurrent, SubscribersAgree
<1>2. AgreeInv => SubscribersAgree
    BY DEF AgreeInv
<1> QED BY <1>1, <1>2, AgreeNext, PTL DEF Spec
-----------------------------------------------------------------------------
(* What mutations make of what they find, and what their answers show. *)

DueWritesHonour ==
    \A r \in Requests :
        (pc[r] = "write" /\ ~overlapped[r] /\ ~blind[r])
        => Honours(req[r], store[req[r].slot], upd[r])

\* Entry e shows the fields that q names.
Shows(q, e) ==
    /\ q.value # None => e.value = q.value
    /\ q.description # None => e.description = q.description

WritesShowRequest ==
    \A r \in Requests :
        pc[r] \in {"write", "publish"} => Shows(req[r], upd[r])

\* After its HSET a request that nobody overlaps finds its own entry.
StoredShowsRequest ==
    \A r \in Requests :
        (/\ pc[r] \in {"publish", "readback"}
         /\ req[r].op \in Mutators
         /\ ~overlapped[r])
        => Shows(req[r], store[req[r].slot])

HonourInv ==
    /\ TypeOK
    /\ RivalsOverlap
    /\ DueWritesHonour
    /\ WritesShowRequest
    /\ StoredShowsRequest
    /\ RepliesShowOwnWrite

\* Steps that store nothing: what matters of each request is what it was, or
\* is shown to hold.
LEMMA HonourFrame ==
    ASSUME HonourInv, TypeOK', RivalsOverlap', store' = store,
           \A r \in Requests :
                \/ /\ pc'[r] = pc[r] /\ req'[r] = req[r] /\ upd'[r] = upd[r]
                   /\ reply'[r] = reply[r] /\ blind'[r] = blind[r]
                   /\ overlapped[r] => overlapped'[r]
                \/ pc'[r] \in {"idle", "read"}
                \/ pc'[r] = "readback" /\ req'[r].op = "get"
    PROVE  HonourInv'
<1> USE DEF HonourInv
<1>0. "get" \notin Mutators
    BY DEF Mutators
<1>1. DueWritesHonour'
    BY DEF DueWritesHonour
<1>2. WritesShowRequest'
    BY DEF WritesShowRequest
<1>3. StoredShowsRequest'
    BY <1>0 DEF StoredShowsRequest
<1>4. RepliesShowOwnWrite'
    BY DEF RepliesShowOwnWrite
<1> QED BY <1>1, <1>2, <1>3, <1>4

\* An answer that stores nothing keeps what the others are about to write honest.
LEMMA HonourAnswer ==
    ASSUME HonourInv, TypeOK', RivalsOverlap', NEW r \in Requests,
           NEW result, NEW entry, Answer(r, result, entry), Step(r),
           store' = store,
           (result = "ok" /\ req[r].op \in Mutators /\ ~overlapped[r])
                => Shows(req[r], entry)
    PROVE  HonourInv'
<1> USE DEF HonourInv
<1>1. /\ UNCHANGED <<req, overlapped>>
      /\ pc'[r] = "done" /\ reply'[r] = [result |-> result, entry |-> entry]
      /\ \A o \in Requests \ {r} :
            /\ pc'[o] = pc[o] /\ upd'[o] = upd[o]
            /\ blind'[o] = blind[o] /\ reply'[o] = reply[o]
    BY StepFrame DEF Answer, TypeOK
<1>2. DueWritesHonour'
    BY <1>1 DEF DueWritesHonour
<1>3. WritesShowRequest'
    BY <1>1 DEF WritesShowRequest
<1>4. StoredShowsRequest'
    BY <1>1 DEF StoredShowsRequest
<1>5. RepliesShowOwnWrite'
    BY <1>1 DEF RepliesShowOwnWrite, Shows
<1> QED BY <1>2, <1>3, <1>4, <1>5

\* What a request decides to write does what it asked to what it read.
LEMMA HonourGoWrite ==
    ASSUME HonourInv, TypeOK', RivalsOverlap', NEW r \in Requests,
           NEW current, NEW e, NEW valueChanged, Step(r), store' = store,
           GoWrite(r, current, e, valueChanged),
           Shows(req[r], e),
           Honours(req[r], current, e)
    PROVE  HonourInv'
<1> USE DEF HonourInv
<1>1. /\ UNCHANGED <<req, overlapped>>
      /\ pc'[r] = "write" /\ upd'[r] = e
      /\ ~blind'[r] => current = store[req[r].slot]
      /\ \A o \in Requests \ {r} :
            /\ pc'[o] = pc[o] /\ upd'[o] = upd[o]
            /\ blind'[o] = blind[o] /\ reply'[o] = reply[o]
    BY StepFrame DEF GoWrite, TypeOK
<1>2. DueWritesHonour'
    BY <1>1 DEF DueWritesHonour
<1>3. WritesShowRequest'
    BY <1>1 DEF WritesShowRequest
<1>4. StoredShowsRequest'
    BY <1>1 DEF StoredShowsRequest
<1>5. RepliesShowOwnWrite'
    BY <1>1 DEF RepliesShowOwnWrite
<1> QED BY <1>2, <1>3, <1>4, <1>5

\* A write disturbs no other that is not marked as overlapping.
LEMMA HonourStore ==
    ASSUME HonourInv, TypeOK', RivalsOverlap', NEW r \in Requests,
           Store(r), Step(r), pc'[r] # "write",
           pc'[r] = "publish" => upd'[r] = upd[r],
           pc'[r] = "done" => reply'[r].result = "setfailed"
    PROVE  HonourInv'
<1> DEFINE slot == req[r].slot
<1> USE DEF HonourInv
<1>1. /\ slot \in Slots /\ Mutates(r)
      /\ Shows(req[r], upd[r])
      /\ UNCHANGED <<req, overlapped>>
    BY InputFields DEF Store, TypeOK, Mutates, InFlight, WritesShowRequest
<1>2. \A o \in Requests \ {r} :
            /\ pc'[o] = pc[o] /\ upd'[o] = upd[o]
            /\ blind'[o] = blind[o] /\ reply'[o] = reply[o]
    BY StepFrame
<1>3. store'[slot] = upd[r] /\ \A s \in Slots \ {slot} : store'[s] = store[s]
    BY <1>1 DEF Store, TypeOK, Stores
<1>4. ASSUME NEW o \in Requests \ {r}, pc[o] \in {"write", "publish", "readback"},
             req[o].op \in Mutators, ~overlapped[o]
      PROVE  store'[req[o].slot] = store[req[o].slot]
  <2>1. req[o].slot \in Slots
    BY <1>4, InputFields DEF TypeOK
  <2>2. req[o].slot # slot
    BY <1>1, <1>4 DEF RivalsOverlap, Mutates, InFlight
  <2> QED BY <1>3, <2>1, <2>2
<1>5. DueWritesHonour'
    BY <1>1, <1>2, <1>4 DEF DueWritesHonour, TypeOK
<1>6. WritesShowRequest'
    BY <1>1, <1>2 DEF WritesShowRequest
<1>7. StoredShowsRequest'
    BY <1>1, <1>2, <1>3, <1>4 DEF StoredShowsRequest
<1>8. RepliesShowOwnWrite'
    BY <1>1, <1>2 DEF RepliesShowOwnWrite
<1> QED BY <1>5, <1>6, <1>7, <1>8

\* Every step of a request keeps what is about to be written honest.
LEMMA HonourStep ==
    ASSUME HonourInv, TypeOK', RivalsOverlap', NEW r \in Requests, Step(r)
    PROVE  HonourInv'
<1> DEFINE q == req[r]
<1>0. /\ TypeOK
      /\ pc[r] # "idle" /\ q \in Input /\ q.slot \in Slots
    BY StepFrame, InputFields DEF HonourInv, TypeOK, InFlight
<1>1. CASE CreateRead(r)
  <2> DEFINE e == [value |-> q.value, description |-> q.description]
  <2>1. Shows(q, e) /\ Honours(q, NoEntry, e)
    <3>1. q.value # None /\ q.description # None
      BY <1>0, <1>1, InputFields, VocabularyAssumption DEF CreateRead
    <3> QED BY <1>1, <3>1 DEF CreateRead, Shows, Honours
  <2>2. CASE Answer(r, "invalid", NoEntry) \/ Answer(r, "exists", NoEntry)
    BY <1>1, <2>2, HonourAnswer DEF CreateRead
  <2>3. CASE GoWrite(r, NoEntry, e, TRUE)
    BY <1>1, <2>1, <2>3, HonourGoWrite DEF CreateRead
  <2> QED BY <1>1, <2>2, <2>3 DEF CreateRead
<1>2. CASE SetRead(r)
  <2>1. CASE Answer(r, "invalid", NoEntry)
    BY <1>2, <2>1, HonourAnswer DEF SetRead
  <2>2. ASSUME NEW current,
               GoWrite(r, current,
                       [value |-> q.value,
                        description |-> SetDescription(current, q.description)],
                       ValueChanged(current, q.value))
        PROVE  HonourInv'
    <3> DEFINE e == [value |-> q.value,
                     description |-> SetDescription(current, q.description)]
    <3>1. q.value # None
      BY <1>0, <1>2, InputFields, VocabularyAssumption DEF SetRead
    <3>2. Shows(q, e) /\ Honours(q, current, e)
      BY <1>2, <3>1 DEF SetRead, Shows, Honours, SetDescription
    <3> QED BY <1>2, <2>2, <3>2, HonourGoWrite DEF SetRead
  <2> QED BY <1>2, <2>1, <2>2 DEF SetRead
<1>3. CASE PatchRead(r)
  <2>1. ASSUME NEW current, current # NoEntry,
               GoWrite(r, current, Patched(current, q),
                       q.value # None /\ ValueChanged(current, q.value))
        PROVE  HonourInv'
    <3>1. Shows(q, Patched(current, q)) /\ Honours(q, current, Patched(current, q))
      BY <1>3, <2>1 DEF PatchRead, Shows, Honours, Patched
    <3> QED BY <1>3, <2>1, <3>1, HonourGoWrite DEF PatchRead
  <2> QED BY <1>3, <2>1, HonourAnswer DEF PatchRead
<1>4. CASE WriteOk(r)
    BY <1>0, <1>4, HonourStore DEF WriteOk, Store, TypeOK
<1>5. CASE WriteLost(r)
    BY <1>0, <1>5, HonourStore DEF WriteLost, Answer, TypeOK
<1>6. CASE WriteFailed(r)
    BY <1>6, HonourAnswer DEF WriteFailed
<1>7. CASE Publish(r) \/ PublishLost(r)
  <2>1. /\ pc[r] = "publish" /\ pc'[r] = "readback"
        /\ UNCHANGED <<store, req, upd, reply, overlapped, blind>>
        /\ \A o \in Requests \ {r} : pc'[o] = pc[o]
    BY <1>0, <1>7 DEF Publish, PublishLost, TypeOK
  <2> USE DEF HonourInv
  <2>2. DueWritesHonour' /\ WritesShowRequest'
    BY <2>1 DEF DueWritesHonour, WritesShowRequest
  <2>3. StoredShowsRequest'
    BY <2>1 DEF StoredShowsRequest
  <2>4. RepliesShowOwnWrite'
    BY <2>1 DEF RepliesShowOwnWrite
  <2> QED BY <2>2, <2>3, <2>4
<1>8. CASE ReadBack(r)
  <2>1. ASSUME NEW entry \in HGet(q.slot), entry # NoEntry, Answer(r, "ok", entry)
        PROVE  HonourInv'
    <3>1. entry = store[q.slot]
      BY <1>0, <2>1, HGetReads DEF TypeOK
    <3>2. (q.op \in Mutators /\ ~overlapped[r]) => Shows(q, entry)
      BY <1>8, <3>1 DEF ReadBack, HonourInv, StoredShowsRequest
    <3> QED BY <1>8, <2>1, <3>2, HonourAnswer DEF ReadBack
  <2> QED BY <1>8, <2>1, HonourAnswer DEF ReadBack
<1> QED BY <1>1, <1>2, <1>3, <1>4, <1>5, <1>6, <1>7, <1>8 DEF Step

\* So does every step of the service.
LEMMA HonourNext == HonourInv /\ [Next]_vars => HonourInv'
<1> SUFFICES ASSUME HonourInv, [Next]_vars PROVE HonourInv'
    OBVIOUS
<1>0. TypeOK' /\ RivalsOverlap'
    BY TypeNext, RivalsNext DEF HonourInv
<1>1. ASSUME NEW r \in Requests, Arrive(r) PROVE HonourInv'
  <2>1. \A o \in Requests \ {r} :
            /\ pc'[o] = pc[o] /\ req'[o] = req[o]
            /\ overlapped[o] => overlapped'[o]
    BY <1>1 DEF Arrive, HonourInv, TypeOK
  <2>2. pc'[r] = "read" \/ (pc'[r] = "readback" /\ req'[r].op = "get")
    BY <1>1 DEF Arrive, HonourInv, TypeOK
  <2> QED BY <1>0, <1>1, <2>1, <2>2, HonourFrame DEF Arrive
<1>2. ASSUME NEW r \in Requests, Step(r) PROVE HonourInv'
    BY <1>0, <1>2, HonourStep
<1>3. ASSUME NEW r \in Requests, Return(r) PROVE HonourInv'
    BY <1>0, <1>3, HonourFrame DEF Return, HonourInv, TypeOK
<1>4. CASE ChannelChange \/ UNCHANGED vars
    BY <1>0, <1>4, HonourFrame DEF ChannelChange, vars, locals, history
<1>5. CASE Restart
    BY <1>0, <1>5, HonourFrame DEF Restart
<1> QED BY <1>1, <1>2, <1>3, <1>4, <1>5 DEF Next

\* What is about to be written is honest in every reachable state.
LEMMA HonourAlways == Spec => []HonourInv
<1>1. Init => HonourInv
    BY TypeInit, RivalsInit DEF Init, HonourInv, DueWritesHonour,
       WritesShowRequest, StoredShowsRequest, RepliesShowOwnWrite
<1> QED BY <1>1, HonourNext, PTL DEF Spec

\* The answer to a mutation that no other one overlapped shows what it stored.
THEOREM RepliesAlwaysShowOwnWrite == Spec => []RepliesShowOwnWrite
<1>1. HonourInv => RepliesShowOwnWrite
    BY DEF HonourInv
<1> QED BY <1>1, HonourAlways, PTL

\* Every HSET does what its request asked for to the entry it replaces, unless
\* another mutation overlapped it or its GET failed.
THEOREM WritesAlwaysHonourRequests == Spec => WritesHonourRequests
<1> DEFINE Honoured(s, r) ==
            /\ pc[r] = "write" /\ req[r].slot = s
            /\ \/ overlapped[r]
               \/ blind[r]
               \/ Honours(req[r], store[s], store'[s])
           HonourStores ==
            \A s \in Slots : store'[s] # store[s] =>
                \E r \in Requests : Honoured(s, r)
<1>1. ASSUME HonourInv, [Next]_vars
      PROVE  HonourStores
  <2> SUFFICES ASSUME NEW s \in Slots, store'[s] # store[s]
               PROVE  \E r \in Requests : Honoured(s, r)
    OBVIOUS
  <2>1. PICK r \in Requests : Store(r)
    BY <1>1 DEF Next, Arrive, Step, CreateRead, SetRead, PatchRead, WriteOk,
       WriteFailed, WriteLost, Publish, PublishLost, ReadBack, Return,
       ChannelChange, Restart, vars
  <2>2. /\ pc[r] = "write" /\ req[r].slot = s
        /\ store'[s] = upd[r]
    BY <1>1, <2>1 DEF Store, HonourInv, TypeOK, Stores
  <2>3. Honoured(s, r)
    BY <1>1, <2>2 DEF HonourInv, DueWritesHonour
  <2> QED BY <2>3
<1>2. HonourInv /\ [Next]_vars => [HonourStores]_vars
    BY <1>1
<1> QED BY <1>2, HonourAlways, PTL DEF Spec, WritesHonourRequests
=============================================================================
