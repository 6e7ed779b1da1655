----------------------- MODULE HmsttRefinementProofs -----------------------
(***************************************************************************)
(* What HmsttService implements, for any number of requests, slots and     *)
(* values: StateFeed, whatever fails and whatever overlaps; and            *)
(* StateRegistry, where mutations of one slot do not overlap and Redis     *)
(* fails cleanly or not at all.                                            *)
(***************************************************************************)
EXTENDS HmsttServiceProofs

(* The feed.  An HSET maps to the step that stores, a publish to the one that *)
(* tells, a message that is lost, or a process that dies, to the one that     *)
(* drops; everything else stutters.                                           *)

\* The service as the feed sees it: the values stored, and what r has to tell
Shown == [s \in Slots |-> ValueOf(store[s])]

Message(r) ==
    IF pc[r] = "publish" THEN <<req[r].slot, upd[r].value>> ELSE None

Telling == [r \in Requests |-> Message(r)]

\* A step that stores nothing, announces nothing and leaves the messages that
\* are due alone is no step of the feed.
LEMMA FeedStutters ==
    ASSUME UNCHANGED <<store, announced>>,
           \A r \in Requests : Message(r)' = Message(r)
    PROVE  UNCHANGED Feed!vars
<1>1. UNCHANGED Telling
    BY DEF Telling
<1> QED BY <1>1 DEF Feed!vars, Telling, Message

\* A request that is about to tell has a message.
LEMMA MessageIsSomething ==
    ASSUME TypeOK, NEW r \in Requests, pc[r] = "publish"
    PROVE  /\ Telling[r] = <<req[r].slot, upd[r].value>>
           /\ Telling[r] # None
           /\ req[r].slot \in Slots
           /\ upd[r].value \in Values
<1>1. req[r].slot \in Slots /\ upd[r].value \in Values
    BY InputFields DEF TypeOK, Entry
<1> QED BY <1>1, MessageAssumption DEF Telling, Message

\* An HSET shows the value of its entry.
LEMMA StoreShows ==
    ASSUME TypeOK, NEW r \in Requests, Store(r)
    PROVE  /\ req[r].slot \in Slots
           /\ upd[r].value \in Values
           /\ Shown' = [Shown EXCEPT ![req[r].slot] = upd[r].value]
<1>1. req[r].slot \in Slots /\ upd[r] \in Entry
    BY InputFields DEF TypeOK, Store
<1>2. store' = [store EXCEPT ![req[r].slot] = upd[r]] /\ store \in Stores
    BY DEF Store, TypeOK
<1>3. upd[r].value \in Values /\ ValueOf(upd[r]) = upd[r].value
    BY <1>1, VocabularyAssumption DEF Entry, ValueOf
<1>4. \A s \in Slots : ValueOf(store'[s]) =
                IF s = req[r].slot THEN upd[r].value ELSE ValueOf(store[s])
    BY <1>1, <1>2, <1>3 DEF Stores
<1>5. Shown' = [s \in Slots |-> ValueOf(store'[s])]
    BY DEF Shown, ValueOf
<1> QED BY <1>1, <1>3, <1>4, <1>5 DEF Shown

\* The initial states of the service are those of the feed.
LEMMA FeedInit == Init => Feed!Init
<1> SUFFICES ASSUME Init PROVE Feed!Init
    OBVIOUS
<1>1. Shown \in [Slots -> Values \cup {None}]
    BY DEF Init, Shown, ValueOf, Stores, Entry
<1>2. announced = Shown
    BY DEF Init, Shown
<1>3. Telling = [r \in Requests |-> None]
    BY DEF Init, Telling, Message
<1> QED BY <1>1, <1>2, <1>3 DEF Feed!Init, Shown, Telling, Message

\* Storing a value, to tell of it or not, is a step of the feed.
LEMMA FeedStores ==
    ASSUME NEW w \in Requests, NEW n \in Slots, NEW v \in Values,
           Feed!StoreToTell(w, n, v) \/ Feed!StoreInSilence(w, n, v)
    PROVE  Feed!Next
    BY DEF Feed!Next

\* Every step of a request is a step of the feed, or stutters.
LEMMA FeedStep ==
    ASSUME TypeOK, TypeOK', NEW r \in Requests, Step(r)
    PROVE  [Feed!Next]_Feed!vars
<1>1. \A o \in Requests \ {r} : Message(o)' = Message(o)
    BY StepFrame DEF Message
<1>2. CASE CreateRead(r) \/ SetRead(r) \/ PatchRead(r) \/ WriteFailed(r) \/ ReadBack(r)
  <2>1. UNCHANGED <<store, announced>> /\ pc[r] # "publish" /\ pc'[r] # "publish"
    BY <1>2 DEF CreateRead, SetRead, PatchRead, WriteFailed, ReadBack, Answer,
       GoWrite, TypeOK
  <2>2. Message(r)' = Message(r)
    BY <2>1 DEF Message
  <2> QED BY <1>1, <2>1, <2>2, FeedStutters
<1>3. CASE Store(r)
  <2>0. PICK slot \in Slots, value \in Values :
            slot = req[r].slot /\ value = upd[r].value
    BY <1>3, StoreShows
  <2>1. /\ Shown' = [Shown EXCEPT ![slot] = value]
        /\ UNCHANGED announced
        /\ pc[r] = "write" /\ Telling[r] = None
    BY <1>3, <2>0, StoreShows DEF Store, Telling, Message
  <2>2. CASE pc'[r] = "publish" /\ upd'[r] = upd[r]
    <3>1. Message(r)' = <<slot, value>>
      BY <1>3, <2>0, <2>2 DEF Store, Message
    <3>2. Telling' = [Telling EXCEPT ![r] = <<slot, value>>]
      BY <1>1, <3>1 DEF Telling
    <3>3. Feed!StoreToTell(r, slot, value)
      BY <2>1, <3>2 DEF Feed!StoreToTell, Shown, Telling, Message
    <3> QED BY <3>3, FeedStores
  <2>3. CASE pc'[r] # "publish"
    <3>1. Message(r)' = Message(r)
      BY <2>1, <2>3 DEF Message
    <3>2. UNCHANGED Telling
      BY <1>1, <3>1 DEF Telling
    <3>3. Feed!StoreInSilence(r, slot, value)
      BY <2>1, <3>2 DEF Feed!StoreInSilence, Shown, Telling, Message
    <3> QED BY <3>3, FeedStores
  <2>4. pc'[r] = "publish" => upd'[r] = upd[r]
    BY <1>3 DEF Step, Store, CreateRead, SetRead, PatchRead, WriteOk, WriteFailed,
       WriteLost, Publish, PublishLost, ReadBack, Answer, TypeOK
  <2> QED BY <2>2, <2>3, <2>4
<1>4. CASE Publish(r)
  <2>1. /\ pc[r] = "publish" /\ pc'[r] # "publish"
        /\ announced' = [announced EXCEPT ![req[r].slot] = upd[r].value]
        /\ UNCHANGED store
    BY <1>4 DEF Publish, TypeOK
  <2>2. Telling[r] = <<req[r].slot, upd[r].value>> /\ Telling[r] # None
    BY <2>1, MessageIsSomething
  <2>3. Telling' = [Telling EXCEPT ![r] = None]
    BY <1>1, <2>1 DEF Telling, Message
  <2>4. UNCHANGED Shown
    BY <2>1 DEF Shown, ValueOf
  <2>5. Feed!Tell(r)
    BY <2>1, <2>2, <2>3, <2>4 DEF Feed!Tell, Shown, Telling, Message
  <2> QED BY <2>5 DEF Feed!Next
<1>5. CASE PublishLost(r)
  <2>1. /\ pc[r] = "publish" /\ pc'[r] # "publish"
        /\ UNCHANGED <<store, announced>>
    BY <1>5 DEF PublishLost, TypeOK
  <2>2. Telling[r] # None
    BY <2>1, MessageIsSomething
  <2>3. Telling' = [o \in Requests |-> IF o \in {r} THEN None ELSE Telling[o]]
    BY <1>1, <2>1 DEF Telling, Message
  <2>4. UNCHANGED Shown
    BY <2>1 DEF Shown, ValueOf
  <2>5. Feed!Drop({r})
    BY <2>1, <2>2, <2>3, <2>4 DEF Feed!Drop, Shown, Telling, Message
  <2> QED BY <2>5 DEF Feed!Next
<1>6. WriteOk(r) \/ WriteLost(r) => Store(r)
    BY DEF WriteOk, WriteLost
<1> QED BY <1>2, <1>3, <1>4, <1>5, <1>6 DEF Step

\* A restart drops every message that was due.
LEMMA FeedRestart ==
    ASSUME TypeOK, Restart
    PROVE  [Feed!Next]_Feed!vars
<1>1. UNCHANGED <<store, announced>>
    BY DEF Restart
<1>2. \A r \in Requests : Message(r)' = None
    BY DEF Restart, Message
<1>3. CASE \A r \in Requests : pc[r] # "publish"
    BY <1>1, <1>2, <1>3, FeedStutters DEF Message
<1>4. CASE \E r \in Requests : pc[r] = "publish"
  <2>1. \E r \in Requests : Telling[r] # None
    BY <1>4, MessageIsSomething
  <2>2. Telling' = [r \in Requests |-> IF r \in Requests THEN None ELSE Telling[r]]
    BY <1>2 DEF Telling
  <2>3. UNCHANGED Shown
    BY <1>1 DEF Shown, ValueOf
  <2>4. Feed!Drop(Requests)
    BY <1>1, <2>1, <2>2, <2>3 DEF Feed!Drop, Shown, Telling, Message
  <2> QED BY <2>4 DEF Feed!Next
<1> QED BY <1>3, <1>4

\* Every step of the service is a step of the feed, or stutters.
LEMMA FeedNext == TypeOK /\ [Next]_vars => [Feed!Next]_Feed!vars
<1> SUFFICES ASSUME TypeOK, [Next]_vars PROVE [Feed!Next]_Feed!vars
    OBVIOUS
<1>0. TypeOK'
    BY TypeNext
<1>1. ASSUME NEW r \in Requests, Arrive(r) \/ Return(r)
      PROVE  [Feed!Next]_Feed!vars
  <2>1. /\ UNCHANGED <<store, announced, upd>>
        /\ pc[r] # "publish" /\ pc'[r] # "publish"
        /\ \A o \in Requests \ {r} : pc'[o] = pc[o] /\ req'[o] = req[o]
    BY <1>1 DEF Arrive, Return, TypeOK
  <2>2. \A o \in Requests : Message(o)' = Message(o)
    BY <2>1 DEF Message
  <2> QED BY <2>1, <2>2, FeedStutters
<1>2. ASSUME NEW r \in Requests, Step(r) PROVE [Feed!Next]_Feed!vars
    BY <1>0, <1>2, FeedStep
<1>3. CASE ChannelChange \/ UNCHANGED vars
    BY <1>3, FeedStutters DEF ChannelChange, vars, locals, Message
<1>4. CASE Restart
    BY <1>4, FeedRestart
<1> QED BY <1>1, <1>2, <1>3, <1>4 DEF Next

\* The service implements the feed: whatever overlaps, fails or dies, every
\* message tells of a value its sender has stored before, and tells it once.
THEOREM ServiceImplementsFeed == Spec => ImplementsFeed
<1>1. Spec => []TypeOK
    BY TypeCorrect
<1> QED BY <1>1, FeedInit, FeedNext, PTL DEF Spec, ImplementsFeed, Feed!Spec
-----------------------------------------------------------------------------
(* The registry.  Each operation takes effect at one instant, a mutation at   *)
(* its HSET, and every change is announced.                                   *)

\* The registry as the service shows it
Outcome == [r \in Requests |-> OutcomeOf(r)]
ShownEntries == [r \in Requests |-> ShownBy(r)]

\* o has the answer it had.
AnswerStays(o) == OutcomeOf(o)' = OutcomeOf(o) /\ ShownBy(o)' = ShownBy(o)

\* The registry's vocabulary is the service's.
LEMMA SameVocabulary ==
    /\ Registry!Slots = Slots
    /\ Registry!Input = Input
    /\ Registry!Mutators = Mutators
    /\ Registry!Stores = Stores
    /\ \A e : Registry!ValueOf(e) = ValueOf(e)
    /\ \A slot, value :
            Registry!canTypeChangedWithKey(slot, value)
                <=> canTypeChangedWithKey(slot, value)
<1>1. Registry!Slots = Slots /\ Registry!Mutators = Mutators
    BY DEF Registry!Slots, Slots, Registry!Mutators, Mutators
<1>2. Registry!Input = Input
    BY <1>1 DEF Registry!Input, Input, Registry!Optional, Optional
<1>3. Registry!Stores = Stores
    BY <1>1 DEF Registry!Stores, Stores, Registry!Entry, Entry
<1>4. \A e : Registry!ValueOf(e) = ValueOf(e)
    BY DEF Registry!ValueOf, ValueOf
<1>5. \A slot, value : Registry!canTypeChangedWithKey(slot, value)
                            <=> canTypeChangedWithKey(slot, value)
    BY DEF Registry!canTypeChangedWithKey, canTypeChangedWithKey,
       Registry!PREFIX_SWITCH, PREFIX_SWITCH, Registry!STATE_ON, STATE_ON,
       Registry!STATE_OFF, STATE_OFF
<1> QED BY <1>1, <1>2, <1>3, <1>4, <1>5
-----------------------------------------------------------------------------
(* The invariant: what is about to be stored is what the registry would make *)
(* of what is stored, which nobody else can change meanwhile.                *)

NobodyOverlaps == \A r \in Requests : ~overlapped[r]

WritesAreDue ==
    \A r \in Requests : pc[r] = "write" =>
        LET e == store[req[r].slot] IN
        /\ Registry!Verdict(req[r], e) = "ok"
        /\ upd[r] = Registry!Updated(req[r], e)

StatesStay ==
    \A r \in Requests :
        pc[r] \in {"publish", "readback"} /\ req[r].op \in Mutators
        => store[req[r].slot] = upd[r] /\ upd[r] # NoEntry

RegistryInv ==
    /\ AgreeInv
    /\ channel # "closed"
    /\ unsynced = {}
    /\ NobodyOverlaps
    /\ WritesAreDue
    /\ StatesStay

\* At first nothing is in flight.
LEMMA RegistryInvInit == Init => RegistryInv
<1>1. Init => AgreeInv
    BY TypeInit, RivalsInit DEF Init, AgreeInv, SilentWritesKeepValues,
       MessagesAreCurrent, SubscribersAgree
<1> QED BY <1>1 DEF Init, RegistryInv, NobodyOverlaps, WritesAreDue, StatesStay

\* Without that fault a GET yields what is stored.
LEMMA HGetHonest ==
    ASSUME Faults \subseteq {"set_failed", "flow"}, NEW slot, NEW current \in HGet(slot)
    PROVE  current = store[slot]
    BY DEF HGet

\* A request that moves on without writing leaves due what is due.
LEMMA RegistryFrame ==
    ASSUME RegistryInv, AgreeInv', UNCHANGED <<store, unsynced>>,
           channel' # "closed", NobodyOverlaps',
           \A r \in Requests :
                \/ pc'[r] = pc[r] /\ req'[r] = req[r] /\ upd'[r] = upd[r]
                \/ pc'[r] \in {"idle", "read", "done"}
                \/ pc'[r] = "readback" /\ req'[r].op \notin Mutators
                \/ /\ pc'[r] = "readback" /\ pc[r] = "publish"
                   /\ req'[r] = req[r] /\ upd'[r] = upd[r]
    PROVE  RegistryInv'
<1> USE DEF RegistryInv
<1>1. WritesAreDue'
    BY DEF WritesAreDue
<1>2. StatesStay'
    BY DEF StatesStay
<1> QED BY <1>1, <1>2

\* A decision to write is due when it is what the registry would do.
LEMMA RegistryGoWrite ==
    ASSUME RegistryInv, AgreeInv', NEW r \in Requests, Step(r), NEW current, NEW e,
           NEW valueChanged, GoWrite(r, current, e, valueChanged),
           UNCHANGED <<store, channel, unsynced>>,
           Registry!Verdict(req[r], store[req[r].slot]) = "ok",
           e = Registry!Updated(req[r], store[req[r].slot])
    PROVE  RegistryInv'
<1> USE DEF RegistryInv
<1>1. /\ pc'[r] = "write" /\ upd'[r] = e /\ UNCHANGED <<req, overlapped>>
      /\ \A o \in Requests \ {r} : pc'[o] = pc[o] /\ upd'[o] = upd[o]
    BY StepFrame DEF GoWrite, AgreeInv, TypeOK
<1>2. WritesAreDue'
    BY <1>1 DEF WritesAreDue
<1>3. StatesStay'
    BY <1>1 DEF StatesStay
<1> QED BY <1>1, <1>2, <1>3 DEF NobodyOverlaps

\* An HSET disturbs nobody: no other mutation of its slot is in flight.
LEMMA RegistryStore ==
    ASSUME RegistryInv, AgreeInv', NEW r \in Requests, WriteOk(r)
    PROVE  RegistryInv'
<1> USE DEF RegistryInv
<1>1. /\ pc[r] = "write" /\ pc'[r] \in {"publish", "readback"}
      /\ UNCHANGED <<req, upd, overlapped, channel>>
      /\ unsynced' = {}
      /\ req[r] \in Input /\ req[r].slot \in Slots /\ req[r].op \in Mutators
      /\ upd[r] \in Entry
      /\ store' = [store EXCEPT ![req[r].slot] = upd[r]] /\ store \in Stores
      /\ \A o \in Requests \ {r} : pc'[o] = pc[o]
    BY InputFields DEF WriteOk, Store, AgreeInv, TypeOK, NobodyOverlaps
<1>2. store'[req[r].slot] = upd[r] /\ upd[r] # NoEntry
    BY <1>1, VocabularyAssumption DEF Stores
<1>3. ASSUME NEW o \in Requests \ {r}, pc[o] \in {"write", "publish", "readback"},
             req[o].op \in Mutators
      PROVE  store'[req[o].slot] = store[req[o].slot]
  <2>1. req[o].slot # req[r].slot
    BY <1>1, <1>3 DEF AgreeInv, RivalsOverlap, NobodyOverlaps, Mutates, InFlight
  <2> QED BY <1>1, <2>1 DEF Stores
<1>4. WritesAreDue'
    BY <1>1, <1>3 DEF WritesAreDue, AgreeInv, TypeOK
<1>5. StatesStay'
    BY <1>1, <1>2, <1>3 DEF StatesStay
<1> QED BY <1>1, <1>4, <1>5 DEF NobodyOverlaps

\* An answer leaves the registry as it was.
LEMMA RegistryAnswer ==
    ASSUME RegistryInv, AgreeInv', NEW r \in Requests, Step(r),
           NEW result, NEW entry, Answer(r, result, entry),
           UNCHANGED <<store, channel, unsynced>>
    PROVE  RegistryInv'
<1>1. /\ pc'[r] = "done" /\ UNCHANGED <<req, overlapped>>
      /\ \A o \in Requests \ {r} : pc'[o] = pc[o] /\ upd'[o] = upd[o]
    BY StepFrame DEF Answer, RegistryInv, AgreeInv, TypeOK
<1>2. NobodyOverlaps'
    BY <1>1 DEF RegistryInv, NobodyOverlaps
<1>3. channel' # "closed"
    BY DEF RegistryInv
<1> QED BY <1>1, <1>2, <1>3, RegistryFrame

\* Every step of a request keeps the invariant.
LEMMA RegistryStep ==
    ASSUME Faults \subseteq {"set_failed", "flow"}, RegistryInv, AgreeInv',
           NEW r \in Requests, Step(r)
    PROVE  RegistryInv'
<1> DEFINE q == req[r]
           slot == q.slot
<1>0. q \in Input /\ channel # "closed" /\ unsynced = {} /\ TypeOK
    BY StepFrame DEF RegistryInv, AgreeInv, TypeOK, InFlight
<1>1. CASE CreateRead(r)
  <2>1. CASE Answer(r, "invalid", NoEntry) \/ Answer(r, "exists", NoEntry)
    BY <1>1, <2>1, RegistryAnswer DEF CreateRead
  <2>2. ASSUME canTypeChangedWithKey(slot, q.value), NoEntry \in HGet(slot),
               GoWrite(r, NoEntry, [value |-> q.value,
                                    description |-> q.description], TRUE)
        PROVE  RegistryInv'
    <3>1. store[slot] = NoEntry
      BY <2>2, HGetHonest
    <3>2. q.value # None /\ q.description # None /\ q.op = "create"
      BY <1>0, <1>1, InputFields, VocabularyAssumption DEF CreateRead
    <3>3. Registry!Verdict(q, store[slot]) = "ok"
      BY <2>2, <3>1, <3>2, SameVocabulary DEF Registry!Verdict
    <3>4. [value |-> q.value, description |-> q.description]
                = Registry!Updated(q, store[slot])
      BY <3>2 DEF Registry!Updated
    <3> QED BY <1>1, <2>2, <3>3, <3>4, RegistryGoWrite DEF CreateRead
  <2> QED BY <1>1, <2>1, <2>2 DEF CreateRead
<1>2. CASE SetRead(r)
  <2>1. CASE Answer(r, "invalid", NoEntry)
    BY <1>2, <2>1, RegistryAnswer DEF SetRead
  <2>2. ASSUME canTypeChangedWithKey(slot, q.value), NEW current \in HGet(slot),
               GoWrite(r, current,
                       [value |-> q.value,
                        description |-> SetDescription(current, q.description)],
                       ValueChanged(current, q.value))
        PROVE  RegistryInv'
    <3>1. current = store[slot]
      BY HGetHonest
    <3>2. q.value # None /\ q.op = "set"
      BY <1>0, <1>2, InputFields, VocabularyAssumption DEF SetRead
    <3>3. Registry!Verdict(q, store[slot]) = "ok"
      BY <2>2, <3>2, SameVocabulary DEF Registry!Verdict
    <3>4. [value |-> q.value,
           description |-> SetDescription(current, q.description)]
                = Registry!Updated(q, store[slot])
      BY <3>1, <3>2 DEF Registry!Updated, SetDescription
    <3> QED BY <1>2, <2>2, <3>3, <3>4, RegistryGoWrite DEF SetRead
  <2> QED BY <1>2, <2>1, <2>2 DEF SetRead
<1>3. CASE PatchRead(r)
  <2>1. CASE \/ Answer(r, "nothing", NoEntry)
             \/ Answer(r, "notfound", NoEntry)
             \/ Answer(r, "invalid", NoEntry)
    BY <1>3, <2>1, RegistryAnswer DEF PatchRead
  <2>2. ASSUME q.value # None \/ q.description # None,
               NEW current \in HGet(slot), current # NoEntry,
               q.value # None => canTypeChangedWithKey(slot, q.value),
               GoWrite(r, current, Patched(current, q),
                       q.value # None /\ ValueChanged(current, q.value))
        PROVE  RegistryInv'
    <3>1. current = store[slot]
      BY HGetHonest
    <3>3. Registry!Verdict(q, store[slot]) = "ok"
      BY <1>3, <2>2, <3>1, SameVocabulary DEF Registry!Verdict, PatchRead
    <3>4. Patched(current, q) = Registry!Updated(q, store[slot])
      BY <2>2, <3>1 DEF Registry!Updated, Patched
    <3> QED BY <1>3, <2>2, <3>3, <3>4, RegistryGoWrite DEF PatchRead
  <2> QED BY <1>3, <2>1, <2>2 DEF PatchRead
<1>4. CASE WriteOk(r)
    BY <1>4, RegistryStore
<1>5. CASE WriteFailed(r)
    BY <1>5, RegistryAnswer DEF WriteFailed
<1>6. CASE ReadBack(r)
    BY <1>6, RegistryAnswer DEF ReadBack
<1>7. CASE Publish(r)
  <2>1. /\ pc[r] = "publish" /\ pc'[r] = "readback" /\ unsynced' = {}
        /\ UNCHANGED <<store, channel, req, upd, overlapped>>
        /\ \A o \in Requests \ {r} : pc'[o] = pc[o]
    BY <1>0, <1>7 DEF Publish, TypeOK
  <2>2. NobodyOverlaps'
    BY <2>1 DEF RegistryInv, NobodyOverlaps
  <2> QED BY <1>0, <2>1, <2>2, RegistryFrame
<1>8. ~WriteLost(r) /\ ~PublishLost(r)
    BY <1>0 DEF WriteLost, PublishLost, MessageLost, LostOnTheWay
<1> QED BY <1>1, <1>2, <1>3, <1>4, <1>5, <1>6, <1>7, <1>8 DEF Step

\* A request arrives where no other mutates its slot, so that nobody overlaps.
LEMMA RegistryArrive ==
    ASSUME ~Overlap, RegistryInv, AgreeInv', NEW r \in Requests, Arrive(r)
    PROVE  RegistryInv'
<1>1. TypeOK
    BY DEF RegistryInv, AgreeInv
<1>2. PICK q \in Input :
            /\ Rivals(r, q) = {}
            /\ req' = [req EXCEPT ![r] = q]
            /\ pc' = [pc EXCEPT ![r] = IF q.op = "get" THEN "readback" ELSE "read"]
            /\ overlapped' = [o \in Requests |->
                    IF o = r THEN Rivals(r, q) # {}
                    ELSE overlapped[o] \/ o \in Rivals(r, q)]
    BY DEF Arrive
<1>3. NobodyOverlaps'
    BY <1>2 DEF RegistryInv, NobodyOverlaps
<1>4. /\ req'[r] = q
      /\ pc'[r] = IF q.op = "get" THEN "readback" ELSE "read"
      /\ \A o \in Requests \ {r} : pc'[o] = pc[o] /\ req'[o] = req[o]
    BY <1>1, <1>2 DEF TypeOK
<1>5. UNCHANGED <<store, channel, unsynced, upd>>
    BY DEF Arrive
<1>6. "get" \notin Mutators
    BY DEF Mutators
<1>7. channel' # "closed"
    BY <1>5 DEF RegistryInv
<1> QED BY <1>3, <1>4, <1>5, <1>6, <1>7, RegistryFrame

\* So does every step of a service that fails cleanly or not at all.
LEMMA RegistryInvNext ==
    ASSUME ~Overlap, Faults \subseteq {"set_failed", "flow"}, RegistryInv, [Next]_vars
    PROVE  RegistryInv'
<1>0. AgreeInv' /\ TypeOK
    BY AgreeNext DEF RegistryInv, AgreeInv
<1>1. ASSUME NEW r \in Requests, Arrive(r) PROVE RegistryInv'
    BY <1>0, <1>1, RegistryArrive
<1>2. ASSUME NEW r \in Requests, Step(r) PROVE RegistryInv'
    BY <1>0, <1>2, RegistryStep
<1>3. ASSUME NEW r \in Requests, Return(r) PROVE RegistryInv'
  <2>1. /\ pc'[r] = "idle" /\ UNCHANGED <<store, channel, unsynced, upd>>
        /\ \A o \in Requests \ {r} : pc'[o] = pc[o] /\ req'[o] = req[o]
    BY <1>0, <1>3 DEF Return, TypeOK
  <2>2. NobodyOverlaps'
    BY <1>0, <1>3 DEF Return, RegistryInv, NobodyOverlaps, TypeOK
  <2>3. channel' # "closed"
    BY <2>1 DEF RegistryInv
  <2> QED BY <1>0, <2>1, <2>2, <2>3, RegistryFrame
<1>4. CASE ChannelChange \/ UNCHANGED vars
  <2>1. NobodyOverlaps'
    BY <1>4 DEF ChannelChange, vars, history, RegistryInv, NobodyOverlaps
  <2>2. channel' # "closed"
    BY <1>4 DEF ChannelChange, ChannelClose, ChannelBlock, ChannelUnblock, vars,
       RegistryInv
  <2> QED BY <1>0, <1>4, <2>1, <2>2, RegistryFrame
             DEF ChannelChange, vars, locals, history
<1>5. ~Restart
    BY DEF Restart
<1> QED BY <1>1, <1>2, <1>3, <1>4, <1>5 DEF Next
-----------------------------------------------------------------------------
(* The simulation. *)

\* Subscribers know everything, but for what is about to be published.
LEMMA EverythingAnnounced ==
    RegistryInv => AnnouncedWithStore = [s \in Slots |-> ValueOf(store[s])]
<1> SUFFICES ASSUME RegistryInv, NEW s \in Slots
             PROVE  (IF \E r \in Requests : pc[r] = "publish" /\ req[r].slot = s
                     THEN store[s].value ELSE announced[s]) = ValueOf(store[s])
    BY DEF AnnouncedWithStore
<1>1. ASSUME NEW r \in Requests, pc[r] = "publish", req[r].slot = s
      PROVE  store[s].value = ValueOf(store[s])
  <2>1. store[s] = upd[r] /\ upd[r] \in Entry
    BY <1>1 DEF RegistryInv, AgreeInv, MessagesAreCurrent, NobodyOverlaps, TypeOK
  <2> QED BY <2>1, VocabularyAssumption DEF ValueOf
<1> QED BY <1>1 DEF RegistryInv, AgreeInv, SubscribersAgree

\* The same of the state after a step
LEMMA EverythingAnnouncedNext ==
    RegistryInv' => AnnouncedWithStore' = [s \in Slots |-> ValueOf(store'[s])]
<1>1. AnnouncedWithStore' = [s \in Slots |->
            IF \E r \in Requests : pc'[r] = "publish" /\ req'[r].slot = s
            THEN store'[s].value ELSE announced'[s]]
    BY DEF AnnouncedWithStore
<1> SUFFICES ASSUME RegistryInv', NEW s \in Slots
             PROVE  (IF \E r \in Requests : pc'[r] = "publish" /\ req'[r].slot = s
                     THEN store'[s].value ELSE announced'[s]) = ValueOf(store'[s])
    BY <1>1
<1>2. ASSUME NEW r \in Requests, pc'[r] = "publish", req'[r].slot = s
      PROVE  store'[s].value = ValueOf(store'[s])
  <2>1. store'[s] = upd'[r] /\ upd'[r] \in Entry
    BY <1>2 DEF RegistryInv, AgreeInv, MessagesAreCurrent, NobodyOverlaps, TypeOK
  <2> QED BY <2>1, VocabularyAssumption DEF ValueOf
<1>3. (\A r \in Requests : ~(pc'[r] = "publish" /\ req'[r].slot = s))
            => announced'[s] = ValueOf(store'[s])
    BY DEF RegistryInv, AgreeInv, SubscribersAgree, ValueOf
<1> QED BY <1>2, <1>3

\* Where nothing is stored the announcements stay as they are.
LEMMA SameStoreSameNews ==
    ASSUME RegistryInv, RegistryInv', UNCHANGED store
    PROVE  UNCHANGED AnnouncedWithStore
    BY EverythingAnnounced, EverythingAnnouncedNext

\* The answer as the registry gives it
LEMMA OutcomeIs ==
    ASSUME NEW r \in Requests
    PROVE  /\ pc[r] = "idle" => OutcomeOf(r) = "none"
           /\ pc[r] \in {"read", "write"} => OutcomeOf(r) = "pending"
           /\ pc[r] = "publish" => OutcomeOf(r) = "ok"
           /\ pc[r] = "readback" =>
                    OutcomeOf(r) = IF req[r].op = "get" THEN "pending" ELSE "ok"
           /\ pc[r] = "done" =>
                    OutcomeOf(r) = IF reply[r].result = "setfailed" THEN "failed"
                                   ELSE reply[r].result
    BY DEF OutcomeOf

\* The same of the state after a step
LEMMA OutcomeNext ==
    ASSUME NEW r \in Requests
    PROVE  /\ pc'[r] = "idle" => OutcomeOf(r)' = "none"
           /\ pc'[r] \in {"read", "write"} => OutcomeOf(r)' = "pending"
           /\ pc'[r] = "publish" => OutcomeOf(r)' = "ok"
           /\ pc'[r] = "readback" =>
                    OutcomeOf(r)' = IF req'[r].op = "get" THEN "pending" ELSE "ok"
           /\ pc'[r] = "done" =>
                    OutcomeOf(r)' = IF reply'[r].result = "setfailed" THEN "failed"
                                    ELSE reply'[r].result
    BY DEF OutcomeOf

\* What the answer shows
LEMMA ShownIs ==
    ASSUME NEW r \in Requests
    PROVE  /\ pc[r] \in {"idle", "read", "write"} => ShownBy(r) = NoEntry
           /\ pc[r] \in {"publish", "readback"} =>
                    ShownBy(r) = IF req[r].op = "get" THEN NoEntry ELSE upd[r]
           /\ pc[r] = "done" => ShownBy(r) = reply[r].entry
    BY DEF ShownBy

\* The same of the state after a step
LEMMA ShownNext ==
    ASSUME NEW r \in Requests
    PROVE  /\ pc'[r] \in {"idle", "read", "write"} => ShownBy(r)' = NoEntry
           /\ pc'[r] \in {"publish", "readback"} =>
                    ShownBy(r)' = IF req'[r].op = "get" THEN NoEntry ELSE upd'[r]
           /\ pc'[r] = "done" => ShownBy(r)' = reply'[r].entry
    BY DEF ShownBy

\* A request whose locals stay keeps its answer.
LEMMA OutcomeStays ==
    ASSUME NEW r \in Requests, pc'[r] = pc[r], req'[r] = req[r],
           reply'[r] = reply[r], upd'[r] = upd[r]
    PROVE  AnswerStays(r)
    BY DEF OutcomeOf, ShownBy, AnswerStays

\* A step that stores nothing and answers nobody is none of the registry's.
LEMMA RegistryStutters ==
    ASSUME RegistryInv, RegistryInv', UNCHANGED <<store, req>>,
           \A r \in Requests : AnswerStays(r)
    PROVE  UNCHANGED Registry!vars
<1>1. UNCHANGED <<Outcome, ShownEntries>>
    BY DEF Outcome, ShownEntries, AnswerStays
<1> QED BY <1>1, SameStoreSameNews DEF Registry!vars, Outcome, ShownEntries

\* A refusal, and the answer to a get, take effect when they are decided.
LEMMA RegistryAnswers ==
    ASSUME RegistryInv, RegistryInv', NEW r \in Requests, NEW v,
           UNCHANGED <<store, req>>,
           OutcomeOf(r) = "pending", OutcomeOf(r)' = v,
           ShownBy(r)' = IF v = "ok" THEN store[req[r].slot] ELSE NoEntry,
           \A o \in Requests \ {r} : AnswerStays(o),
           Registry!Verdict(req[r], store[req[r].slot]) = v,
           v # "ok" \/ req[r].op = "get"
    PROVE  Registry!Next
<1>1. /\ Outcome[r] = "pending" /\ Outcome' = [Outcome EXCEPT ![r] = v]
      /\ ShownEntries' = [ShownEntries EXCEPT ![r] = ShownBy(r)']
    BY DEF Outcome, ShownEntries, AnswerStays
<1>2. UNCHANGED AnnouncedWithStore
    BY SameStoreSameNews
<1>3. ~(v = "ok" /\ req[r].op \in Registry!Mutators)
    BY SameVocabulary DEF Mutators
<1>4. Registry!Perform(r)
    BY <1>1, <1>2, <1>3 DEF Registry!Perform, Outcome, ShownEntries
<1> QED BY <1>4 DEF Registry!Next

\* A mutation takes effect at its HSET.
LEMMA RegistryWrites ==
    ASSUME RegistryInv, RegistryInv', NEW r \in Requests, WriteOk(r)
    PROVE  Registry!Next
<1> DEFINE slot == req[r].slot
           entry == Registry!Updated(req[r], store[slot])
<1>1. /\ pc[r] = "write" /\ pc'[r] \in {"publish", "readback"}
      /\ UNCHANGED <<req, reply>>
      /\ req[r] \in Input /\ slot \in Slots /\ req[r].op \in Mutators
      /\ upd[r] \in Entry
      /\ store' = [store EXCEPT ![slot] = upd[r]] /\ store \in Stores
      /\ store'[slot] = upd[r] /\ upd'[r] = upd[r]
      /\ \A o \in Requests \ {r} : pc'[o] = pc[o] /\ upd'[o] = upd[o]
    BY InputFields DEF WriteOk, Store, RegistryInv, AgreeInv, TypeOK, Stores
<1>2. upd[r] = entry /\ Registry!Verdict(req[r], store[slot]) = "ok"
    BY <1>1 DEF RegistryInv, WritesAreDue
<1>3. OutcomeOf(r) = "pending" /\ OutcomeOf(r)' = "ok" /\ ShownBy(r)' = store'[slot]
    BY <1>1, OutcomeIs, OutcomeNext, ShownNext DEF Mutators
<1>4. \A o \in Requests \ {r} : AnswerStays(o)
    BY <1>1, OutcomeStays
<1>5. /\ Outcome[r] = "pending" /\ Outcome' = [Outcome EXCEPT ![r] = "ok"]
      /\ ShownEntries' = [ShownEntries EXCEPT ![r] = store'[slot]]
    BY <1>3, <1>4 DEF Outcome, ShownEntries, AnswerStays
<1>6. ValueOf(upd[r]) = upd[r].value
    BY <1>1, VocabularyAssumption DEF ValueOf
<1>7. \A s \in Slots : ValueOf(store'[s]) =
                IF s = slot THEN upd[r].value ELSE ValueOf(store[s])
    BY <1>1, <1>6 DEF Stores
<1>8. AnnouncedWithStore' = [AnnouncedWithStore EXCEPT ![slot] = upd[r].value]
    BY <1>1, <1>7, EverythingAnnounced, EverythingAnnouncedNext
<1>9. req[r].op \in Registry!Mutators
    BY <1>1, SameVocabulary
<1>10. Registry!Perform(r)
    BY <1>1, <1>2, <1>5, <1>8, <1>9 DEF Registry!Perform, Outcome, ShownEntries
<1> QED BY <1>10 DEF Registry!Next

\* A refused HSET is a failure of the registry.
LEMMA RegistryFails ==
    ASSUME RegistryInv, RegistryInv', NEW r \in Requests, WriteFailed(r)
    PROVE  Registry!Next
<1>1. /\ pc[r] = "write" /\ pc'[r] = "done" /\ reply'[r].result = "setfailed"
      /\ UNCHANGED <<store, req>>
      /\ req[r].op \in Mutators
      /\ reply'[r].entry = NoEntry
      /\ \A o \in Requests \ {r} :
            pc'[o] = pc[o] /\ reply'[o] = reply[o] /\ upd'[o] = upd[o]
    BY DEF WriteFailed, Answer, RegistryInv, AgreeInv, TypeOK
<1>6. \A o \in Requests \ {r} : AnswerStays(o)
    BY <1>1, OutcomeStays
<1>7. /\ OutcomeOf(r) = "pending" /\ OutcomeOf(r)' = "failed"
      /\ ShownBy(r)' = ShownBy(r)
    BY <1>1, OutcomeIs, OutcomeNext, ShownIs, ShownNext
<1>2. /\ Outcome[r] = "pending" /\ Outcome' = [Outcome EXCEPT ![r] = "failed"]
      /\ UNCHANGED ShownEntries
    BY <1>6, <1>7 DEF Outcome, ShownEntries, AnswerStays
<1>3. UNCHANGED AnnouncedWithStore
    BY <1>1, SameStoreSameNews
<1>4. /\ req[r].op \in Registry!Mutators
      /\ Registry!Verdict(req[r], store[req[r].slot]) = "ok"
    BY <1>1, SameVocabulary DEF RegistryInv, WritesAreDue
<1>5. Registry!Fail(r)
    BY <1>1, <1>2, <1>3, <1>4 DEF Registry!Fail, Outcome, ShownEntries
<1> QED BY <1>5 DEF Registry!Next

\* The first read of a mutation takes effect if it decides the answer.
LEMMA RegistryReads ==
    ASSUME Faults \subseteq {"set_failed", "flow"}, RegistryInv, RegistryInv',
           NEW r \in Requests, CreateRead(r) \/ SetRead(r) \/ PatchRead(r)
    PROVE  Registry!Next \/ UNCHANGED Registry!vars
<1> DEFINE q == req[r]
           Refused(result) ==
                /\ Answer(r, result, NoEntry)
                /\ result \notin {"ok", "setfailed"}
                /\ Registry!Verdict(q, store[q.slot]) = result
<1>1. /\ pc[r] = "read" /\ UNCHANGED <<store, req>> /\ TypeOK
      /\ Step(r)
    BY DEF CreateRead, SetRead, PatchRead, RegistryInv, AgreeInv, Step
<1>2. \A o \in Requests \ {r} : AnswerStays(o)
    BY <1>1, StepFrame, OutcomeStays
<1>3. OutcomeOf(r) = "pending"
    BY <1>1, OutcomeIs
<1>4. ASSUME NEW result, Refused(result)
      PROVE  Registry!Next
  <2>1. OutcomeOf(r)' = result /\ ShownBy(r)' = NoEntry
    BY <1>1, <1>4, OutcomeNext, ShownNext DEF Answer, TypeOK
  <2> QED BY <1>1, <1>2, <1>3, <1>4, <2>1, RegistryAnswers
<1>5. ASSUME pc'[r] = "write"
      PROVE  UNCHANGED Registry!vars
  <2>1. AnswerStays(r)
    BY <1>1, <1>3, <1>5, OutcomeNext, ShownIs, ShownNext DEF AnswerStays
  <2> QED BY <1>1, <1>2, <2>1, RegistryStutters
<1>6. CASE CreateRead(r)
  <2>1. CASE Answer(r, "invalid", NoEntry) /\ ~canTypeChangedWithKey(q.slot, q.value)
    BY <1>4, <1>6, <2>1, SameVocabulary DEF CreateRead, Registry!Verdict
  <2>2. ASSUME canTypeChangedWithKey(q.slot, q.value), NEW current \in HGet(q.slot),
               current # NoEntry, Answer(r, "exists", NoEntry)
        PROVE  Registry!Next
    BY <1>4, <1>6, <2>2, SameVocabulary, HGetHonest DEF CreateRead, Registry!Verdict
  <2>3. pc'[r] = "write" \/ Answer(r, "invalid", NoEntry) \/ Answer(r, "exists", NoEntry)
    BY <1>1, <1>6 DEF CreateRead, GoWrite, TypeOK
  <2> QED BY <1>1, <1>5, <1>6, <2>1, <2>2 DEF CreateRead, GoWrite, TypeOK
<1>7. CASE SetRead(r)
  <2>1. CASE Answer(r, "invalid", NoEntry) /\ ~canTypeChangedWithKey(q.slot, q.value)
    BY <1>4, <1>7, <2>1, SameVocabulary DEF SetRead, Registry!Verdict
  <2> QED BY <1>1, <1>5, <1>7, <2>1 DEF SetRead, GoWrite, TypeOK
<1>8. CASE PatchRead(r)
  <2>1. CASE Answer(r, "nothing", NoEntry) /\ q.value = None /\ q.description = None
    BY <1>4, <1>8, <2>1 DEF PatchRead, Registry!Verdict
  <2>2. ASSUME q.value # None \/ q.description # None, NEW current \in HGet(q.slot),
               current = NoEntry, Answer(r, "notfound", NoEntry)
        PROVE  Registry!Next
    BY <1>4, <1>8, <2>2, HGetHonest DEF PatchRead, Registry!Verdict
  <2>3. ASSUME q.value # None \/ q.description # None, NEW current \in HGet(q.slot),
               current # NoEntry, q.value # None,
               ~canTypeChangedWithKey(q.slot, q.value), Answer(r, "invalid", NoEntry)
        PROVE  Registry!Next
    BY <1>4, <1>8, <2>3, SameVocabulary, HGetHonest DEF PatchRead, Registry!Verdict
  <2> QED BY <1>1, <1>5, <1>8, <2>1, <2>2, <2>3 DEF PatchRead, GoWrite, TypeOK
<1> QED BY <1>6, <1>7, <1>8

\* The last read is the whole of a get, and no step of a mutation.
LEMMA RegistryReadsBack ==
    ASSUME Faults \subseteq {"set_failed", "flow"}, RegistryInv, RegistryInv',
           NEW r \in Requests, ReadBack(r)
    PROVE  Registry!Next \/ UNCHANGED Registry!vars
<1> DEFINE slot == req[r].slot
<1>1. /\ pc[r] = "readback" /\ UNCHANGED <<store, req>> /\ TypeOK
      /\ req[r] \in Input /\ Step(r)
    BY DEF ReadBack, RegistryInv, AgreeInv, TypeOK, Step
<1>2. \A o \in Requests \ {r} : AnswerStays(o)
    BY <1>1, StepFrame, OutcomeStays
<1>3. PICK result :
            /\ pc'[r] = "done" /\ reply'[r].result = result
            /\ reply'[r].entry = store[slot]
            /\ result = IF store[slot] # NoEntry THEN "ok"
                        ELSE IF req[r].op = "get" THEN "notfound" ELSE "readfailed"
    BY <1>1, HGetHonest DEF ReadBack, Answer, TypeOK
<1>4. OutcomeOf(r)' = result /\ ShownBy(r)' = store[slot]
    BY <1>3, OutcomeNext, ShownNext
<1>5. CASE req[r].op = "get"
  <2>1. OutcomeOf(r) = "pending"
    BY <1>1, <1>5, OutcomeIs
  <2>2. Registry!Verdict(req[r], store[slot]) = result
    BY <1>3, <1>5 DEF Registry!Verdict
  <2> QED BY <1>1, <1>2, <1>3, <1>4, <1>5, <2>1, <2>2, RegistryAnswers
<1>6. CASE req[r].op # "get"
  <2>1. req[r].op \in Mutators
    BY <1>1, <1>6, InputFields
  <2>2. result = "ok"
    BY <1>1, <1>3, <2>1 DEF RegistryInv, StatesStay
  <2>3. OutcomeOf(r) = "ok" /\ ShownBy(r) = store[slot]
    BY <1>1, <1>6, <2>1, OutcomeIs, ShownIs DEF RegistryInv, StatesStay
  <2>4. AnswerStays(r)
    BY <1>4, <2>2, <2>3 DEF AnswerStays
  <2> QED BY <1>1, <1>2, <2>4, RegistryStutters
<1> QED BY <1>5, <1>6

\* Every step of the service is a step of the registry, or stutters.
LEMMA RegistryNext ==
    ASSUME ~Overlap, Faults \subseteq {"set_failed", "flow"}, RegistryInv, [Next]_vars
    PROVE  [Registry!Next]_Registry!vars
<1>0. RegistryInv' /\ TypeOK
    BY RegistryInvNext DEF RegistryInv, AgreeInv
<1>1. ASSUME NEW r \in Requests, Arrive(r) PROVE Registry!Next
  <2>1. PICK q \in Input :
            /\ req' = [req EXCEPT ![r] = q]
            /\ pc' = [pc EXCEPT ![r] = IF q.op = "get" THEN "readback" ELSE "read"]
    BY <1>1 DEF Arrive
  <2>2. pc[r] = "idle" /\ UNCHANGED <<store, reply, upd>>
    BY <1>1 DEF Arrive
  <2>3. /\ OutcomeOf(r) = "none" /\ OutcomeOf(r)' = "pending"
        /\ ShownBy(r)' = ShownBy(r)
    BY <1>0, <2>1, <2>2, OutcomeIs, OutcomeNext, ShownIs, ShownNext DEF TypeOK
  <2>4. \A o \in Requests \ {r} : AnswerStays(o)
    BY <1>0, <2>1, <2>2, OutcomeStays DEF TypeOK
  <2>5. /\ Outcome[r] = "none" /\ Outcome' = [Outcome EXCEPT ![r] = "pending"]
        /\ UNCHANGED ShownEntries
    BY <2>3, <2>4 DEF Outcome, ShownEntries, AnswerStays
  <2>6. UNCHANGED AnnouncedWithStore
    BY <1>0, <2>2, SameStoreSameNews
  <2>7. q \in Registry!Input
    BY SameVocabulary
  <2>8. Registry!Invoke(r)
    BY <2>1, <2>2, <2>5, <2>6, <2>7 DEF Registry!Invoke, Outcome, ShownEntries
  <2> QED BY <2>8 DEF Registry!Next
<1>2. ASSUME NEW r \in Requests, Step(r) PROVE [Registry!Next]_Registry!vars
  <2>1. CASE Publish(r)
    <3>1. /\ pc[r] = "publish" /\ pc'[r] = "readback"
          /\ UNCHANGED <<store, req, reply, upd>>
          /\ req[r].op # "get" /\ \A o \in Requests \ {r} : pc'[o] = pc[o]
      BY <1>0, <2>1 DEF Publish, TypeOK, Mutators
    <3>2. \A o \in Requests : AnswerStays(o)
      BY <3>1, OutcomeIs, OutcomeNext, ShownIs, ShownNext, OutcomeStays
         DEF AnswerStays
    <3> QED BY <1>0, <3>1, <3>2, RegistryStutters
  <2>2. ~WriteLost(r) /\ ~PublishLost(r)
    BY DEF WriteLost, PublishLost, MessageLost, LostOnTheWay, RegistryInv
  <2> QED BY <1>0, <1>2, <2>1, <2>2, RegistryReads, RegistryReadsBack,
             RegistryWrites, RegistryFails DEF Step
<1>3. ASSUME NEW r \in Requests, Return(r) PROVE Registry!Next
  <2>1. /\ pc[r] = "done" /\ pc'[r] = "idle" /\ UNCHANGED store
        /\ req' = [req EXCEPT ![r] = None]
        /\ \A o \in Requests \ {r} :
                /\ pc'[o] = pc[o] /\ req'[o] = req[o]
                /\ reply'[o] = reply[o] /\ upd'[o] = upd[o]
        /\ reply[r].result \in Results
    BY <1>0, <1>3 DEF Return, TypeOK, Reply
  <2>2. /\ OutcomeOf(r) \notin {"none", "pending"} /\ OutcomeOf(r)' = "none"
        /\ ShownBy(r)' = NoEntry
    BY <2>1, OutcomeIs, OutcomeNext, ShownNext DEF Results
  <2>3. \A o \in Requests \ {r} : AnswerStays(o)
    BY <2>1, OutcomeStays
  <2>4. /\ Outcome[r] \notin {"none", "pending"}
        /\ Outcome' = [Outcome EXCEPT ![r] = "none"]
        /\ ShownEntries' = [ShownEntries EXCEPT ![r] = NoEntry]
    BY <2>2, <2>3 DEF Outcome, ShownEntries, AnswerStays
  <2>5. UNCHANGED AnnouncedWithStore
    BY <1>0, <2>1, SameStoreSameNews
  <2>6. Registry!Return(r)
    BY <2>1, <2>4, <2>5 DEF Registry!Return, Outcome, ShownEntries
  <2> QED BY <2>6 DEF Registry!Next
<1>4. CASE ChannelChange \/ UNCHANGED vars
  <2>1. UNCHANGED <<store, req, pc, reply, upd>>
    BY <1>4 DEF ChannelChange, vars, locals
  <2>2. \A o \in Requests : AnswerStays(o)
    BY <2>1, OutcomeStays
  <2> QED BY <1>0, <2>1, <2>2, RegistryStutters
<1>5. ~Restart
    BY DEF Restart
<1> QED BY <1>1, <1>2, <1>3, <1>4, <1>5 DEF Next

\* The service starts as the registry does.
LEMMA RegistryInit == Init => Registry!Init
<1> SUFFICES ASSUME Init PROVE Registry!Init
    OBVIOUS
<1>1. AnnouncedWithStore = [s \in Slots |-> ValueOf(store[s])]
    BY RegistryInvInit, EverythingAnnounced
<1>2. /\ Outcome = [r \in Requests |-> "none"]
      /\ ShownEntries = [r \in Requests |-> NoEntry]
    BY OutcomeIs, ShownIs DEF Init, Outcome, ShownEntries
<1>3. store \in Registry!Stores /\ Registry!WellFormed(store)
    BY SameVocabulary DEF Init, WellFormed, Registry!WellFormed, Legal,
       Registry!Legal, Registry!PREFIX_SWITCH, PREFIX_SWITCH,
       Registry!STATE_ON, STATE_ON, Registry!STATE_OFF, STATE_OFF
<1> QED BY <1>1, <1>2, <1>3, SameVocabulary DEF Init, Registry!Init, Outcome, ShownEntries

\* Where mutations of a slot do not overlap and Redis fails cleanly or not at
\* all, the service implements the registry: create, set, patch and get are
\* atomic, show what they stored or found, and every change is announced.
THEOREM ServiceImplementsRegistry ==
    ASSUME ~Overlap, Faults \subseteq {"set_failed", "flow"}
    PROVE  Spec => ImplementsRegistry
<1>1. Spec => []RegistryInv
    BY RegistryInvInit, RegistryInvNext, PTL DEF Spec
<1> QED BY <1>1, RegistryInit, RegistryNext, PTL
        DEF Spec, ImplementsRegistry, Registry!Spec
=============================================================================
