----------------------------- MODULE HmsttTypes -----------------------------
(***************************************************************************)
(* The vocabulary of app/hmstt: what a state is named by, what is stored   *)
(* under that name, and what a request may ask for.                        *)
(*                                                                         *)
(* A state lives in field {key} of the Redis hash of its type, so a slot   *)
(* is a pair <<type, key>>.  UpdatedAt is left out: no decision of the     *)
(* program reads it.                                                       *)
(***************************************************************************)
CONSTANTS
    Types,          \* the state types requests name
    Keys,           \* the keys requests name; "" is a key nobody may use
    Values,         \* the values requests carry, good and bad
    Descriptions,   \* the descriptions requests carry
    None,           \* a nil pointer: the field is not in the request body
    NoEntry         \* what Redis holds for a field that was never set

PREFIX_SWITCH == "switch"
STATE_ON      == "on"
STATE_OFF     == "off"

Slots == Types \X Keys

\* stateEntryJSON, without its timestamp
Entry == [value : Values, description : Descriptions]

Optional(S) == S \cup {None}

ASSUME VocabularyAssumption ==
    /\ "" \in Descriptions
    /\ None \notin Values \cup Descriptions
    /\ NoEntry \notin Entry

\* Mutants: an empty key passes, or a type that is not "switch".
AnyKeyAccepted(slot, value) ==
    slot[1] = PREFIX_SWITCH /\ value \in {STATE_ON, STATE_OFF}

AnyTypeAccepted(slot, value) ==
    slot[2] # "" /\ value \in {STATE_ON, STATE_OFF}

\* The only type the service accepts is "switch", with a key and on or off.
canTypeChangedWithKey(slot, value) ==
    /\ slot[2] # ""
    /\ slot[1] = PREFIX_SWITCH
    /\ value \in {STATE_ON, STATE_OFF}

\* The inputs of the four operations on one state.  A create names both
\* fields, a set may leave the description out, a patch may leave out either.
Mutators == {"create", "set", "patch"}

Input ==
    [op : {"create"}, slot : Slots, value : Values, description : Descriptions]
    \cup
    [op : {"set"}, slot : Slots, value : Values,
                   description : Optional(Descriptions)]
    \cup
    [op : {"patch"}, slot : Slots, value : Optional(Values),
                     description : Optional(Descriptions)]
    \cup
    [op : {"get"}, slot : Slots, value : {None}, description : {None}]

\* The value an entry shows, None where nothing is stored
ValueOf(e) == IF e = NoEntry THEN None ELSE e.value

\* What a device understands: switches with a name, each on or off
Legal(slot, entry) ==
    /\ slot[1] = PREFIX_SWITCH
    /\ slot[2] # ""
    /\ entry.value \in {STATE_ON, STATE_OFF}

WellFormed(entries) ==
    \A s \in Slots : entries[s] # NoEntry => Legal(s, entries[s])

Stores == [Slots -> Entry \cup {NoEntry}]
=============================================================================
