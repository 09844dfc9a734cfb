---------------------------- MODULE DocRegistry ----------------------------
(* The documentation endpoint GET /commands and the registries behind it.   *)
(* A request thread asks every source of the documentation for its flows    *)
(* and then for the field schemas of the types the flows mention.  A source *)
(* keeps these schemas in a LinkedHashMap of its own, shared by all         *)
(* requests without a lock, and the model follows one source:               *)
(*   "kept"    AbstractCommandInvoker: the handler map is built once, under *)
(*             a lock, with the types of commands and their events; each    *)
(*             request then registers the types of external events, outside *)
(*             the lock, in a dtoRegistry that is never cleared             *)
(*   "cleared" DefaultQueryInvoker: getQueryFlow() clears and refills the   *)
(*             registry, a type gets an empty placeholder before its fields *)
(*   "flat"    EntityGraphService, ServiceGraphService, EntityFactory-      *)
(*             Service: cleared too, but a schema is put when complete      *)
(* The copy a request takes is shallow: the schemas in it are the objects   *)
(* of the registry, read when the answer is serialised.                     *)
(*                                                                          *)
(* LinkedHashMap is not made for two threads.  A put during which another   *)
(* thread changes the map leaves any part of the entries in the hash table  *)
(* and any part in the linked list that iteration follows; a copy during    *)
(* which another thread changes the map throws.                             *)
EXTENDS Naturals, Sequences, FiniteSets, SequencesExt

CONSTANTS Threads,
          Styles,       \* the sources that are checked
          Names,        \* readable names of the custom types
          Fields,       \* per type, the types of its fields, Simple for built-in ones
          Simple,
          Roots,        \* the types a request describes itself, in order
          Commands,     \* the commands, in the order of the handler beans
          TypesOf,      \* per command, the types it and its events have fields of
          None,
          MaxRequests   \* bound: requests served

ASSUME DocAssumption ==
  /\ Styles \subseteq {"kept", "cleared", "flat"}
  /\ Simple \notin Names
  /\ Fields \in [Names -> Seq(Names \cup {Simple})]
  /\ Roots \in Seq(Names)
  /\ Commands \in Seq(Range(Commands))
  /\ TypesOf \in [Range(Commands) -> SUBSET Names]
  /\ None \notin Threads \cup Names
  /\ MaxRequests \in Nat

VARIABLES style, duplicate,    \* duplicate: two handlers take the last command
          requests,                                     \* requests so far
          pc, todo, frames, putting, racing, copy, answer,  \* per thread
          overlapped, startedWarm,                            \* history, per thread
          handlerMap, lock, flows,                            \* AbstractCommandInvoker
          schema, table, list, heap                           \* the registry
docVars == <<style, duplicate, requests, pc, todo, frames, putting, racing, copy, answer,
             overlapped, startedWarm, handlerMap, lock, flows,
             schema, table, list, heap>>
gateVars == <<handlerMap, lock, flows>>
registryVars == <<schema, table, list, heap>>
historyVars == <<style, duplicate, requests, overlapped, startedWarm>>

----------------------------------------------------------------------------
(* The names an unhurried scan of some types registers: the least set that  *)
(* holds them and the custom types of its own fields.  The graph services   *)
(* describe a parameter type without a registry: what it refers to is not   *)
(* registered.                                                              *)
CustomFields(n) == IF style = "flat" THEN {} ELSE Range(Fields[n]) \cap Names
Leads(types) ==
  {n \in Names : \A S \in SUBSET Names :
     types \subseteq S /\ (\A m \in S : CustomFields(m) \subseteq S) => n \in S}

(* What an answer should hold: the types of the request's own roots, and of *)
(* the commands and their events where these are registered by the build.   *)
Described == Range(Roots) \cup
             (IF style = "kept" THEN UNION {TypesOf[c] : c \in Range(Commands)} ELSE {})
Expected == Leads(Described)

(* A schema object is the number of its fields that are filled in.          *)
Whole(n) == Len(Fields[n])
Warm == /\ table = Expected /\ list = Expected
        /\ \A n \in Expected : heap[schema[n]] = Whole(n)
        /\ \A t \in Threads : putting[t] = None
Registered == DOMAIN schema

Active(t) == pc[t] # "idle"

(* A put or a copy by t is under way; t is done; a change disturbs what     *)
(* others have under way.                                                   *)
Racing(t) == racing' = [racing EXCEPT ![t] = "calm"]
Disturbing(t) ==
  racing' = [u \in Threads |-> IF u = t THEN "no"
                                ELSE IF racing[u] = "calm" THEN "disturbed" ELSE racing[u]]

----------------------------------------------------------------------------
DocInit ==
  /\ style \in Styles
  /\ duplicate \in (IF style = "kept" THEN BOOLEAN ELSE {FALSE})
  /\ pc = [t \in Threads |-> "idle"]
  /\ requests = 0
  /\ todo = [t \in Threads |-> << >>]
  /\ frames = [t \in Threads |-> << >>]
  /\ putting = [t \in Threads |-> None]
  /\ racing = [t \in Threads |-> "no"]
  /\ copy = [t \in Threads |-> << >>]
  /\ answer = [t \in Threads |-> None]
  /\ overlapped = [t \in Threads |-> FALSE]
  /\ startedWarm = [t \in Threads |-> FALSE]
  /\ handlerMap = "null" /\ lock = None /\ flows = << >>
  /\ schema = << >> /\ table = {} /\ list = {} /\ heap = << >>

(* A request arrives; it overlaps every request that is under way.  What    *)
(* was answered before is forgotten.                                        *)
Request(t) ==
  /\ ~Active(t) /\ requests < MaxRequests
  /\ requests' = requests + 1
  /\ pc' = [pc EXCEPT ![t] = IF style = "kept" THEN "map" ELSE "clear"]
  /\ answer' = [u \in Threads |-> None]
  /\ overlapped' = [u \in Threads |->
       IF u = t THEN \E w \in Threads : Active(w) ELSE Active(u)]
  /\ startedWarm' = [u \in Threads |-> IF u = t THEN Warm ELSE startedWarm[u] /\ Active(u)]
  /\ UNCHANGED <<style, duplicate, todo, frames, putting, racing, copy, gateVars, registryVars>>

Fail(t) == /\ pc' = [pc EXCEPT ![t] = "idle"]
           /\ frames' = [frames EXCEPT ![t] = << >>]
           /\ todo' = [todo EXCEPT ![t] = << >>]

----------------------------------------------------------------------------
(* getHandlerMap(): a read of the volatile field, then again under the lock.*)
ReadMap(t) ==
  /\ pc[t] = "map"
  /\ pc' = [pc EXCEPT ![t] = IF handlerMap = "null" THEN "lock" ELSE "fill"]
  /\ todo' = [todo EXCEPT ![t] = IF handlerMap = "null" THEN << >> ELSE Roots]
  /\ UNCHANGED <<historyVars, frames, putting, racing, copy, answer, gateVars, registryVars>>

Bug_EntersHeldMonitor(t) ==
  /\ pc[t] = "lock"
  /\ lock' = t
  /\ pc' = [pc EXCEPT ![t] = "build"]
  /\ todo' = [todo EXCEPT ![t] = IF handlerMap = "null" THEN Commands ELSE << >>]
  /\ UNCHANGED <<historyVars, frames, putting, racing, copy, answer, handlerMap, flows, registryVars>>

Bug_NoSecondCheck(t) ==
  /\ pc[t] = "lock" /\ lock = None
  /\ lock' = t
  /\ pc' = [pc EXCEPT ![t] = "build"]
  /\ todo' = [todo EXCEPT ![t] = Commands]
  /\ UNCHANGED <<historyVars, frames, putting, racing, copy, answer, handlerMap, flows, registryVars>>

Lock(t) ==
  /\ pc[t] = "lock" /\ lock = None
  /\ lock' = t
  /\ pc' = [pc EXCEPT ![t] = "build"]
  /\ todo' = [todo EXCEPT ![t] = IF handlerMap = "null" THEN Commands ELSE << >>]
  /\ UNCHANGED <<historyVars, frames, putting, racing, copy, answer, handlerMap, flows, registryVars>>

Bug_StaysLocked == lock

Unlocked == None

(* An object that nothing refers to any more is collected.                  *)
Uses(t) == Range(copy[t]) \cup {frames[t][k].obj : k \in DOMAIN frames[t]}
Live == Range(schema) \cup UNION {Uses(t) : t \in Threads}
NewObject == CHOOSE i \in 1..(Cardinality(Live) + 1) : i \notin Live
Allocate(size) ==
  heap' = [i \in Live \cup {NewObject} |-> IF i = NewObject THEN size ELSE heap[i]]

(* buildHandlerMap() registers the types of a command and its events, once: *)
(* no request registers them again.  Each is put whole here.  Nobody is     *)
(* past the gate while a map is built, so its placeholder and the order in  *)
(* which its fields come are not seen, and no put or copy is under way.     *)
RegisterTypes(t) ==
  /\ pc[t] = "build" /\ todo[t] # << >>
  /\ \E n \in Leads(TypesOf[Head(todo[t])]) \ table :
       /\ Allocate(Whole(n))
       /\ table' = table \cup {n} /\ list' = list \cup {n}
       /\ schema' = [m \in table' \cup list' |-> IF m = n THEN NewObject ELSE schema[m]]
  /\ UNCHANGED <<historyVars, pc, todo, frames, putting, racing, copy, answer, gateVars>>

(* Then the flow of the command is listed.  A command that has a handler    *)
(* already throws out of the build: the flows listed so far stay in the     *)
(* list, the field stays null, the monitor is released.                     *)
BuildHandler(t) ==
  /\ pc[t] = "build" /\ todo[t] # << >>
  /\ Leads(TypesOf[Head(todo[t])]) \subseteq table
  /\ flows' = Append(flows, Head(todo[t]))
  /\ todo' = [todo EXCEPT ![t] = Tail(@)]
  /\ UNCHANGED <<historyVars, putting, pc, frames, racing, copy, answer, handlerMap, lock, registryVars>>

BuildFails(t) ==
  /\ pc[t] = "build" /\ todo[t] = << >> /\ handlerMap = "null" /\ duplicate
  /\ lock' = Unlocked
  /\ Fail(t)
  /\ UNCHANGED <<historyVars, putting, racing, copy, answer, handlerMap, flows, registryVars>>

Built(t) ==
  /\ pc[t] = "build" /\ todo[t] = << >> /\ (handlerMap = "null" => ~duplicate)
  /\ handlerMap' = "built"
  /\ lock' = Unlocked
  /\ pc' = [pc EXCEPT ![t] = "fill"]
  /\ todo' = [todo EXCEPT ![t] = Roots]
  /\ UNCHANGED <<historyVars, frames, putting, racing, copy, answer, flows, registryVars>>

----------------------------------------------------------------------------
Bug_NoClear(t) ==
  /\ pc[t] = "clear"
  /\ pc' = [pc EXCEPT ![t] = "fill"]
  /\ todo' = [todo EXCEPT ![t] = Roots]
  /\ UNCHANGED <<historyVars, putting, racing, frames, copy, answer, gateVars, registryVars>>

(* queryDtoRegistry.clear(), entityDtos.clear(), serviceDtos.clear()        *)
Clear(t) ==
  /\ pc[t] = "clear"
  /\ table' = {} /\ list' = {} /\ schema' = << >>
  /\ Disturbing(t)
  /\ pc' = [pc EXCEPT ![t] = "fill"]
  /\ todo' = [todo EXCEPT ![t] = Roots]
  /\ UNCHANGED <<historyVars, putting, frames, copy, answer, gateVars, heap>>

Bug_Reregisters(n) == n \in Names

(* registerCustomType(): nothing for a name the table holds; otherwise a    *)
(* placeholder goes in first, which also ends the recursion on a cycle.     *)
(* The flat registries are given the whole schema instead.                  *)
Unknown(n) == n \in Names \ table
Placeholder(n) == IF style = "flat" THEN Whole(n) ELSE 0
Frame(n, obj) == [name |-> n, obj |-> obj, described |-> FALSE]
Filling(t) == pc[t] = "fill" /\ putting[t] = None

DescribeRoot(t) ==
  /\ Filling(t) /\ frames[t] = << >> /\ todo[t] # << >>
  /\ todo' = [todo EXCEPT ![t] = Tail(@)]
  /\ IF Unknown(Head(todo[t]))
     THEN Racing(t) /\ putting' = [putting EXCEPT ![t] = Head(todo[t])]
     ELSE UNCHANGED <<racing, putting>>
  /\ UNCHANGED <<historyVars, pc, frames, copy, answer, gateVars, registryVars>>

(* put(name, new object) returns; the fields of a placeholder are next.     *)
Put(t) ==
  /\ pc[t] = "fill" /\ putting[t] # None
  /\ LET n == putting[t]
     IN  /\ Allocate(Placeholder(n))
         /\ IF racing[t] = "disturbed"
            THEN table' \in SUBSET (table \cup {n}) /\ list' \in SUBSET (list \cup {n})
            ELSE table' = table \cup {n} /\ list' = list \cup {n}
         /\ schema' = [m \in table' \cup list' |-> IF m = n THEN NewObject ELSE schema[m]]
         /\ frames' = [frames EXCEPT ![t] = Append(@, Frame(n, NewObject))]
  /\ Disturbing(t)
  /\ putting' = [putting EXCEPT ![t] = None]
  /\ UNCHANGED <<historyVars, pc, todo, copy, answer, gateVars>>

TopFrame(t) == Last(frames[t])
FieldsLeft(t) == heap[TopFrame(t).obj] < Whole(TopFrame(t).name)
NextField(t) == Fields[TopFrame(t).name][heap[TopFrame(t).obj] + 1]

(* The next field of the type being registered: its own type comes first.   *)
DescribeField(t) ==
  /\ Filling(t) /\ frames[t] # << >> /\ FieldsLeft(t)
  /\ ~TopFrame(t).described /\ Unknown(NextField(t))
  /\ Racing(t)
  /\ putting' = [putting EXCEPT ![t] = NextField(t)]
  /\ frames' = [frames EXCEPT ![t][Len(frames[t])].described = TRUE]
  /\ UNCHANGED <<historyVars, pc, todo, copy, answer, gateVars, registryVars>>

(* nested.put(field, description), or the end of the registration.          *)
PutField(t) ==
  /\ Filling(t) /\ frames[t] # << >> /\ FieldsLeft(t)
  /\ TopFrame(t).described \/ ~Unknown(NextField(t))
  /\ heap' = [heap EXCEPT ![TopFrame(t).obj] = @ + 1]
  /\ frames' = [frames EXCEPT ![t][Len(frames[t])].described = FALSE]
  /\ UNCHANGED <<historyVars, putting, pc, todo, racing, copy, answer, gateVars, schema, table, list>>

EndOfFields(t) ==
  /\ Filling(t) /\ frames[t] # << >> /\ ~FieldsLeft(t)
  /\ frames' = [frames EXCEPT ![t] = Front(@)]
  /\ UNCHANGED <<historyVars, putting, pc, todo, racing, copy, answer, gateVars, registryVars>>

----------------------------------------------------------------------------
(* new LinkedHashMap<>(registry): walks the list, and throws when the map   *)
(* changes meanwhile.                                                       *)
BeginCopy(t) ==
  /\ Filling(t) /\ frames[t] = << >> /\ todo[t] = << >>
  /\ pc' = [pc EXCEPT ![t] = "copy"]
  /\ Racing(t)
  /\ copy' = [copy EXCEPT ![t] = [n \in list |-> schema[n]]]
  /\ UNCHANGED <<historyVars, putting, todo, frames, answer, gateVars, registryVars>>

EndCopy(t) ==
  /\ pc[t] = "copy"
  /\ racing' = [racing EXCEPT ![t] = "no"]
  /\ IF racing[t] = "disturbed"
     THEN Fail(t) /\ copy' = [copy EXCEPT ![t] = << >>]
     ELSE pc' = [pc EXCEPT ![t] = "answer"] /\ UNCHANGED <<copy, todo, frames>>
  /\ UNCHANGED <<historyVars, putting, answer, gateVars, registryVars>>

(* The answer is written; the shared schemas are read now.                  *)
Answer(t) ==
  /\ pc[t] = "answer"
  /\ answer' = [answer EXCEPT ![t] =
       [dtos |-> [n \in DOMAIN copy[t] |-> heap[copy[t][n]]], flows |-> flows]]
  /\ pc' = [pc EXCEPT ![t] = "idle"]
  /\ copy' = [copy EXCEPT ![t] = << >>]
  /\ UNCHANGED <<historyVars, putting, todo, frames, racing, gateVars, registryVars>>

Handle(t) ==
  \/ ReadMap(t) \/ Lock(t) \/ RegisterTypes(t) \/ BuildHandler(t) \/ BuildFails(t) \/ Built(t)
  \/ Clear(t) \/ DescribeRoot(t) \/ Put(t) \/ DescribeField(t) \/ PutField(t) \/ EndOfFields(t)
  \/ BeginCopy(t) \/ EndCopy(t) \/ Answer(t)

DocNext == \E t \in Threads : Request(t) \/ Handle(t)

(* A servlet container runs the thread of every request it accepted.        *)
DocSpec == DocInit /\ [][DocNext]_docVars /\ \A t \in Threads : WF_docVars(Handle(t))

----------------------------------------------------------------------------
Answered(t) == answer[t] # None
Complete(t) == answer[t].dtos = [n \in Expected |-> Whole(n)]

(* Types of the variables; the monitor is held exactly while a map is built.*)
DocTypeOK ==
  /\ style \in Styles /\ duplicate \in BOOLEAN
  /\ pc \in [Threads -> {"idle", "map", "lock", "build", "clear", "fill", "copy", "answer"}]
  /\ requests \in 0..MaxRequests
  /\ lock \in Threads \cup {None}
  /\ \A t \in Threads : pc[t] = "build" <=> lock = t
  /\ handlerMap \in {"null", "built"}
  /\ Registered = table \cup list /\ Registered \subseteq Names
  /\ \A i \in Live : i \in DOMAIN heap

(* A registry that is cleared heals: whatever overlapping requests and lost *)
(* puts did to it before, a request that nobody overlapped documents every  *)
(* type its flows mention, each with all its fields.                        *)
LoneDocsAreComplete ==
  \A t \in Threads :
    style # "kept" /\ Answered(t) /\ ~overlapped[t] => Complete(t)

(* A registry that is kept is safe once warm: a request that started when   *)
(* every type was registered, and no put was under way, gets all of them,   *)
(* overlapped or not.                                                       *)
WarmDocsAreComplete ==
  \A t \in Threads :
    style = "kept" /\ Answered(t) /\ startedWarm[t] => Complete(t)

(* The list of flows is filled under the lock but read outside it: no       *)
(* answer shows part of it, or the flows a failed build left twice.         *)
ServedFlowsAreWhole ==
  \A t \in Threads : style = "kept" /\ Answered(t) => answer[t].flows = Commands

(* Every request ends, with an answer or an error, also when the build of   *)
(* the handler map throws while other threads wait for its lock.            *)
RequestsEnd == \A t \in Threads : Active(t) ~> ~Active(t)
============================================================================
