----------------------------- MODULE EntityWalk -----------------------------
(* EntityTypeScanner.scanEntityTypes: which entities a command handler      *)
(* saves.  The scanner reads every method of the handler class, follows the *)
(* calls it meets into application code level by level, at most             *)
(* MAX_CALLEE_DEPTH levels deep, and reports each entity saved through a    *)
(* repository of the handler, with the related entities the walked code     *)
(* mentions.                                                                *)
(*                                                                          *)
(* A program is chosen once: per method the methods it calls, the entities  *)
(* it saves, the types it mentions, and how the scanner sees it.            *)
(*   "open"      its bytecode is read when it is reached                    *)
(*   "hidden"    reached, but nothing is read: the body of a lambda (the    *)
(*               compiler marks it synthetic), a method its owner inherits, *)
(*               an abstract one                                            *)
(*   "framework" its owner is skipped, it is never followed                 *)
(* The queue of a level is a set: its order and its duplicates do not       *)
(* change what is collected.                                                *)
EXTENDS Naturals

CONSTANTS Methods,         \* methods of the application and the framework
          HandlerMethods,  \* those the handler class declares (not lambdas)
          Entities,
          Programs,        \* the programs that are walked
          MaxCalleeDepth   \* MAX_CALLEE_DEPTH

Bodies == [calls : SUBSET Methods, saves : SUBSET Entities,
           mentions : SUBSET Entities, seen : {"open", "hidden", "framework"}]
ProgramSet ==
  [body : [Methods -> Bodies],
   repositories : SUBSET Entities,            \* entities of the handler's fields
   related : [Entities -> SUBSET Entities]]   \* JPA associations

ASSUME WalkAssumption ==
  /\ HandlerMethods \subseteq Methods
  /\ MaxCalleeDepth \in Nat
  /\ Programs \subseteq ProgramSet
  /\ \A p \in Programs, m \in HandlerMethods : p.body[m].seen = "open"

VARIABLES program,
          phase,      \* "class", "callees", "done"
          depth,      \* levels finished
          level,      \* callees of this level still in the queue
          nextLevel,  \* callees queued behind them
          scanned,    \* scannedMethodKeys
          read,       \* methods whose instructions were visited (history)
          saved,      \* savedEntityInternalNames
          mentioned,  \* referencedTypeInternalNames
          report      \* the result: per saved entity, its children
walkVars == <<program, phase, depth, level, nextLevel, scanned, read, saved,
              mentioned, report>>

----------------------------------------------------------------------------
Body(m) == program.body[m]
Gathered(ms, Part(_)) == UNION {Part(m) : m \in ms}
SavesSeen(m) == Body(m).saves \cap program.repositories
Mentions(m)  == Body(m).mentions

Bug_FollowsFramework(m) == Body(m).calls

(* visitMethodInsn and visitInvokeDynamicInsn queue a callee unless its     *)
(* owner is skipped.                                                        *)
Followed(m) == {c \in Body(m).calls : Body(c).seen # "framework"}

(* One pass of the class reader over the methods ms.                        *)
Collect(ms) ==
  /\ read' = read \cup ms
  /\ saved' = saved \cup Gathered(ms, SavesSeen)
  /\ mentioned' = mentioned \cup Gathered(ms, Mentions)

Bug_OwnChild(e) == program.related[e] \cap mentioned

(* CascadeEntityResolver.expand                                             *)
Children(e) == (program.related[e] \cap mentioned) \ {e}
Expanded == [e \in saved |-> Children(e)]

MoreLevels == level # {} /\ depth < MaxCalleeDepth

----------------------------------------------------------------------------
WalkInit ==
  /\ program \in Programs
  /\ phase = "class" /\ depth = 0
  /\ level = {} /\ nextLevel = {} /\ scanned = {} /\ read = {}
  /\ saved = {} /\ mentioned = {}
  /\ report = << >>

(* A handler without a repository field is not walked at all.               *)
NothingToWalk ==
  /\ phase = "class" /\ program.repositories = {}
  /\ phase' = "done"
  /\ UNCHANGED <<program, depth, level, nextLevel, scanned, read, saved,
                 mentioned, report>>

(* Every method of the handler class, whether anything calls it or not.     *)
ScanHandlerClass ==
  /\ phase = "class" /\ program.repositories # {}
  /\ phase' = "callees"
  /\ scanned' = HandlerMethods
  /\ Collect(HandlerMethods)
  /\ level' = Gathered(HandlerMethods, Followed)
  /\ UNCHANGED <<program, depth, nextLevel, report>>

Bug_MarksWhenQueued(c) ==
  /\ phase = "callees" /\ depth < MaxCalleeDepth /\ c \in level
  /\ level' = level \ {c}
  /\ LET fresh == {m \in {c} : m \notin scanned /\ Body(m).seen = "open"}
     IN  /\ Collect(fresh)
         /\ nextLevel' = nextLevel \cup Gathered(fresh, Followed)
         /\ scanned' = scanned \cup {c} \cup Gathered(fresh, Followed)
  /\ UNCHANGED <<program, phase, depth, report>>

Bug_Peeks(c) ==
  /\ phase = "callees" /\ depth < MaxCalleeDepth /\ c \in level
  /\ scanned' = scanned \cup {c}
  /\ LET fresh == {m \in {c} : m \notin scanned /\ Body(m).seen = "open"}
     IN  /\ Collect(fresh)
         /\ nextLevel' = nextLevel \cup Gathered(fresh, Followed)
  /\ UNCHANGED <<program, phase, depth, level, report>>

(* Poll one callee of the level: once per method, and only an open method   *)
(* has anything to read.                                                    *)
ScanCallee(c) ==
  /\ phase = "callees" /\ depth < MaxCalleeDepth /\ c \in level
  /\ level' = level \ {c}
  /\ scanned' = scanned \cup {c}
  /\ LET fresh == {m \in {c} : m \notin scanned /\ Body(m).seen = "open"}
     IN  /\ Collect(fresh)
         /\ nextLevel' = nextLevel \cup Gathered(fresh, Followed)
  /\ UNCHANGED <<program, phase, depth, report>>

Bug_LevelNotCounted ==
  /\ phase = "callees" /\ level = {} /\ nextLevel # {} /\ depth < MaxCalleeDepth
  /\ level' = nextLevel
  /\ nextLevel' = {}
  /\ UNCHANGED <<program, phase, depth, scanned, read, saved, mentioned, report>>

(* levelSize callees were polled; the queue now holds the next level.       *)
EndLevel ==
  /\ phase = "callees" /\ level = {} /\ nextLevel # {} /\ depth < MaxCalleeDepth
  /\ level' = nextLevel
  /\ nextLevel' = {}
  /\ depth' = depth + 1
  /\ UNCHANGED <<program, phase, scanned, read, saved, mentioned, report>>

Finish ==
  /\ phase = "callees" /\ ~MoreLevels /\ (nextLevel = {} \/ depth >= MaxCalleeDepth)
  /\ phase' = "done"
  /\ report' = Expanded
  /\ UNCHANGED <<program, depth, level, nextLevel, scanned, read, saved, mentioned>>

WalkNext ==
  \/ NothingToWalk \/ ScanHandlerClass \/ EndLevel \/ Finish
  \/ \E c \in Methods : ScanCallee(c)

WalkSpec == WalkInit /\ [][WalkNext]_walkVars /\ WF_walkVars(WalkNext)

----------------------------------------------------------------------------
(* What the program really does: the least set that holds the handler's     *)
(* methods and is closed under calls.  `Visible' follows only the calls the *)
(* scanner can follow.                                                      *)
Closed(S, Callees(_)) == HandlerMethods \subseteq S /\ \A m \in S : Callees(m) \subseteq S
Reach(Callees(_)) ==
  {m \in Methods : \A S \in SUBSET Methods : Closed(S, Callees) => m \in S}
AllCalls(m) == Body(m).calls
OpenCalls(m) == IF Body(m).seen = "open" THEN Followed(m) ELSE {}
Reachable == Reach(AllCalls)
Visible == {m \in Reach(OpenCalls) : Body(m).seen = "open"}

(* m is at the end of a chain of at most MaxCalleeDepth followed calls.     *)
Near(m) ==
  \E n \in 0..MaxCalleeDepth : \E p \in [0..n -> Methods] :
    /\ p[0] \in HandlerMethods /\ p[n] = m
    /\ \A i \in 0..(n - 1) : p[i + 1] \in OpenCalls(p[i])

----------------------------------------------------------------------------
(* Types of the variables; the queue of the walk holds no framework method. *)
WalkTypeOK ==
  /\ program \in ProgramSet
  /\ phase \in {"class", "callees", "done"}
  /\ depth \in 0..MaxCalleeDepth
  /\ level \subseteq Methods /\ nextLevel \subseteq Methods
  /\ \A m \in level \cup nextLevel : Body(m).seen # "framework"
  /\ scanned \subseteq Methods /\ read \subseteq Methods
  /\ saved \subseteq Entities /\ mentioned \subseteq Entities
  /\ report = << >> \/ report \in [saved -> SUBSET Entities]

(* Nothing is invented.  Whatever the shape of the call graph, cycles       *)
(* included, an entity is reported only if code that the handler can reach  *)
(* saves it through a repository the handler holds, and a child only if     *)
(* reachable code mentions it and it is another entity than the parent.     *)
ReportIsReal ==
  /\ \A e \in saved : \E m \in Reachable :
        e \in Body(m).saves \cap program.repositories
  /\ phase = "done" => \A e \in DOMAIN report : \A c \in report[e] :
        /\ c # e /\ c \in program.related[e]
        /\ \E m \in Reachable : c \in Body(m).mentions

(* The cut is where the constant says: a save at the end of a chain of at   *)
(* most MAX_CALLEE_DEPTH calls is reported however many other chains lead   *)
(* to the method, and one that is farther is not.                           *)
CutAtDepth ==
  phase = "done" /\ program.repositories # {} =>
    read = {m \in Visible : Near(m)} /\ saved = Gathered(read, SavesSeen)

(* When the walk ends because the queue is empty rather than because of the *)
(* cut, every save in open code that the handler reaches is reported.       *)
CompleteUnlessCut ==
  phase = "done" /\ program.repositories # {} /\ level \subseteq scanned =>
    /\ read = Visible
    /\ \A e \in Gathered(Visible, SavesSeen) :
         e \in DOMAIN report
         /\ report[e] = (program.related[e] \cap Gathered(Visible, Mentions)) \ {e}

(* The walk ends: recursion in the walked code does not keep it going.      *)
WalkEnds == <>(phase = "done")
============================================================================
