-------------------------- MODULE EntityWalkProofs --------------------------
(* For every program, whatever its call graph: the walk reports nothing     *)
(* that the handler cannot do, and misses nothing it can see unless it was  *)
(* cut by the depth.  The argument is one inductive invariant, WalkInv:     *)
(* what was read can be reached, what was read was collected, and what was  *)
(* called by what was read was scanned or is in the queue.  Where exactly   *)
(* the depth cuts it needs the distance of everything in the queue, Levels. *)
EXTENDS EntityWalk, TLAPS

(* Everything scanned that can be read was read, and its calls were queued. *)
Frontier ==
  /\ \A m \in scanned : Body(m).seen = "open" => m \in read
  /\ \A m \in read : Followed(m) \subseteq scanned \cup level \cup nextLevel
  /\ HandlerMethods \subseteq scanned

Collected ==
  /\ saved = Gathered(read, SavesSeen)
  /\ mentioned = Gathered(read, Mentions)

(* Only what the scanner can follow, hence only what the handler can reach. *)
Legitimate ==
  /\ read \subseteq Visible
  /\ level \cup nextLevel \subseteq Reach(OpenCalls)

Reported ==
  /\ phase # "done" => report = << >>
  /\ phase = "done" =>
       \/ program.repositories = {} /\ report = << >> /\ saved = {}
       \/ program.repositories # {} /\ report = Expanded

WalkInv ==
  /\ WalkTypeOK
  /\ program \in Programs
  /\ Collected
  /\ Legitimate
  /\ Reported
  /\ phase = "class" => scanned = {} /\ read = {} /\ level = {} /\ nextLevel = {}
  /\ phase = "callees" => Frontier /\ program.repositories # {}
  /\ phase = "done" /\ program.repositories # {} => Frontier /\ nextLevel = {}
  /\ phase = "done" /\ program.repositories # {} => level = {} \/ depth = MaxCalleeDepth
  /\ depth = MaxCalleeDepth => nextLevel = {}

----------------------------------------------------------------------------
(* Reach is closed under the calls it follows and holds the handler.        *)
LEMMA OpenReachIsClosed ==
  ASSUME WalkTypeOK
  PROVE  /\ HandlerMethods \subseteq Reach(OpenCalls)
         /\ \A m \in Reach(OpenCalls) : OpenCalls(m) \subseteq Reach(OpenCalls)
         /\ Reach(OpenCalls) \subseteq Methods
<1>1. \A m \in Methods : OpenCalls(m) \subseteq Methods
  BY DEF OpenCalls, Followed, Body, WalkTypeOK, ProgramSet, Bodies
<1> QED
  BY <1>1, WalkAssumption DEF Reach, Closed

LEMMA AllReachIsClosed ==
  ASSUME WalkTypeOK
  PROVE  /\ HandlerMethods \subseteq Reachable
         /\ \A m \in Reachable : AllCalls(m) \subseteq Reachable
         /\ Reachable \subseteq Methods
<1>1. \A m \in Methods : AllCalls(m) \subseteq Methods
  BY DEF AllCalls, Body, WalkTypeOK, ProgramSet, Bodies
<1> QED
  BY <1>1, WalkAssumption DEF Reachable, Reach, Closed

(* What the scanner follows the program can do.                             *)
LEMMA VisibleIsReachable ==
  ASSUME WalkTypeOK
  PROVE  Visible \subseteq Reachable
<1>1. \A m \in Methods : OpenCalls(m) \subseteq AllCalls(m)
  BY DEF OpenCalls, AllCalls, Followed
<1>2. \A S \in SUBSET Methods : Closed(S, AllCalls) => Closed(S, OpenCalls)
  BY <1>1 DEF Closed
<1> QED
  BY <1>2 DEF Visible, Reachable, Reach

(* Any set that holds the handler and what it follows holds all of it.      *)
LEMMA OpenReachIsLeast ==
  ASSUME NEW S \in SUBSET Methods, HandlerMethods \subseteq S,
         \A m \in S : OpenCalls(m) \subseteq S
  PROVE  Reach(OpenCalls) \subseteq S
  BY DEF Reach, Closed

(* The program does not change, nor does what it reaches.                   *)
LEMMA SameProgram ==
  ASSUME program' = program
  PROVE  /\ Visible' = Visible
         /\ Reach(OpenCalls)' = Reach(OpenCalls)
         /\ \A m : Body(m)' = Body(m) /\ Followed(m)' = Followed(m)
  BY DEF Visible, Reach, Closed, OpenCalls, Followed, Body

(* One pass of the class reader keeps types and keeps what is collected.    *)
LEMMA CollectKeeps ==
  ASSUME NEW ms \in SUBSET Methods, WalkTypeOK, Collected, program' = program, Collect(ms)
  PROVE  /\ read' \subseteq Methods /\ saved' \subseteq Entities /\ mentioned' \subseteq Entities
         /\ read' = read \cup ms
         /\ Collected'
<1>1. \A m \in Methods : SavesSeen(m) \subseteq Entities /\ Mentions(m) \subseteq Entities
  BY DEF SavesSeen, Mentions, Body, WalkTypeOK, ProgramSet, Bodies
<1>2. read' \subseteq Methods /\ saved' \subseteq Entities /\ mentioned' \subseteq Entities
  BY <1>1 DEF Collect, WalkTypeOK, Gathered
<1>3. Collected'
  BY DEF Collect, Collected, Gathered, SavesSeen, Mentions, Body
<1> QED
  BY <1>2, <1>3 DEF Collect

LEMMA FollowedAreMethods ==
  ASSUME WalkTypeOK, NEW m \in Methods
  PROVE  /\ Followed(m) \subseteq Methods
         /\ \A c \in Followed(m) : Body(c).seen # "framework"
         /\ Body(m).seen = "open" => Followed(m) = OpenCalls(m)
  BY DEF Followed, OpenCalls, Body, WalkTypeOK, ProgramSet, Bodies

LEMMA WalkInitInv == WalkInit => WalkInv
<1> SUFFICES ASSUME WalkInit PROVE WalkInv
  OBVIOUS
<1>1. WalkTypeOK
  BY WalkAssumption DEF WalkInit, WalkTypeOK
<1>2. Collected
  BY DEF WalkInit, Collected, Gathered
<1> QED
  BY <1>1, <1>2, WalkAssumption DEF WalkInit, WalkInv, Legitimate, Reported

----------------------------------------------------------------------------
LEMMA NothingToWalkInv == WalkInv /\ NothingToWalk => WalkInv'
<1> SUFFICES ASSUME WalkInv, NothingToWalk PROVE WalkInv'
  OBVIOUS
<1>1. WalkTypeOK'
  BY DEF WalkInv, NothingToWalk, WalkTypeOK, Body
<1>2. Collected'
  BY DEF WalkInv, NothingToWalk, Collected, Gathered, SavesSeen, Mentions, Body
<1>3. saved = {}
  BY DEF WalkInv, NothingToWalk, Collected, Gathered
<1>4. Legitimate'
  BY SameProgram DEF WalkInv, NothingToWalk, Legitimate
<1> QED
  BY <1>1, <1>2, <1>3, <1>4 DEF WalkInv, NothingToWalk, Reported

LEMMA ScanHandlerClassInv == WalkInv /\ ScanHandlerClass => WalkInv'
<1> SUFFICES ASSUME WalkInv, ScanHandlerClass PROVE WalkInv'
  OBVIOUS
<1>1. program' = program /\ HandlerMethods \subseteq Methods
  BY WalkAssumption DEF ScanHandlerClass
<1>2. /\ read' \subseteq Methods /\ saved' \subseteq Entities /\ mentioned' \subseteq Entities
      /\ read' = HandlerMethods
      /\ Collected'
  BY <1>1, CollectKeeps DEF ScanHandlerClass, WalkInv
<1>3. \A m \in HandlerMethods : Body(m).seen = "open"
  BY WalkAssumption DEF Body, WalkInv
<1>4. level' = Gathered(HandlerMethods, OpenCalls)
  BY <1>1, <1>3, FollowedAreMethods DEF ScanHandlerClass, Gathered, WalkInv
<1>5. /\ HandlerMethods \subseteq Visible
      /\ level' \subseteq Reach(OpenCalls)
  BY <1>3, <1>4, OpenReachIsClosed DEF Gathered, Visible, WalkInv
<1>6. /\ level' \subseteq Methods
      /\ \A m \in level' : Body(m).seen # "framework"
      /\ \A m \in HandlerMethods : Followed(m) \subseteq level'
  BY <1>1, FollowedAreMethods DEF ScanHandlerClass, Gathered, WalkInv
<1>7. WalkTypeOK'
  BY <1>1, <1>2, <1>6, SameProgram DEF ScanHandlerClass, WalkInv, WalkTypeOK, Reported
<1>8. Legitimate'
  BY <1>1, <1>2, <1>5, SameProgram DEF ScanHandlerClass, WalkInv, Legitimate
<1>9. Frontier'
  BY <1>1, <1>2, <1>6, SameProgram DEF ScanHandlerClass, Frontier, WalkInv
<1>10. Reported'
  BY DEF ScanHandlerClass, Reported, WalkInv
<1> QED
  BY <1>1, <1>2, <1>7, <1>8, <1>9, <1>10 DEF ScanHandlerClass, WalkInv

LEMMA ScanCalleeInv ==
  ASSUME WalkInv, NEW c \in Methods, ScanCallee(c)
  PROVE  WalkInv'
<1> DEFINE fresh == {m \in {c} : m \notin scanned /\ Body(m).seen = "open"}
<1>1. /\ program' = program /\ fresh \subseteq Methods
      /\ c \in level /\ c \in Reach(OpenCalls)
      /\ \A m \in fresh : m = c /\ Body(m).seen = "open"
      /\ c \notin scanned /\ Body(c).seen = "open" => c \in fresh
  BY DEF ScanCallee, WalkInv, Legitimate
<1>2. Collect(fresh) /\ nextLevel' = nextLevel \cup Gathered(fresh, Followed)
  BY DEF ScanCallee
<1> HIDE DEF fresh
<1>3. /\ read' \subseteq Methods /\ saved' \subseteq Entities /\ mentioned' \subseteq Entities
      /\ read' = read \cup fresh
      /\ Collected'
  BY <1>1, <1>2, CollectKeeps DEF WalkInv
<1>4. \A m \in fresh : /\ Followed(m) = OpenCalls(m)
                       /\ Followed(m) \subseteq Methods
                       /\ \A x \in Followed(m) : Body(x).seen # "framework"
  BY <1>1, FollowedAreMethods DEF WalkInv
<1>5. /\ fresh \subseteq Visible
      /\ nextLevel' \subseteq Reach(OpenCalls)
  BY <1>1, <1>2, <1>4, OpenReachIsClosed DEF Gathered, Visible, WalkInv, Legitimate
<1>6. /\ nextLevel' \subseteq Methods
      /\ \A m \in nextLevel' : Body(m).seen # "framework"
      /\ \A m \in fresh : Followed(m) \subseteq nextLevel'
      /\ nextLevel \subseteq nextLevel'
  BY <1>1, <1>2, <1>4 DEF Gathered, WalkInv, WalkTypeOK
<1>7. WalkTypeOK'
  BY <1>1, <1>3, <1>6, SameProgram DEF ScanCallee, WalkInv, WalkTypeOK, Reported
<1>8. Legitimate'
  BY <1>1, <1>3, <1>5, SameProgram DEF ScanCallee, WalkInv, Legitimate
<1>9. Frontier'
  <2>1. Frontier /\ level' = level \ {c} /\ scanned' = scanned \cup {c}
    BY DEF ScanCallee, WalkInv
  <2>2. \A m \in scanned' : Body(m).seen = "open" => m \in read'
    BY <1>1, <1>3, <2>1 DEF Frontier
  <2>3. \A m \in read' : Followed(m) \subseteq scanned' \cup level' \cup nextLevel'
    BY <1>3, <1>6, <2>1 DEF Frontier
  <2> QED
    BY <1>1, <2>1, <2>2, <2>3, SameProgram DEF Frontier
<1>10. /\ Reported' /\ program.repositories # {}
       /\ phase' = "callees" /\ depth' # MaxCalleeDepth
  BY WalkAssumption DEF ScanCallee, Reported, WalkInv, WalkTypeOK
<1> QED
  BY <1>1, <1>3, <1>7, <1>8, <1>9, <1>10 DEF WalkInv

LEMMA EndLevelInv == WalkInv /\ EndLevel => WalkInv'
<1> SUFFICES ASSUME WalkInv, EndLevel PROVE WalkInv'
  OBVIOUS
<1>1. program' = program
  BY DEF EndLevel
<1>2. WalkTypeOK'
  BY <1>1, SameProgram, WalkAssumption DEF EndLevel, WalkInv, WalkTypeOK
<1>3. Legitimate' /\ Collected'
  BY <1>1, SameProgram
  DEF EndLevel, WalkInv, Legitimate, Collected, Gathered, SavesSeen, Mentions, Body
<1>4. Frontier'
  BY <1>1, SameProgram DEF EndLevel, WalkInv, Frontier
<1> QED
  BY <1>1, <1>2, <1>3, <1>4 DEF EndLevel, WalkInv, Reported

LEMMA FinishInv == WalkInv /\ Finish => WalkInv'
<1> SUFFICES ASSUME WalkInv, Finish PROVE WalkInv'
  OBVIOUS
<1>1. program' = program /\ program.repositories # {}
  BY DEF Finish, WalkInv
<1>2. \A e \in saved : Children(e) \subseteq Entities
  BY DEF Children, WalkInv, WalkTypeOK
<1>3. WalkTypeOK'
  BY <1>1, <1>2, SameProgram DEF Finish, WalkInv, WalkTypeOK, Expanded
<1>4. Legitimate' /\ Collected'
  BY <1>1, SameProgram
  DEF Finish, WalkInv, Legitimate, Collected, Gathered, SavesSeen, Mentions, Body
<1>5. Frontier'
  BY <1>1, SameProgram DEF Finish, WalkInv, Frontier
<1>6. Reported'
  BY <1>1 DEF Finish, Reported, Expanded, Children
<1>7. nextLevel = {} /\ (level = {} \/ depth = MaxCalleeDepth)
  BY WalkAssumption DEF Finish, MoreLevels, WalkInv, WalkTypeOK
<1> QED
  BY <1>1, <1>3, <1>4, <1>5, <1>6, <1>7 DEF Finish, WalkInv

LEMMA WalkNextInv == WalkInv /\ [WalkNext]_walkVars => WalkInv'
<1> SUFFICES ASSUME WalkInv, [WalkNext]_walkVars PROVE WalkInv'
  OBVIOUS
<1>1. CASE WalkNext
  BY <1>1, NothingToWalkInv, ScanHandlerClassInv, ScanCalleeInv, EndLevelInv, FinishInv
  DEF WalkNext
<1>2. CASE UNCHANGED walkVars
  BY <1>2, SameProgram
  DEF walkVars, WalkInv, WalkTypeOK, Collected, Legitimate, Frontier, Reported, Expanded,
      Children, Gathered, SavesSeen, Mentions, Body
<1> QED
  BY <1>1, <1>2

----------------------------------------------------------------------------
LEMMA WalkInvIsReal == WalkInv => ReportIsReal
<1> SUFFICES ASSUME WalkInv PROVE ReportIsReal
  OBVIOUS
<1>1. read \subseteq Reachable
  BY VisibleIsReachable DEF WalkInv, Legitimate
<1>2. \A e \in saved : \E m \in Reachable : e \in Body(m).saves \cap program.repositories
  BY <1>1 DEF WalkInv, Collected, Gathered, SavesSeen
<1>3. \A e \in mentioned : \E m \in Reachable : e \in Body(m).mentions
  BY <1>1 DEF WalkInv, Collected, Gathered, Mentions
<1>4. ASSUME phase = "done", NEW e \in DOMAIN report, NEW k \in report[e]
      PROVE  k # e /\ k \in program.related[e] /\ k \in mentioned
  BY <1>4 DEF WalkInv, Reported, Expanded, Children
<1> QED
  BY <1>2, <1>3, <1>4 DEF ReportIsReal

LEMMA WalkInvIsComplete == WalkInv => CompleteUnlessCut
<1> SUFFICES ASSUME WalkInv, phase = "done", program.repositories # {}, level \subseteq scanned
             PROVE  /\ read = Visible
                    /\ \A e \in Gathered(Visible, SavesSeen) :
                         e \in DOMAIN report
                         /\ report[e] = (program.related[e] \cap Gathered(Visible, Mentions)) \ {e}
  BY DEF CompleteUnlessCut
<1>1. Frontier /\ nextLevel = {} /\ report = Expanded
  BY DEF WalkInv, Reported
<1>2. \A m \in scanned : OpenCalls(m) \subseteq scanned
  BY <1>1 DEF Frontier, OpenCalls
<1>3. Reach(OpenCalls) \subseteq scanned
  BY <1>1, <1>2, OpenReachIsLeast DEF Frontier, WalkInv, WalkTypeOK
<1>4. read = Visible
  BY <1>1, <1>3 DEF WalkInv, Legitimate, Frontier, Visible
<1> QED
  BY <1>1, <1>4 DEF WalkInv, Collected, Expanded, Children

(* The variables keep their types, and the queue of the walk never holds a  *)
(* method of the framework.                                                 *)
THEOREM WalkTypeCorrect == WalkSpec => []WalkTypeOK
<1>1. WalkInv => WalkTypeOK
  BY DEF WalkInv
<1> QED
  BY <1>1, WalkInitInv, WalkNextInv, PTL DEF WalkSpec

(* Whatever the program and the depth: an entity is reported only if code   *)
(* that the handler reaches saves it through one of the handler's           *)
(* repositories, and a child only if such code mentions it.                 *)
THEOREM WalkIsSound == WalkSpec => []ReportIsReal
  BY WalkInitInv, WalkNextInv, WalkInvIsReal, PTL DEF WalkSpec

(* Whatever the program and the depth: a walk that the depth did not cut    *)
(* has read all the code that the scanner can follow, and reports every     *)
(* save in it with all the related entities the code mentions.              *)
THEOREM WalkIsComplete == WalkSpec => []CompleteUnlessCut
  BY WalkInitInv, WalkNextInv, WalkInvIsComplete, PTL DEF WalkSpec
----------------------------------------------------------------------------
(* m is at the end of a chain of exactly n followed calls.                  *)
Chain(n, m) ==
  \E p \in [0..n -> Methods] :
    /\ p[0] \in HandlerMethods /\ p[n] = m
    /\ \A i \in 0..(n - 1) : p[i + 1] \in OpenCalls(p[i])

(* The walk goes by levels: it has taken up exactly what chains of `depth'  *)
(* calls lead to, the level holds what is one call farther, and what is     *)
(* queued behind the level two.                                             *)
Levels ==
  /\ \A m \in read : Near(m)
  /\ phase = "class" => depth = 0
  /\ phase = "callees" =>
       /\ \A m \in level : Chain(depth + 1, m)
       /\ \A m \in nextLevel : Chain(depth + 2, m)
       /\ \A n \in 0..depth, m \in Methods : Chain(n, m) =>
            m \in scanned /\ OpenCalls(m) \subseteq scanned \cup level
  /\ phase = "done" /\ program.repositories # {} /\ depth = MaxCalleeDepth =>
       \A n \in 0..MaxCalleeDepth, m \in Methods : Chain(n, m) => m \in scanned

LevelsInv == WalkInv /\ Levels

LEMMA ChainBase ==
  ASSUME WalkTypeOK
  PROVE  \A m \in Methods : Chain(0, m) <=> m \in HandlerMethods
<1> SUFFICES ASSUME NEW m \in Methods PROVE Chain(0, m) <=> m \in HandlerMethods
  OBVIOUS
<1>1. Chain(0, m) => m \in HandlerMethods
  BY DEF Chain
<1>2. ASSUME m \in HandlerMethods PROVE Chain(0, m)
  <2> DEFINE p == [i \in 0..0 |-> m]
  <2>1. p \in [0..0 -> Methods] /\ p[0] = m
    OBVIOUS
  <2>2. \A i \in 0..(0 - 1) : FALSE
    OBVIOUS
  <2> HIDE DEF p
  <2> QED
    BY <1>2, <2>1, <2>2 DEF Chain
<1> QED
  BY <1>1, <1>2

LEMMA ChainStep ==
  ASSUME WalkTypeOK, NEW n \in Nat
  PROVE  \A c \in Methods :
           Chain(n + 1, c) <=> \E m \in Methods : Chain(n, m) /\ c \in OpenCalls(m)
<1> SUFFICES ASSUME NEW c \in Methods
             PROVE  Chain(n + 1, c) <=> \E m \in Methods : Chain(n, m) /\ c \in OpenCalls(m)
  OBVIOUS
<1>1. ASSUME Chain(n + 1, c) PROVE \E m \in Methods : Chain(n, m) /\ c \in OpenCalls(m)
  <2>1. PICK p \in [0..(n + 1) -> Methods] :
          /\ p[0] \in HandlerMethods /\ p[n + 1] = c
          /\ \A i \in 0..((n + 1) - 1) : p[i + 1] \in OpenCalls(p[i])
    BY <1>1 DEF Chain
  <2> DEFINE q == [i \in 0..n |-> p[i]]
  <2>2. q \in [0..n -> Methods] /\ \A i \in 0..n : q[i] = p[i]
    BY <2>1
  <2>3. 0 \in 0..n /\ n \in 0..n /\ (n + 1) - 1 = n /\ \A i \in 0..(n - 1) : i \in 0..n /\ i + 1 \in 0..n
    OBVIOUS
  <2> HIDE DEF q
  <2>4. /\ q[0] \in HandlerMethods /\ q[n] = p[n]
        /\ \A i \in 0..(n - 1) : q[i + 1] \in OpenCalls(q[i])
    BY <2>1, <2>2, <2>3
  <2>5. p[n] \in Methods /\ c \in OpenCalls(p[n])
    BY <2>1, <2>2, <2>3
  <2>6. Chain(n, p[n])
    BY <2>2, <2>4 DEF Chain
  <2> QED
    BY <2>5, <2>6
<1>2. ASSUME NEW m \in Methods, Chain(n, m), c \in OpenCalls(m) PROVE Chain(n + 1, c)
  <2>1. PICK p \in [0..n -> Methods] :
          /\ p[0] \in HandlerMethods /\ p[n] = m
          /\ \A i \in 0..(n - 1) : p[i + 1] \in OpenCalls(p[i])
    BY <1>2 DEF Chain
  <2> DEFINE q == [i \in 0..(n + 1) |-> IF i = n + 1 THEN c ELSE p[i]]
  <2>2. /\ q \in [0..(n + 1) -> Methods] /\ q[n + 1] = c
        /\ \A i \in 0..n : q[i] = p[i]
    <3>1. \A i \in 0..(n + 1) : i # n + 1 => i \in 0..n
      OBVIOUS
    <3>2. \A i \in 0..n : i # n + 1 /\ i \in 0..(n + 1)
      OBVIOUS
    <3>3. n + 1 \in 0..(n + 1)
      OBVIOUS
    <3> QED
      BY <2>1, <3>1, <3>2, <3>3
  <2> HIDE DEF q
  <2>3. 0 \in 0..n /\ n \in 0..n
    OBVIOUS
  <2>4. ASSUME NEW i \in 0..((n + 1) - 1) PROVE q[i + 1] \in OpenCalls(q[i])
    <3>1. CASE i = n
      BY <1>2, <2>1, <2>2, <2>3, <3>1
    <3>2. CASE i # n
      <4>1. i \in 0..(n - 1) /\ i \in 0..n /\ i + 1 \in 0..n
        BY <2>4, <3>2
      <4> QED
        BY <2>1, <2>2, <4>1
    <3> QED
      BY <3>1, <3>2
  <2> QED
    BY <2>1, <2>2, <2>3, <2>4 DEF Chain
<1> QED
  BY <1>1, <1>2

LEMMA NearIsChain == \A m : Near(m) <=> \E n \in 0..MaxCalleeDepth : Chain(n, m)
BY DEF Near, Chain

LEMMA SameChains ==
  ASSUME program' = program
  PROVE  /\ \A n, m : Chain(n, m)' = Chain(n, m)
         /\ \A m : Near(m)' = Near(m) /\ OpenCalls(m)' = OpenCalls(m)
BY DEF Chain, Near, OpenCalls, Followed, Body

LEMMA ScanHandlerClassLevels == LevelsInv /\ ScanHandlerClass => Levels'
<1> SUFFICES ASSUME LevelsInv, ScanHandlerClass PROVE Levels'
  OBVIOUS
<1>1. /\ program' = program /\ depth' = depth /\ depth \in 0..MaxCalleeDepth
      /\ phase = "class" /\ phase' = "callees" /\ scanned' = HandlerMethods
      /\ read' = read \cup HandlerMethods /\ read = {} /\ nextLevel' = {}
      /\ level' = Gathered(HandlerMethods, Followed) /\ MaxCalleeDepth \in Nat
      /\ WalkTypeOK /\ program \in Programs
  BY WalkAssumption DEF ScanHandlerClass, Collect, LevelsInv, WalkInv, WalkTypeOK
<1>2. depth = 0
  BY <1>1 DEF LevelsInv, Levels
<1>3. \A m \in HandlerMethods : m \in Methods /\ Followed(m) = OpenCalls(m)
  BY <1>1, WalkAssumption DEF OpenCalls, Body
<1>4. \A m \in HandlerMethods : Chain(0, m)
  BY <1>1, <1>3, ChainBase
<1>5. \A m \in read' : Near(m)
  BY <1>1, <1>4, NearIsChain
<1>6. \A c \in level' : Chain(1, c)
  <2> SUFFICES ASSUME NEW c \in level' PROVE Chain(1, c)
    OBVIOUS
  <2>1. PICK m \in HandlerMethods : c \in OpenCalls(m)
    BY <1>1, <1>3 DEF Gathered
  <2>2. c \in Methods
    BY <1>1, <1>3, <2>1, FollowedAreMethods
  <2>3. Chain(0 + 1, c)
    BY <1>1, <1>3, <1>4, <2>1, <2>2, ChainStep
  <2> QED
    BY <2>3
<1>7. ASSUME NEW n \in 0..0, NEW m \in Methods, Chain(n, m)
      PROVE  m \in scanned' /\ OpenCalls(m) \subseteq scanned' \cup level'
  <2>1. n = 0
    OBVIOUS
  <2>2. m \in HandlerMethods
    BY <1>1, <1>7, <2>1, ChainBase
  <2> QED
    BY <1>1, <1>3, <2>2 DEF Gathered
<1> QED
  BY <1>1, <1>2, <1>5, <1>6, <1>7, SameChains DEF Levels

LEMMA ScanCalleeLevels ==
  ASSUME LevelsInv, NEW c \in Methods, ScanCallee(c)
  PROVE  Levels'
<1> DEFINE fresh == {m \in {c} : m \notin scanned /\ Body(m).seen = "open"}
<1>1. /\ program' = program /\ depth' = depth /\ phase' = phase /\ phase = "callees"
      /\ depth \in 0..MaxCalleeDepth /\ depth < MaxCalleeDepth /\ MaxCalleeDepth \in Nat
      /\ c \in level /\ level' = level \ {c} /\ scanned' = scanned \cup {c}
      /\ read' = read \cup fresh /\ nextLevel' = nextLevel \cup Gathered(fresh, Followed)
      /\ WalkTypeOK
  BY WalkAssumption DEF ScanCallee, Collect, LevelsInv, WalkInv, WalkTypeOK
<1>2. Chain(depth + 1, c)
  BY <1>1 DEF LevelsInv, Levels
<1>3. Near(c)
  <2>1. depth + 1 \in 0..MaxCalleeDepth
    BY <1>1
  <2> QED
    BY <1>2, <2>1, NearIsChain
<1>4. \A m \in fresh : m = c /\ Followed(m) = OpenCalls(m)
  BY DEF OpenCalls
<1> HIDE DEF fresh
<1>5. ASSUME NEW m \in nextLevel' PROVE Chain(depth + 2, m)
  <2>1. CASE m \in nextLevel
    BY <1>1, <2>1 DEF LevelsInv, Levels
  <2>2. CASE m \in Gathered(fresh, Followed)
    <3>1. m \in OpenCalls(c) /\ m \in Methods
      BY <1>1, <1>4, <2>2, FollowedAreMethods DEF Gathered
    <3>2. Chain((depth + 1) + 1, m)
      BY <1>1, <1>2, <3>1, ChainStep
    <3>3. (depth + 1) + 1 = depth + 2
      BY <1>1
    <3> QED
      BY <3>2, <3>3
  <2> QED
    BY <1>1, <2>1, <2>2
<1>6. \A m \in read' : Near(m)
  BY <1>1, <1>3, <1>4 DEF LevelsInv, Levels
<1>7. /\ \A m \in level' : Chain(depth + 1, m)
      /\ \A n \in 0..depth, m \in Methods : Chain(n, m) =>
           m \in scanned' /\ OpenCalls(m) \subseteq scanned' \cup level'
  BY <1>1 DEF LevelsInv, Levels
<1> QED
  BY <1>1, <1>5, <1>6, <1>7, SameChains DEF Levels

LEMMA EndLevelLevels == LevelsInv /\ EndLevel => Levels'
<1> SUFFICES ASSUME LevelsInv, EndLevel PROVE Levels'
  OBVIOUS
<1>1. /\ program' = program /\ phase' = phase /\ phase = "callees" /\ depth' = depth + 1
      /\ depth \in Nat /\ level = {} /\ level' = nextLevel /\ nextLevel' = {}
      /\ scanned' = scanned /\ read' = read /\ WalkTypeOK /\ Frontier
  BY WalkAssumption DEF EndLevel, LevelsInv, WalkInv, WalkTypeOK
<1>2. \A n \in 0..depth, m \in Methods : Chain(n, m) => m \in scanned /\ OpenCalls(m) \subseteq scanned
  BY <1>1 DEF LevelsInv, Levels
<1>3. \A m \in scanned : OpenCalls(m) \subseteq scanned \cup nextLevel
  BY <1>1 DEF Frontier, OpenCalls
<1>4. ASSUME NEW n \in 0..(depth + 1), NEW m \in Methods, Chain(n, m) PROVE m \in scanned
  <2>1. CASE n \in 0..depth
    BY <1>2, <1>4, <2>1
  <2>2. CASE n = depth + 1
    <3>1. PICK k \in Methods : Chain(depth, k) /\ m \in OpenCalls(k)
      BY <1>1, <1>4, <2>2, ChainStep
    <3>2. depth \in 0..depth
      BY <1>1
    <3> QED
      BY <1>2, <3>1, <3>2
  <2> QED
    BY <1>1, <2>1, <2>2
<1>5. \A m \in level' : Chain(depth' + 1, m)
  <2>1. depth' + 1 = depth + 2
    BY <1>1
  <2> QED
    BY <1>1, <2>1 DEF LevelsInv, Levels
<1>6. \A n \in 0..depth', m \in Methods : Chain(n, m) =>
        m \in scanned' /\ OpenCalls(m) \subseteq scanned' \cup level'
  BY <1>1, <1>3, <1>4
<1>7. \A m \in read' : Near(m)
  BY <1>1 DEF LevelsInv, Levels
<1> QED
  BY <1>1, <1>5, <1>6, <1>7, SameChains DEF Levels

LEMMA LevelsNext == LevelsInv /\ [WalkNext]_walkVars => LevelsInv'
<1> SUFFICES ASSUME LevelsInv, [WalkNext]_walkVars PROVE LevelsInv'
  OBVIOUS
<1>1. WalkInv'
  BY WalkNextInv DEF LevelsInv
<1>2. ASSUME NothingToWalk PROVE Levels'
  <2>1. /\ phase' = "done" /\ program' = program /\ program.repositories = {} /\ read' = read
        /\ \A m \in read : Near(m)
    BY <1>2 DEF NothingToWalk, LevelsInv, Levels
  <2>2. \A m \in read' : Near(m)'
    BY <2>1, SameChains
  <2> QED
    BY <2>1, <2>2 DEF Levels
<1>3. ASSUME Finish PROVE Levels'
  <2>1. /\ phase = "callees" /\ phase' = "done" /\ program' = program /\ depth' = depth
        /\ read' = read /\ scanned' = scanned
        /\ \A m \in read : Near(m)
        /\ \A n \in 0..depth, m \in Methods : Chain(n, m) => m \in scanned
    BY <1>3 DEF Finish, LevelsInv, Levels
  <2>2. \A m \in read' : Near(m)'
    BY <2>1, SameChains
  <2>3. ASSUME depth' = MaxCalleeDepth, NEW n \in 0..MaxCalleeDepth, NEW m \in Methods, Chain(n, m)'
        PROVE  m \in scanned'
    <3>1. Chain(n, m)
      BY <2>1, <2>3, SameChains
    <3> QED
      BY <2>1, <2>3, <3>1
  <2> QED
    BY <2>1, <2>2, <2>3 DEF Levels
<1>4. ASSUME UNCHANGED walkVars PROVE Levels'
  <2>1. UNCHANGED <<program, phase, depth, level, nextLevel, scanned, read>> /\ Levels
    BY <1>4 DEF walkVars, LevelsInv
  <2>2. /\ \A m : Near(m)' = Near(m) /\ OpenCalls(m)' = OpenCalls(m)
        /\ \A n, m : Chain(n, m)' = Chain(n, m)
    BY <2>1, SameChains
  <2>3. Levels' <=> Levels
    BY <2>1, <2>2 DEF Levels
  <2> QED
    BY <2>1, <2>3
<1>5. Levels'
  BY <1>2, <1>3, <1>4, ScanHandlerClassLevels, ScanCalleeLevels, EndLevelLevels
  DEF WalkNext, LevelsInv
<1> QED
  BY <1>1, <1>5 DEF LevelsInv

LEMMA LevelsCut == LevelsInv => CutAtDepth
<1> SUFFICES ASSUME LevelsInv, phase = "done", program.repositories # {}
             PROVE  read = {m \in Visible : Near(m)} /\ saved = Gathered(read, SavesSeen)
  BY DEF CutAtDepth
<1>1. saved = Gathered(read, SavesSeen) /\ read \subseteq Visible /\ Frontier
  BY DEF LevelsInv, WalkInv, Collected, Legitimate
<1>2. \A m \in read : Near(m)
  BY DEF LevelsInv, Levels
<1>3. ASSUME NEW m \in Visible, Near(m) PROVE m \in read
  <2>1. CASE depth = MaxCalleeDepth
    <3>1. m \in Methods /\ Body(m).seen = "open"
      BY OpenReachIsClosed DEF Visible, LevelsInv, WalkInv
    <3>2. m \in scanned
      BY <1>3, <2>1, <3>1, NearIsChain DEF LevelsInv, Levels
    <3> QED
      BY <1>1, <3>1, <3>2 DEF Frontier
  <2>2. CASE depth # MaxCalleeDepth
    <3>1. level = {}
      BY <2>2 DEF LevelsInv, WalkInv
    <3> QED
      BY <3>1, WalkInvIsComplete DEF LevelsInv, CompleteUnlessCut
  <2> QED
    BY <2>1, <2>2
<1> QED
  BY <1>1, <1>2, <1>3

(* Whatever the call graph: the walk reads exactly the code at the end of a *)
(* chain of at most MAX_CALLEE_DEPTH calls, and reports the saves in it.    *)
(* The argument is that of a breadth-first search: a method's first chain   *)
(* is its shortest, so marking it scanned never cuts what a shorter chain   *)
(* would have led to (Levels).                                              *)
THEOREM WalkIsCutAtDepth == WalkSpec => []CutAtDepth
<1>1. WalkInit => LevelsInv
  <2>1. WalkInit => Levels
    BY DEF WalkInit, Levels
  <2> QED
    BY <2>1, WalkInitInv DEF LevelsInv
<1> QED
  BY <1>1, LevelsNext, LevelsCut, PTL DEF WalkSpec
============================================================================
