------------------------- MODULE MCThreadSupervisor -------------------------
(***************************************************************************)
(* Small instances of ThreadSupervisor: two or three tasks, two workers    *)
(* and up to two outside threads, with the programs each run lets them     *)
(* execute.                                                                *)
(***************************************************************************)
EXTENDS ThreadSupervisorInv, TLC

CONSTANTS a, b, c,     \* tasks
          m, n         \* outside threads

OneClient  == {m}
TwoClients == {m, n}
TwoTasks   == {a, b}
ThreeTasks == {a, b, c}

Op(o, t)      == [op |-> o, task |-> t, arg |-> t]
Link(o, t, u) == [op |-> o, task |-> t, arg |-> u]
Allow(k)      == [op |-> "setAllowable", task |-> NULL, arg |-> k]

(***************************************************************************)
(* Undisciplined users: m sets tasks up in any of these ways while n       *)
(* interferes and the function of a makes a call of its own.               *)
(***************************************************************************)
Setups ==
    { << Link("addDependency", b, a), Op("push", b), Op("push", a) >>,
      << Op("push", a), Link("addDependency", b, a), Op("push", b) >>,
      << Link("addStart", a, b), Op("push", a), Op("wait", b) >>,
      << Link("addCancel", a, b), Op("push", b), Op("push", a) >>,
      << Op("push", a), Op("push", a), Op("wait", a) >> }

Interference ==
    { <<Op("cancel", a)>>, <<Op("cancel", b)>>, <<Op("push", b)>>,
      <<Op("wait", a)>>, <<Link("addDependency", a, b)>>, <<Allow(1)>>, <<Allow(3)>> }

Bodies == { <<>>, <<Op("push", b)>>, <<Op("wait", b)>>, <<Op("cancel", b)>> }

RacingScripts ==
    { (m :> x) @@ (n :> y) @@ (a :> z) @@ (b :> <<>>) :
        x \in Setups, y \in Interference, z \in Bodies }

(***************************************************************************)
(* Disciplined users: links are made before either end is pushed, as       *)
(* TS_Test1 does, a task is pushed once and canceled only before that, and *)
(* no function waits for another task.                                     *)
(***************************************************************************)
TestOne ==
    << Link("addDependency", c, a), Link("addDependency", c, b), Op("push", c),
       Link("addDependency", b, a), Op("push", b), Op("push", a), Op("wait", c) >>

\* Two dependencies that end on two workers.
Join ==
    << Link("addDependency", c, a), Link("addDependency", c, b),
       Op("push", c), Op("push", a), Op("push", b), Op("wait", c) >>

Chain ==
    << Link("addStart", a, b), Link("addStart", b, c), Op("push", a), Op("wait", c) >>

Canceled ==
    << Link("addDependency", c, b), Op("push", c), Op("cancel", a), Op("push", a),
       Op("wait", a), Op("push", b), Op("wait", b) >>

Nested ==
    << Op("push", a), Allow(1), Op("wait", a), Op("wait", b) >>

DisciplinedScripts ==
    { (m :> x) @@ (n :> y) @@ (a :> <<>>) @@ (b :> <<>>) @@ (c :> <<>>) :
        x \in {TestOne, Join, Chain, Canceled}, y \in {<<Op("wait", b)>>, <<Allow(1)>>} }
    \cup
    { (m :> Nested) @@ (n :> y) @@ (a :> <<Op("push", b), Op("push", c)>>)
          @@ (b :> <<>>) @@ (c :> <<>>) :
        y \in {<<Op("wait", c)>>, <<Allow(2)>>} }
(***************************************************************************)
(* The few calls that take the supervisor to each disagreement with its    *)
(* documents.                                                              *)
(***************************************************************************)
One(x, y) == { (m :> x) @@ (a :> y) @@ (b :> <<>>) }

CancelSetScripts  == One(<<Link("addCancel", a, b), Op("push", a), Op("push", b)>>, <<>>)
ReuseScripts      == One(<<Op("push", a), Op("cancel", a), Op("push", b)>>, <<>>)
TestTwoScripts    == One(<<Link("addCancel", b, a), Op("push", a), Op("push", b),
                           Op("wait", a)>>, <<>>)
AllowanceScripts  == One(<<Op("push", a), Op("wait", a)>>, <<Allow(1), Op("push", b)>>)
LateDependency    == One(<<Op("push", a), Link("addDependency", b, a), Op("push", b)>>,
                         <<>>)
OwnStart          == One(<<Link("addStart", a, a), Op("push", a)>>, <<>>)
=============================================================================
