---------------------------- MODULE SandboxProofs -----------------------------
(***************************************************************************)
(* Proofs about the sandbox: for every set of calls, systems and versions  *)
(* of Landlock.                                                            *)
(***************************************************************************)
EXTENDS Sandbox, TLAPS

Locations == {"idle", "called", "checked", "started", "spawned", "waiting", "waited",
              "decided", "returned"}
Outcomes == {"none", "denied", "closed", "unstarted", "finished", "timeout", "cancelled"}
Restrictions == {"fs", "net", "limits"}

HostTypes ==
  /\ os \in {"linux", "windows", "other"}
  /\ stage \in {"new", "refused", "ready"}
  /\ active \subseteq Runs /\ snapshot \subseteq Runs /\ killing \subseteq snapshot
  /\ caps \subseteq Restrictions \cup {"tree"}
  /\ thread \subseteq {"fs", "net"}
  /\ abi \in Nat /\ (os # "linux" => abi = 0)

RunTypes ==
  /\ pc \in [Runs -> Locations]
  /\ ctx \in [Runs -> {"live", "done", "watched"}]
  /\ timer \in [Runs -> {"off", "armed", "fired"}]
  /\ outcome \in [Runs -> Outcomes]

ProcessTypes ==
  /\ alive \in [Runs -> SUBSET {"root", "kin", "stray"}]
  /\ applied \in [Runs -> SUBSET Restrictions]
  /\ job \in [Runs -> BOOLEAN] /\ fired \in [Runs -> BOOLEAN]

TypeInv == HostTypes /\ RunTypes /\ ProcessTypes

(* What the sandbox claims, the threads and jobs of its commands provide.  *)
CapsInv ==
  /\ os = "linux" => caps \ {"tree"} \subseteq Inherited
  /\ os = "windows" => (caps \ {"tree"} \subseteq IF limits THEN {"limits"} ELSE {})
  /\ (stage = "ready" /\ os = "linux" /\ ~lax) =>
       {"fs"} \cup (IF noNetwork THEN {"net"} ELSE {}) \subseteq caps

(* A call that has no command yet, and one that has none ever.             *)
Before == {"idle", "called", "checked"}
Unborn(r) ==
  alive[r] = {} /\ ~job[r] /\ ~fired[r] /\ timer[r] = "off" /\ outcome[r] \notin {"timeout", "cancelled"}

LifeInv ==
  /\ \A r \in Runs :
       /\ pc[r] # "idle" => stage = "ready"
       /\ pc[r] \in Before => Unborn(r) /\ outcome[r] = "none"
       /\ outcome[r] = "denied" => Unborn(r) /\ pc[r] = "returned"
       /\ pc[r] = "started" => os = "windows" /\ ~job[r]

(* The commands' processes are under the sandbox's restrictions.           *)
AppliedInv ==
  \A r \in Runs :
    /\ (os = "linux" /\ alive[r] # {}) => Inherited \subseteq applied[r]
    /\ job[r] => os = "windows" /\ (limits => "limits" \in applied[r])

(* A process that a kill would miss is a stray; a kill that was due is     *)
(* done or still to come; and a root that ended stays ended.               *)
Dead(r) == alive[r] \subseteq {"stray"}

KillInv ==
  \A r \in Runs :
    /\ (os = "windows" /\ ~job[r]) => "kin" \notin alive[r]
    /\ (fired[r] \/ outcome[r] \in {"timeout", "cancelled"}) /\ timer[r] # "fired" => Dead(r)
    /\ timer[r] # "off" => pc[r] \notin Before \cup {"started", "spawned"}
    /\ pc[r] \in {"waited", "decided", "returned"} => "root" \notin alive[r] /\ (job[r] => Dead(r))
    /\ r \in active \cup snapshot => pc[r] \in {"waiting", "waited", "decided", "returned"}
    /\ r \in snapshot \ killing => Dead(r)

IInv == TypeInv /\ CapsInv /\ LifeInv /\ AppliedInv /\ KillInv

(* The sandbox and its host keep their types.                              *)
LEMMA HostTypeStep == TypeInv /\ [Next]_vars => HostTypes'
<1> SUFFICES ASSUME TypeInv, [Next]_vars PROVE HostTypes'
  OBVIOUS
<1> USE DEF TypeInv, HostTypes, Restrictions, host, box, process
<1>1. CASE New
  BY <1>1 DEF New, startPlatform, initPlatform, strictError
<1>2. CASE Close
  BY <1>2 DEF Close
<1>3. ASSUME NEW r \in Runs, Check(r) PROVE HostTypes'
  BY <1>3 DEF Check
<1>4. ASSUME NEW r \in Runs, Spawn(r) PROVE HostTypes'
  BY <1>4 DEF Spawn
<1>5. ASSUME NEW r \in Runs, Assign(r) PROVE HostTypes'
  BY <1>5 DEF Assign
<1>6. ASSUME NEW r \in Runs, Register(r) PROVE HostTypes'
  BY <1>6 DEF Register
<1>7. ASSUME NEW r \in Runs, Wait(r) PROVE HostTypes'
  BY <1>7 DEF Wait
<1>8. ASSUME NEW r \in Runs, Decide(r) PROVE HostTypes'
  BY <1>8 DEF Decide
<1>9. ASSUME NEW r \in Runs, Leave(r) PROVE HostTypes'
  BY <1>9 DEF Leave
<1>10. ASSUME NEW r \in Runs, Timeout(r) PROVE HostTypes'
  BY <1>10 DEF Timeout
<1>11. ASSUME NEW r \in Runs, TimeoutKills(r) PROVE HostTypes'
  BY <1>11 DEF TimeoutKills
<1>12. ASSUME NEW r \in Runs, Call(r) PROVE HostTypes'
  BY <1>12 DEF Call
<1>13. ASSUME NEW r \in Runs, Cancel(r) PROVE HostTypes'
  BY <1>13 DEF Cancel
<1>14. ASSUME NEW r \in Runs, Watch(r) PROVE HostTypes'
  BY <1>14 DEF Watch
<1>15. ASSUME NEW r \in Runs, CloseKills(r) PROVE HostTypes'
  BY <1>15 DEF CloseKills
<1>16. ASSUME NEW r \in Runs, Forks(r) PROVE HostTypes'
  BY <1>16 DEF Forks
<1>17. ASSUME NEW r \in Runs, Exits(r) PROVE HostTypes'
  BY <1>17 DEF Exits
<1>18. CASE UNCHANGED vars
  BY <1>18 DEF vars
<1> QED
  BY <1>1, <1>2, <1>3, <1>4, <1>5, <1>6, <1>7, <1>8, <1>9, <1>10, <1>11,
     <1>12, <1>13, <1>14, <1>15, <1>16, <1>17, <1>18 DEF Next, Step

(* So do the calls of Run ...                                              *)
LEMMA RunTypeStep == TypeInv /\ [Next]_vars => RunTypes'
<1> SUFFICES ASSUME TypeInv, [Next]_vars PROVE RunTypes'
  OBVIOUS
<1> USE DEF TypeInv, RunTypes, Locations, Outcomes, host, box, process
<1>1. CASE New
  BY <1>1 DEF New, startPlatform, initPlatform, strictError
<1>2. CASE Close
  BY <1>2 DEF Close
<1>3. ASSUME NEW r \in Runs, Check(r) PROVE RunTypes'
  BY <1>3 DEF Check, Returns, Goto
<1>4. ASSUME NEW r \in Runs, Spawn(r) PROVE RunTypes'
  BY <1>4 DEF Spawn, Returns, Goto
<1>5. ASSUME NEW r \in Runs, Assign(r) PROVE RunTypes'
  BY <1>5 DEF Assign, Goto
<1>6. ASSUME NEW r \in Runs, Register(r) PROVE RunTypes'
  BY <1>6 DEF Register, Goto
<1>7. ASSUME NEW r \in Runs, Wait(r) PROVE RunTypes'
  BY <1>7 DEF Wait, Goto
<1>8. ASSUME NEW r \in Runs, Decide(r) PROVE RunTypes'
  BY <1>8 DEF Decide, Goto
<1>9. ASSUME NEW r \in Runs, Leave(r) PROVE RunTypes'
  BY <1>9 DEF Leave, Goto
<1>10. ASSUME NEW r \in Runs, Timeout(r) PROVE RunTypes'
  BY <1>10 DEF Timeout
<1>11. ASSUME NEW r \in Runs, TimeoutKills(r) PROVE RunTypes'
  BY <1>11 DEF TimeoutKills
<1>12. ASSUME NEW r \in Runs, Call(r) PROVE RunTypes'
  BY <1>12 DEF Call, Returns, Goto
<1>13. ASSUME NEW r \in Runs, Cancel(r) PROVE RunTypes'
  BY <1>13 DEF Cancel
<1>14. ASSUME NEW r \in Runs, Watch(r) PROVE RunTypes'
  BY <1>14 DEF Watch
<1>15. ASSUME NEW r \in Runs, CloseKills(r) PROVE RunTypes'
  BY <1>15 DEF CloseKills
<1>16. ASSUME NEW r \in Runs, Forks(r) PROVE RunTypes'
  BY <1>16 DEF Forks
<1>17. ASSUME NEW r \in Runs, Exits(r) PROVE RunTypes'
  BY <1>17 DEF Exits
<1>18. CASE UNCHANGED vars
  BY <1>18 DEF vars
<1> QED
  BY <1>1, <1>2, <1>3, <1>4, <1>5, <1>6, <1>7, <1>8, <1>9, <1>10, <1>11,
     <1>12, <1>13, <1>14, <1>15, <1>16, <1>17, <1>18 DEF Next, Step

(* ... and their processes.                                                *)
LEMMA ProcessTypeStep == TypeInv /\ [Next]_vars => ProcessTypes'
<1> SUFFICES ASSUME TypeInv, [Next]_vars PROVE ProcessTypes'
  OBVIOUS
<1> USE DEF TypeInv, ProcessTypes, Restrictions, host, box, process
<1>1. CASE New
  BY <1>1 DEF New, startPlatform, initPlatform, strictError
<1>2. CASE Close
  BY <1>2 DEF Close
<1>3. ASSUME NEW r \in Runs, Check(r) PROVE ProcessTypes'
  BY <1>3 DEF Check
<1>4. ASSUME NEW r \in Runs, Spawn(r) PROVE ProcessTypes'
  <2>1. Inherited \in SUBSET Restrictions
    BY DEF HostTypes, Inherited, wrapCommand
  <2>2. alive' \in [Runs -> SUBSET {"root", "kin", "stray"}]
    BY <1>4 DEF Spawn
  <2>3. applied' \in [Runs -> SUBSET Restrictions]
    BY <1>4, <2>1 DEF Spawn
  <2> QED
    BY <1>4, <2>2, <2>3 DEF Spawn
<1>5. ASSUME NEW r \in Runs, Assign(r) PROVE ProcessTypes'
  <2>1. applied' \in [Runs -> SUBSET Restrictions]
    BY <1>5 DEF Assign
  <2>2. job' \in [Runs -> BOOLEAN]
    BY <1>5 DEF Assign
  <2> QED
    BY <1>5, <2>1, <2>2 DEF Assign
<1>6. ASSUME NEW r \in Runs, Register(r) PROVE ProcessTypes'
  BY <1>6 DEF Register
<1>7. ASSUME NEW r \in Runs, Wait(r) PROVE ProcessTypes'
  BY <1>7 DEF Wait, release
<1>8. ASSUME NEW r \in Runs, Decide(r) PROVE ProcessTypes'
  BY <1>8 DEF Decide
<1>9. ASSUME NEW r \in Runs, Leave(r) PROVE ProcessTypes'
  BY <1>9 DEF Leave
<1>10. ASSUME NEW r \in Runs, Timeout(r) PROVE ProcessTypes'
  BY <1>10 DEF Timeout
<1>11. ASSUME NEW r \in Runs, TimeoutKills(r) PROVE ProcessTypes'
  BY <1>11 DEF TimeoutKills, kill, Group
<1>12. ASSUME NEW r \in Runs, Call(r) PROVE ProcessTypes'
  BY <1>12 DEF Call
<1>13. ASSUME NEW r \in Runs, Cancel(r) PROVE ProcessTypes'
  BY <1>13 DEF Cancel
<1>14. ASSUME NEW r \in Runs, Watch(r) PROVE ProcessTypes'
  BY <1>14 DEF Watch, kill, Group
<1>15. ASSUME NEW r \in Runs, CloseKills(r) PROVE ProcessTypes'
  BY <1>15 DEF CloseKills, kill, Group
<1>16. ASSUME NEW r \in Runs, Forks(r) PROVE ProcessTypes'
  BY <1>16 DEF Forks
<1>17. ASSUME NEW r \in Runs, Exits(r) PROVE ProcessTypes'
  BY <1>17 DEF Exits
<1>18. CASE UNCHANGED vars
  BY <1>18 DEF vars
<1> QED
  BY <1>1, <1>2, <1>3, <1>4, <1>5, <1>6, <1>7, <1>8, <1>9, <1>10, <1>11,
     <1>12, <1>13, <1>14, <1>15, <1>16, <1>17, <1>18 DEF Next, Step

(* No step makes the sandbox claim more than it enforces.                  *)
LEMMA CapsStep == TypeInv /\ CapsInv /\ [Next]_vars => CapsInv'
<1> SUFFICES ASSUME TypeInv, CapsInv, [Next]_vars PROVE CapsInv'
  OBVIOUS
<1> USE DEF TypeInv, HostTypes, CapsInv, Inherited, wrapCommand, host, box,
   process
<1>1. CASE New
  <2>1. PICK ruleset \in BOOLEAN, restricts \in BOOLEAN :
          /\ ruleset => abi >= 1
          /\ startPlatform(initPlatform(ruleset), ruleset, restricts)
          /\ (stage' = "ready" /\ ~lax) =>
               ~strictError(initPlatform(ruleset)) /\ (ruleset => restricts)
    BY <1>1 DEF New
  <2>2. CASE ruleset /\ restricts
    <3>1. thread' = initPlatform(ruleset) \cap {"fs", "net"} /\ caps' = initPlatform(ruleset)
      BY <2>1, <2>2 DEF startPlatform
    <3> QED
      BY <1>1, <2>1, <2>2, <3>1 DEF New, initPlatform, strictError
  <2>3. CASE ~ruleset
    <3>1. thread' = {} /\ caps' = initPlatform(ruleset) /\ caps' \cap {"fs", "net"} = {}
      BY <2>1, <2>3 DEF startPlatform, initPlatform
    <3> QED
      BY <1>1, <2>1, <2>3, <3>1 DEF New, initPlatform, strictError
  <2>4. CASE ruleset /\ ~restricts
    <3>1. thread' = {} /\ caps' = initPlatform(ruleset) \ {"fs", "net"}
      BY <2>1, <2>4 DEF startPlatform
    <3> QED
      BY <1>1, <2>1, <2>4, <3>1 DEF New, initPlatform
  <2> QED
    BY <2>2, <2>3, <2>4
<1>2. CASE Close
  BY <1>2 DEF Close
<1>3. ASSUME NEW r \in Runs, Check(r) PROVE CapsInv'
  BY <1>3 DEF Check
<1>4. ASSUME NEW r \in Runs, Spawn(r) PROVE CapsInv'
  BY <1>4 DEF Spawn
<1>5. ASSUME NEW r \in Runs, Assign(r) PROVE CapsInv'
  BY <1>5 DEF Assign
<1>6. ASSUME NEW r \in Runs, Register(r) PROVE CapsInv'
  BY <1>6 DEF Register
<1>7. ASSUME NEW r \in Runs, Wait(r) PROVE CapsInv'
  BY <1>7 DEF Wait
<1>8. ASSUME NEW r \in Runs, Decide(r) PROVE CapsInv'
  BY <1>8 DEF Decide
<1>9. ASSUME NEW r \in Runs, Leave(r) PROVE CapsInv'
  BY <1>9 DEF Leave
<1>10. ASSUME NEW r \in Runs, Timeout(r) PROVE CapsInv'
  BY <1>10 DEF Timeout
<1>11. ASSUME NEW r \in Runs, TimeoutKills(r) PROVE CapsInv'
  BY <1>11 DEF TimeoutKills
<1>12. ASSUME NEW r \in Runs, Call(r) PROVE CapsInv'
  BY <1>12 DEF Call
<1>13. ASSUME NEW r \in Runs, Cancel(r) PROVE CapsInv'
  BY <1>13 DEF Cancel
<1>14. ASSUME NEW r \in Runs, Watch(r) PROVE CapsInv'
  BY <1>14 DEF Watch
<1>15. ASSUME NEW r \in Runs, CloseKills(r) PROVE CapsInv'
  BY <1>15 DEF CloseKills
<1>16. ASSUME NEW r \in Runs, Forks(r) PROVE CapsInv'
  BY <1>16 DEF Forks
<1>17. ASSUME NEW r \in Runs, Exits(r) PROVE CapsInv'
  BY <1>17 DEF Exits
<1>18. CASE UNCHANGED vars
  BY <1>18 DEF vars
<1> QED
  BY <1>1, <1>2, <1>3, <1>4, <1>5, <1>6, <1>7, <1>8, <1>9, <1>10, <1>11,
     <1>12, <1>13, <1>14, <1>15, <1>16, <1>17, <1>18 DEF Next, Step

(* No step gives a process to a call that was refused.                     *)
LEMMA LifeStep == TypeInv /\ LifeInv /\ [Next]_vars => LifeInv'
<1> SUFFICES ASSUME TypeInv, LifeInv, [Next]_vars PROVE LifeInv'
  OBVIOUS
<1> USE DEF TypeInv, HostTypes, RunTypes, ProcessTypes, Locations, LifeInv,
   Unborn, Before, host, box, process
<1>1. CASE New
  BY <1>1 DEF New, startPlatform, initPlatform, strictError
<1>2. CASE Close
  BY <1>2 DEF Close
<1>3. ASSUME NEW r \in Runs, Check(r) PROVE LifeInv'
  BY <1>3 DEF Check, Returns, Goto
<1>4. ASSUME NEW r \in Runs, Spawn(r) PROVE LifeInv'
  BY <1>4 DEF Spawn, Returns, Goto
<1>5. ASSUME NEW r \in Runs, Assign(r) PROVE LifeInv'
  BY <1>5 DEF Assign, Goto
<1>6. ASSUME NEW r \in Runs, Register(r) PROVE LifeInv'
  BY <1>6 DEF Register, Goto
<1>7. ASSUME NEW r \in Runs, Wait(r) PROVE LifeInv'
  BY <1>7 DEF Wait, release, Goto
<1>8. ASSUME NEW r \in Runs, Decide(r) PROVE LifeInv'
  BY <1>8 DEF Decide, Goto
<1>9. ASSUME NEW r \in Runs, Leave(r) PROVE LifeInv'
  BY <1>9 DEF Leave, Goto
<1>10. ASSUME NEW r \in Runs, Timeout(r) PROVE LifeInv'
  BY <1>10 DEF Timeout
<1>11. ASSUME NEW r \in Runs, TimeoutKills(r) PROVE LifeInv'
  BY <1>11 DEF TimeoutKills, kill, Group
<1>12. ASSUME NEW r \in Runs, Call(r) PROVE LifeInv'
  BY <1>12 DEF Call, Returns, Goto
<1>13. ASSUME NEW r \in Runs, Cancel(r) PROVE LifeInv'
  BY <1>13 DEF Cancel
<1>14. ASSUME NEW r \in Runs, Watch(r) PROVE LifeInv'
  BY <1>14 DEF Watch, kill, Group
<1>15. ASSUME NEW r \in Runs, CloseKills(r) PROVE LifeInv'
  BY <1>15 DEF CloseKills, kill, Group
<1>16. ASSUME NEW r \in Runs, Forks(r) PROVE LifeInv'
  BY <1>16 DEF Forks
<1>17. ASSUME NEW r \in Runs, Exits(r) PROVE LifeInv'
  BY <1>17 DEF Exits
<1>18. CASE UNCHANGED vars
  BY <1>18 DEF vars
<1> QED
  BY <1>1, <1>2, <1>3, <1>4, <1>5, <1>6, <1>7, <1>8, <1>9, <1>10, <1>11,
     <1>12, <1>13, <1>14, <1>15, <1>16, <1>17, <1>18 DEF Next, Step

(* No step lets a process out of the restrictions.                         *)
LEMMA AppliedStep == TypeInv /\ LifeInv /\ AppliedInv /\ [Next]_vars => AppliedInv'
<1> SUFFICES ASSUME TypeInv, LifeInv, AppliedInv, [Next]_vars PROVE AppliedInv'
  OBVIOUS
<1> USE DEF TypeInv, HostTypes, RunTypes, ProcessTypes, LifeInv, Unborn,
   Before, AppliedInv, Inherited, wrapCommand, host, box, process
<1>1. CASE New
  BY <1>1 DEF New, startPlatform, initPlatform, strictError
<1>2. CASE Close
  BY <1>2 DEF Close
<1>3. ASSUME NEW r \in Runs, Check(r) PROVE AppliedInv'
  BY <1>3 DEF Check
<1>4. ASSUME NEW r \in Runs, Spawn(r) PROVE AppliedInv'
  BY <1>4 DEF Spawn
<1>5. ASSUME NEW r \in Runs, Assign(r) PROVE AppliedInv'
  BY <1>5 DEF Assign
<1>6. ASSUME NEW r \in Runs, Register(r) PROVE AppliedInv'
  BY <1>6 DEF Register
<1>7. ASSUME NEW r \in Runs, Wait(r) PROVE AppliedInv'
  BY <1>7 DEF Wait, release
<1>8. ASSUME NEW r \in Runs, Decide(r) PROVE AppliedInv'
  BY <1>8 DEF Decide
<1>9. ASSUME NEW r \in Runs, Leave(r) PROVE AppliedInv'
  BY <1>9 DEF Leave
<1>10. ASSUME NEW r \in Runs, Timeout(r) PROVE AppliedInv'
  BY <1>10 DEF Timeout
<1>11. ASSUME NEW r \in Runs, TimeoutKills(r) PROVE AppliedInv'
  BY <1>11 DEF TimeoutKills, kill, Group
<1>12. ASSUME NEW r \in Runs, Call(r) PROVE AppliedInv'
  BY <1>12 DEF Call
<1>13. ASSUME NEW r \in Runs, Cancel(r) PROVE AppliedInv'
  BY <1>13 DEF Cancel
<1>14. ASSUME NEW r \in Runs, Watch(r) PROVE AppliedInv'
  BY <1>14 DEF Watch, kill, Group
<1>15. ASSUME NEW r \in Runs, CloseKills(r) PROVE AppliedInv'
  BY <1>15 DEF CloseKills, kill, Group
<1>16. ASSUME NEW r \in Runs, Forks(r) PROVE AppliedInv'
  BY <1>16 DEF Forks
<1>17. ASSUME NEW r \in Runs, Exits(r) PROVE AppliedInv'
  BY <1>17 DEF Exits
<1>18. CASE UNCHANGED vars
  BY <1>18 DEF vars
<1> QED
  BY <1>1, <1>2, <1>3, <1>4, <1>5, <1>6, <1>7, <1>8, <1>9, <1>10, <1>11,
     <1>12, <1>13, <1>14, <1>15, <1>16, <1>17, <1>18 DEF Next, Step

(* No step brings back what was killed.                                    *)
LEMMA KillStep == TypeInv /\ LifeInv /\ KillInv /\ [Next]_vars => KillInv'
<1> SUFFICES ASSUME TypeInv, LifeInv, KillInv, [Next]_vars PROVE KillInv'
  OBVIOUS
<1> USE DEF TypeInv, HostTypes, RunTypes, ProcessTypes, LifeInv, Unborn,
   Before, KillInv, Dead, host, box, process
<1>1. CASE New
  BY <1>1 DEF New, startPlatform, initPlatform, strictError
<1>2. CASE Close
  BY <1>2 DEF Close
<1>3. ASSUME NEW r \in Runs, Check(r) PROVE KillInv'
  BY <1>3 DEF Check, Returns, Goto
<1>4. ASSUME NEW r \in Runs, Spawn(r) PROVE KillInv'
  BY <1>4 DEF Spawn, Returns, Goto
<1>5. ASSUME NEW r \in Runs, Assign(r) PROVE KillInv'
  BY <1>5 DEF Assign, Goto
<1>6. ASSUME NEW r \in Runs, Register(r) PROVE KillInv'
  <2>1. pc[r] = "spawned" /\ pc' = [pc EXCEPT ![r] = "waiting"] /\ active' = active \cup {r}
    BY <1>6 DEF Register, Goto
  <2>2. timer' = [timer EXCEPT ![r] = "armed"]
    BY <1>6 DEF Register
  <2>3. UNCHANGED <<os, job, alive, fired, outcome, snapshot, killing>>
    BY <1>6 DEF Register
  <2>4. timer[r] # "fired"
    BY <2>1
  <2> QED
    BY <2>1, <2>2, <2>3, <2>4
<1>7. ASSUME NEW r \in Runs, Wait(r) PROVE KillInv'
  BY <1>7 DEF Wait, release, Goto
<1>8. ASSUME NEW r \in Runs, Decide(r) PROVE KillInv'
  BY <1>8 DEF Decide, Goto
<1>9. ASSUME NEW r \in Runs, Leave(r) PROVE KillInv'
  BY <1>9 DEF Leave, Goto
<1>10. ASSUME NEW r \in Runs, Timeout(r) PROVE KillInv'
  BY <1>10 DEF Timeout
<1>11. ASSUME NEW r \in Runs, TimeoutKills(r) PROVE KillInv'
  BY <1>11 DEF TimeoutKills, kill, Group
<1>12. ASSUME NEW r \in Runs, Call(r) PROVE KillInv'
  BY <1>12 DEF Call, Returns, Goto
<1>13. ASSUME NEW r \in Runs, Cancel(r) PROVE KillInv'
  BY <1>13 DEF Cancel
<1>14. ASSUME NEW r \in Runs, Watch(r) PROVE KillInv'
  BY <1>14 DEF Watch, kill, Group
<1>15. ASSUME NEW r \in Runs, CloseKills(r) PROVE KillInv'
  BY <1>15 DEF CloseKills, kill, Group
<1>16. ASSUME NEW r \in Runs, Forks(r) PROVE KillInv'
  BY <1>16 DEF Forks
<1>17. ASSUME NEW r \in Runs, Exits(r) PROVE KillInv'
  BY <1>17 DEF Exits
<1>18. CASE UNCHANGED vars
  BY <1>18 DEF vars
<1> QED
  BY <1>1, <1>2, <1>3, <1>4, <1>5, <1>6, <1>7, <1>8, <1>9, <1>10, <1>11,
     <1>12, <1>13, <1>14, <1>15, <1>16, <1>17, <1>18 DEF Next, Step

-----------------------------------------------------------------------------
(* The inductive invariant holds of a sandbox that is not made yet.        *)
LEMMA InitIInv == Init => IInv
<1> SUFFICES ASSUME Init PROVE IInv
  OBVIOUS
<1> USE SandboxAssumption DEF Init
<1>1. HostTypes
  <2>1. os \in {"linux", "windows", "other"}
    OBVIOUS
  <2>2. abi \in Nat /\ (os # "linux" => abi = 0)
    BY <2>1
  <2> QED
    BY <2>1, <2>2 DEF HostTypes
<1>2. RunTypes
  BY DEF RunTypes, Locations, Outcomes
<1>3. ProcessTypes
  BY DEF ProcessTypes
<1>4. CapsInv
  BY DEF CapsInv
<1>5. LifeInv
  BY DEF LifeInv, Unborn, Before
<1>6. AppliedInv
  BY DEF AppliedInv
<1>7. KillInv
  BY DEF KillInv, Dead, Before
<1> QED
  BY <1>1, <1>2, <1>3, <1>4, <1>5, <1>6, <1>7 DEF IInv, TypeInv

(* And after every step.                                                   *)
THEOREM Invariance == Spec => []IInv
<1>1. IInv /\ [Next]_vars => IInv'
  BY HostTypeStep, RunTypeStep, ProcessTypeStep, CapsStep, LifeStep, AppliedStep, KillStep
    DEF IInv, TypeInv
<1> QED
  BY InitIInv, <1>1, PTL DEF Spec

(* What a sandbox says it enforces holds for every command it runs:        *)
(* initPlatform, startPlatform and spawn in src/sandbox.                   *)
THEOREM ConfinedHolds == Spec => []Confined
<1>1. ASSUME IInv PROVE Confined
  <2> USE <1>1 DEF IInv
  <2>1. (stage = "ready" /\ os = "linux" /\ ~lax) =>
          {"fs"} \cup (IF noNetwork THEN {"net"} ELSE {}) \subseteq caps
    BY DEF CapsInv
  <2>2. ASSUME NEW r \in Runs, alive[r] # {}
        PROVE  /\ (os = "linux" \/ job[r]) => caps \ {"tree"} \subseteq applied[r]
               /\ (os = "linux" /\ NewShellTool) => "fs" \in applied[r]
               /\ outcome[r] # "denied"
    <3>1. os = "linux" => caps \ {"tree"} \subseteq applied[r]
      BY <2>2 DEF CapsInv, AppliedInv
    <3>2. job[r] => caps \ {"tree"} \subseteq applied[r]
      BY DEF CapsInv, AppliedInv
    <3>3. (os = "linux" /\ NewShellTool) => "fs" \in applied[r]
      BY <3>1 DEF NewShellTool
    <3>4. outcome[r] # "denied"
      BY <2>2 DEF LifeInv, Unborn
    <3> QED
      BY <3>1, <3>2, <3>3, <3>4
  <2> QED
    BY <2>1, <2>2 DEF Confined
<1> QED
  BY Invariance, <1>1, PTL

(* A command that timed out, was cancelled or was found by Close leaves no *)
(* process of its group or job, nor does a job ever: kill, Run and Close   *)
(* in src/sandbox.                                                         *)
THEOREM KillsReachTheTreeHolds == Spec => []KillsReachTheTree
<1>1. IInv => KillsReachTheTree
  BY DEF IInv, KillInv, Dead, KillsReachTheTree
<1> QED
  BY Invariance, <1>1, PTL
=============================================================================
