---------------------------- MODULE GatewayProofs ----------------------------
(***************************************************************************)
(* Theorems about Gateway, for every set of clients, requests and captcha  *)
(* tokens, every lifetime and every clock.                                 *)
(***************************************************************************)
EXTENDS Gateway, TLAPS

-----------------------------------------------------------------------------
(* Arithmetic and the issuer *)

LEMMA SatAddBounds ==
  ASSUME NEW a \in 0..MaxTime
  PROVE  /\ SatAdd(a, Ttl) \in 0..U64Max
         /\ a <= SatAdd(a, Ttl)
         /\ Ttl > 0 => a < SatAdd(a, Ttl)
  BY GatewayAssumption DEF SatAdd

LEMMA IssueType ==
  ASSUME NEW c \in Client, NEW now \in 0..MaxTime
  PROVE  /\ Issue(c, now) \in Grant
         /\ Issue(c, now).signer = c
         /\ now <= Issue(c, now).expiry
         /\ Ttl > 0 => now < Issue(c, now).expiry
  BY SatAddBounds DEF Issue, Grant

LEMMA NoneIsNoValue ==
  /\ None \notin Client
  /\ None \notin Solution
  /\ None \notin Grant
  BY GatewayAssumption DEF Grant

LEMMA IdleType == Idle \in TaskState
  BY GatewayAssumption DEF Idle, TaskState, Label, Status

(* A handler that answers stays well-typed.                                *)
LEMMA ReplyType ==
  ASSUME task \in [Task -> TaskState],
         NEW t \in Task, NEW code \in Status, NEW g \in Grant \cup {None},
         Reply(t, code, g)
  PROVE  task' \in [Task -> TaskState]
<1>1. "respond" \in Label
  BY DEF Label
<1>2. [task[t] EXCEPT !.pc = "respond", !.status = code, !.grant = g]
        \in TaskState
  BY <1>1 DEF TaskState
<1> QED  BY <1>2 DEF Reply

(* And so does one that has just arrived.                                  *)
LEMMA ArriveType ==
  ASSUME TypeOK, NEW t \in Task, NEW c \in Client,
         NEW s \in Solution \cup {None}, NEW label \in Label,
         Arrive(t, label, c, s)
  PROVE  TypeOK'
<1>1. [Idle EXCEPT !.pc = label, !.client = c, !.captcha = s,
                   !.since = clock, !.owed = {g \in told : g.signer = c}]
        \in TaskState
  BY IdleType DEF TypeOK, TaskState
<1> QED  BY <1>1 DEF Arrive, TypeOK, history

LEMMA MalformedType ==
  ASSUME NEW code \in Status, NEW now \in 0..MaxTime, NEW label \in Label
  PROVE  [Idle EXCEPT !.pc = label, !.status = code, !.since = now] \in TaskState
  BY IdleType DEF TaskState

(* The task of a request that has just arrived, or of none.                *)
LEMMA ArriveTask ==
  ASSUME TypeOK, NEW t \in Task, NEW c, NEW s, NEW label,
         Arrive(t, label, c, s)
  PROVE  /\ task'[t].pc = label
         /\ task'[t].client = c
         /\ task'[t].captcha = s
         /\ task'[t].since = clock
         /\ task'[t].owed = {g \in told : g.signer = c}
         /\ \A u \in Task \ {t} : task'[u] = task[u]
  BY DEF Arrive, Idle, TypeOK

LEMMA MalformedTask ==
  ASSUME TypeOK, NEW t \in Task, Malformed(t)
  PROVE  /\ task'[t].pc = "respond"
         /\ task'[t].status = 400
         /\ task'[t].since = clock
         /\ task'[t].owed = {}
         /\ \A u \in Task \ {t} : task'[u] = task[u]
  BY DEF Malformed, Idle, TypeOK

LEMMA IdleTask ==
  ASSUME TypeOK, NEW t \in Task, task' = [task EXCEPT ![t] = Idle]
  PROVE  /\ task'[t].pc = "idle"
         /\ task'[t].since = 0
         /\ task'[t].owed = {}
         /\ \A u \in Task \ {t} : task'[u] = task[u]
  BY DEF Idle, TypeOK

-----------------------------------------------------------------------------
(* Type correctness.  It needs what the handlers carry between their steps: *)
(* a request in progress has a client, a fund request a captcha token, and  *)
(* a handler about to commit, or that answers 200, a grant.                 *)
Carried(t) ==
  /\ task[t].pc \in {"verify", "lookup", "commit", "read", "judge"} =>
       task[t].client \in Client
  /\ task[t].pc \in {"verify", "lookup", "commit"} =>
       task[t].captcha \in Solution
  /\ task[t].pc = "commit" => task[t].grant \in Grant
  /\ task[t].pc = "respond" /\ task[t].status = 200 => task[t].grant \in Grant

TypeInv == TypeOK /\ \A t \in Task : Carried(t)

LEMMA TypeInvInit == Init => TypeInv
<1> SUFFICES ASSUME Init PROVE TypeInv
  OBVIOUS
<1>1. TypeOK
  BY IdleType, GatewayAssumption DEF Init, TypeOK
<1>2. ASSUME NEW t \in Task PROVE Carried(t)
  BY DEF Init, Carried, Idle
<1> QED  BY <1>1, <1>2 DEF TypeInv

(* What the step of a handler t must do to preserve the invariant.         *)
LEMMA TypeInvStep ==
  ASSUME TypeInv, NEW t \in Task, TypeOK', Carried(t)',
         \A u \in Task \ {t} : task'[u] = task[u]
  PROVE  TypeInv'
  BY DEF TypeInv, Carried

LEMMA ReplyStep ==
  ASSUME TypeInv, NEW t \in Task, NEW code \in Status,
         NEW g \in Grant \cup {None}, code = 200 => g \in Grant,
         Reply(t, code, g)
  PROVE  /\ task' \in [Task -> TaskState]
         /\ Carried(t)'
         /\ \A u \in Task \ {t} : task'[u] = task[u]
<1>1. task' \in [Task -> TaskState]
  BY ReplyType DEF TypeInv, TypeOK
<1>2. /\ task'[t].pc = "respond"
      /\ task'[t].status = code
      /\ task'[t].grant = g
  BY DEF Reply, TypeInv, TypeOK, TaskState
<1>3. Carried(t)'
  BY <1>2 DEF Carried
<1>4. \A u \in Task \ {t} : task'[u] = task[u]
  BY DEF Reply, TypeInv, TypeOK
<1> QED  BY <1>1, <1>3, <1>4

LEMMA FundTypeInv ==
  ASSUME TypeInv, NEW t \in Task, Fund(t)
  PROVE  TypeInv'
<1> USE DEF TypeInv, At
<1>1. 200 \in Status /\ 400 \in Status /\ 403 \in Status /\ 500 \in Status
  BY DEF Status
<1>2. /\ "verify" \in Label /\ "lookup" \in Label /\ "commit" \in Label
      /\ "respond" \in Label
  BY DEF Label
<1>3. task[t] \in TaskState
  BY DEF TypeOK
<1>4. ASSUME NEW c \in Client, NEW s \in Solution, FundSubmit(t, c, s)
      PROVE  TypeInv'
  <2>1. TypeOK'
    BY <1>2, <1>4, ArriveType DEF FundSubmit
  <2>2. /\ task'[t].pc = "verify" /\ task'[t].client = c /\ task'[t].captcha = s
        /\ \A u \in Task \ {t} : task'[u] = task[u]
    BY <1>4, ArriveTask DEF FundSubmit
  <2> QED  BY <2>1, <2>2, TypeInvStep DEF Carried
<1>5. CASE Malformed(t)
  <2>1. [Idle EXCEPT !.pc = "respond", !.status = 400, !.since = clock]
          \in TaskState
    BY MalformedType, <1>1, <1>2 DEF TypeOK
  <2>2. TypeOK'
    BY <1>5, <2>1 DEF Malformed, TypeOK, history
  <2>3. /\ task'[t].pc = "respond" /\ task'[t].status = 400
        /\ \A u \in Task \ {t} : task'[u] = task[u]
    BY <1>5, MalformedTask
  <2> QED  BY <2>2, <2>3, TypeInvStep DEF Carried
<1>6. CASE VerifyPass(t)
  <2>1. [task[t] EXCEPT !.pc = "lookup", !.now = clock] \in TaskState
    BY <1>2, <1>3 DEF TypeOK, TaskState
  <2>2. task[t].captcha \in Solution /\ task[t].client \in Client
    BY <1>6 DEF VerifyPass, Carried
  <2>3. TypeOK'
    BY <1>6, <2>1, <2>2 DEF VerifyPass, TypeOK, history
  <2>4. /\ task'[t].pc = "lookup"
        /\ task'[t].client = task[t].client
        /\ task'[t].captcha = task[t].captcha
        /\ \A u \in Task \ {t} : task'[u] = task[u]
    BY <1>3, <1>6 DEF VerifyPass, TypeOK, TaskState
  <2> QED  BY <2>2, <2>3, <2>4, TypeInvStep DEF Carried
<1>7. CASE VerifyReject(t)
  <2>1. Reply(t, 403, None)
    BY <1>7 DEF VerifyReject
  <2>2. TypeOK'
    BY <1>1, <1>7, <2>1, ReplyStep DEF VerifyReject, TypeOK, history
  <2> QED  BY <1>1, <2>1, <2>2, ReplyStep, TypeInvStep
<1>8. CASE VerifyError(t)
  <2>1. Reply(t, 500, None)
    BY <1>8 DEF VerifyError
  <2>2. task[t].captcha \in Solution
    BY <1>8 DEF VerifyError, Carried
  <2>3. TypeOK'
    BY <1>1, <1>8, <2>1, <2>2, ReplyStep DEF VerifyError, TypeOK, history
  <2> QED  BY <1>1, <2>1, <2>3, ReplyStep, TypeInvStep
<1>9. CASE FundFound(t)
  <2>1. task[t].client \in Client
    BY <1>9 DEF FundFound, Carried
  <2>2. store[task[t].client] \in Grant
    BY <1>9, <2>1 DEF FundFound, Fresh, TypeOK
  <2>3. Reply(t, 200, store[task[t].client])
    BY <1>9 DEF FundFound
  <2>4. TypeOK'
    BY <1>1, <1>9, <2>2, <2>3, ReplyStep DEF FundFound, TypeOK, history
  <2> QED  BY <1>1, <2>2, <2>3, <2>4, ReplyStep, TypeInvStep
<1>10. CASE FundMiss(t)
  <2> DEFINE c == task[t].client
             g == Issue(c, task[t].now)
  <2>1. c \in Client /\ task[t].captcha \in Solution /\ task[t].now \in 0..MaxTime
    BY <1>3, <1>10 DEF FundMiss, Carried, TaskState
  <2>2. g \in Grant
    BY <2>1, IssueType
  <2>3. store[c] \in Grant \cup {None}
    BY <2>1 DEF TypeOK
  <2> HIDE DEF g
  <2>4. /\ task' = [task EXCEPT ![t] = [@ EXCEPT !.pc = "commit",
                                          !.seen = store[c], !.grant = g]]
        /\ signed' = signed \cup {<<task[t].captcha, g>>}
    BY <1>10 DEF FundMiss, g
  <2>5. [task[t] EXCEPT !.pc = "commit", !.seen = store[c], !.grant = g]
          \in TaskState
    BY <1>2, <1>3, <2>2, <2>3 DEF TaskState
  <2>6. TypeOK'
    BY <1>10, <2>1, <2>2, <2>4, <2>5 DEF FundMiss, TypeOK
  <2>7. /\ task'[t].pc = "commit" /\ task'[t].client = c
        /\ task'[t].captcha = task[t].captcha /\ task'[t].grant = g
        /\ \A u \in Task \ {t} : task'[u] = task[u]
    BY <1>3, <2>4 DEF TypeOK, TaskState
  <2> QED  BY <2>1, <2>2, <2>6, <2>7, TypeInvStep DEF Carried
<1>11. CASE FundFails(t)
  <2>1. Reply(t, 500, None)
    BY <1>11 DEF FundFails
  <2>2. TypeOK'
    BY <1>1, <1>11, <2>1, ReplyStep DEF FundFails, TypeOK, history
  <2> QED  BY <1>1, <2>1, <2>2, ReplyStep, TypeInvStep
<1>12. ASSUME At(t, "commit")
       PROVE  /\ task[t].client \in Client
              /\ task[t].grant \in Grant
              /\ PutGrant(t) => /\ store' \in [Client -> Grant \cup {None}]
                                /\ recorded' \subseteq Grant
                                /\ raced' \subseteq Grant
  BY <1>12 DEF Carried, PutGrant, TypeOK
<1>13. CASE Commit(t)
  <2>1. At(t, "commit") /\ PutGrant(t) /\ Reply(t, 200, task[t].grant)
    BY <1>13 DEF Commit
  <2>2. TypeOK'
    BY <1>1, <1>12, <1>13, <2>1, ReplyStep DEF Commit, TypeOK
  <2> QED  BY <1>1, <1>12, <2>1, <2>2, ReplyStep, TypeInvStep
<1>14. CASE CommitFails(t)
  <2>1. At(t, "commit") /\ Reply(t, 500, None)
    BY <1>14 DEF CommitFails
  <2>2. TypeOK'
    BY <1>1, <1>12, <1>14, <2>1, ReplyStep DEF CommitFails, TypeOK
  <2> QED  BY <1>1, <2>1, <2>2, ReplyStep, TypeInvStep
<1> QED
  BY <1>4, <1>5, <1>6, <1>7, <1>8, <1>9, <1>10, <1>11, <1>13, <1>14 DEF Fund

LEMMA CapabilityTypeInv ==
  ASSUME TypeInv, NEW t \in Task, Capability(t)
  PROVE  TypeInv'
<1> USE DEF TypeInv, At
<1>1. 200 \in Status /\ 204 \in Status /\ 500 \in Status
  BY DEF Status
<1>2. "read" \in Label /\ "judge" \in Label
  BY DEF Label
<1>3. task[t] \in TaskState
  BY DEF TypeOK
<1>4. ASSUME NEW c \in Client, CapabilityAsk(t, c)
      PROVE  TypeInv'
  <2>1. TypeOK'
    BY <1>2, <1>4, ArriveType DEF CapabilityAsk
  <2>2. /\ task'[t].pc = "read" /\ task'[t].client = c
        /\ \A u \in Task \ {t} : task'[u] = task[u]
    BY <1>4, ArriveTask DEF CapabilityAsk
  <2> QED  BY <2>1, <2>2, TypeInvStep DEF Carried
<1>5. CASE CapabilityRead(t)
  <2>1. task[t].client \in Client
    BY <1>5 DEF CapabilityRead, Carried
  <2>2. store[task[t].client] \in Grant \cup {None}
    BY <2>1 DEF TypeOK
  <2>3. [task[t] EXCEPT !.pc = "judge", !.seen = store[task[t].client]]
          \in TaskState
    BY <1>2, <1>3, <2>2 DEF TaskState
  <2>4. TypeOK'
    BY <1>5, <2>3 DEF CapabilityRead, TypeOK, history
  <2>5. /\ task'[t].pc = "judge" /\ task'[t].client = task[t].client
        /\ \A u \in Task \ {t} : task'[u] = task[u]
    BY <1>3, <1>5 DEF CapabilityRead, TypeOK, TaskState
  <2> QED  BY <2>1, <2>4, <2>5, TypeInvStep DEF Carried
<1>6. CASE CapabilityReadFails(t)
  <2>1. Reply(t, 500, None)
    BY <1>6 DEF CapabilityReadFails
  <2>2. TypeOK'
    BY <1>1, <1>6, <2>1, ReplyStep DEF CapabilityReadFails, TypeOK, history
  <2> QED  BY <1>1, <2>1, <2>2, ReplyStep, TypeInvStep
<1>7. CASE CapabilityJudge(t)
  <2>1. PICK code \in {200, 204}, g \in Grant \cup {None} :
          Reply(t, code, g) /\ (code = 200 => g \in Grant)
    BY <1>3, <1>7 DEF CapabilityJudge, Fresh, TaskState
  <2>2. TypeOK'
    BY <1>1, <1>7, <2>1, ReplyStep DEF CapabilityJudge, TypeOK, history
  <2> QED  BY <1>1, <2>1, <2>2, ReplyStep, TypeInvStep
<1> QED
  BY <1>4, <1>5, <1>6, <1>7 DEF Capability

LEMMA OtherTypeInv ==
  ASSUME TypeInv,
         \/ \E t \in Task : Respond(t) \/ HangUp(t)
         \/ Crash \/ Boot \/ Tick \/ UNCHANGED vars
  PROVE  TypeInv'
<1> USE DEF TypeInv, At
<1>1. ASSUME NEW t \in Task, Respond(t)
      PROVE  TypeInv'
  <2>1. TypeOK'
    BY <1>1, IdleType DEF Respond, TypeOK, Carried
  <2>2. task'[t].pc = "idle" /\ \A u \in Task \ {t} : task'[u] = task[u]
    BY <1>1, IdleTask DEF Respond
  <2> QED  BY <2>1, <2>2, TypeInvStep DEF Carried
<1>2. ASSUME NEW t \in Task, HangUp(t)
      PROVE  TypeInv'
  <2>1. TypeOK'
    BY <1>2, IdleType DEF HangUp, TypeOK, Carried, history
  <2>2. task'[t].pc = "idle" /\ \A u \in Task \ {t} : task'[u] = task[u]
    BY <1>2, IdleTask DEF HangUp
  <2> QED  BY <2>1, <2>2, TypeInvStep DEF Carried
<1>3. CASE Crash
  <2>1. TypeOK'
    BY <1>3, IdleType DEF Crash, TypeOK, history
  <2>2. \A u \in Task : task'[u].pc = "idle"
    BY <1>3 DEF Crash, Idle
  <2> QED  BY <2>1, <2>2 DEF Carried
<1>4. CASE Boot
  BY <1>4 DEF Boot, TypeOK, Carried, history
<1>5. CASE Tick
  BY <1>5, GatewayAssumption DEF Tick, TypeOK, Carried, history
<1>6. CASE UNCHANGED vars
  BY <1>6 DEF vars, TypeOK, Carried
<1> QED
  BY <1>1, <1>2, <1>3, <1>4, <1>5, <1>6

LEMMA TypeInvNext == TypeInv /\ [Next]_vars => TypeInv'
  BY FundTypeInv, CapabilityTypeInv, OtherTypeInv DEF Next

THEOREM TypeInvariant == Spec => []TypeInv
  BY TypeInvInit, TypeInvNext, PTL DEF Spec

(* Every state of the service has the types that TypeOK gives: in          *)
(* particular every expiry it signs or stores fits a u64, because          *)
(* Issuer::issue saturates.                                                *)
THEOREM TypeCorrect == Spec => []TypeOK
<1>1. TypeInv => TypeOK
  BY DEF TypeInv
<1> QED  BY <1>1, TypeInvariant, PTL

-----------------------------------------------------------------------------
(* One captcha, one capability.  A handler that waits to look up holds a    *)
(* captcha token that siteverify has accepted for it alone, and that no     *)
(* capability has been signed for yet.                                      *)
CaptchaInv ==
  /\ OneCaptchaOneCapability
  /\ \A t \in Task : At(t, "lookup") =>
       /\ task[t].captcha \in spent
       /\ \A x \in signed : x[1] # task[t].captcha
       /\ \A u \in Task \ {t} :
            At(u, "lookup") => task[u].captcha # task[t].captcha

LEMMA CaptchaFrame ==
  ASSUME CaptchaInv, spent \subseteq spent', signed' = signed,
         \A t \in Task : task'[t].pc = "lookup" =>
            task[t].pc = "lookup" /\ task'[t].captcha = task[t].captcha
  PROVE  CaptchaInv'
  BY DEF CaptchaInv, OneCaptchaOneCapability, At

(* A handler that answers leaves the lookup, the others stay where they are. *)
LEMMA ReplyCaptcha ==
  ASSUME TypeInv, CaptchaInv, NEW t \in Task, NEW code, NEW g,
         Reply(t, code, g), spent \subseteq spent', signed' = signed
  PROVE  CaptchaInv'
<1>1. \A u \in Task : task'[u].pc = "lookup" => u # t
  BY DEF Reply, TypeInv, TypeOK, TaskState
<1>2. \A u \in Task \ {t} : task'[u] = task[u]
  BY DEF Reply, TypeInv, TypeOK
<1> QED  BY <1>1, <1>2, CaptchaFrame

(* So does one that moves anywhere but to the lookup.                      *)
LEMMA SlotCaptcha ==
  ASSUME CaptchaInv, NEW t \in Task, task'[t].pc # "lookup",
         \A u \in Task \ {t} : task'[u] = task[u],
         spent \subseteq spent', signed' = signed
  PROVE  CaptchaInv'
  BY CaptchaFrame

LEMMA CaptchaInvNext == TypeInv /\ CaptchaInv /\ [Next]_vars => CaptchaInv'
<1> SUFFICES ASSUME TypeInv, CaptchaInv, [Next]_vars PROVE CaptchaInv'
  OBVIOUS
<1> USE DEF history
<1>1. ASSUME NEW t \in Task, Fund(t) PROVE CaptchaInv'
  <2>1. ASSUME NEW c \in Client, NEW s \in Solution, FundSubmit(t, c, s)
        PROVE  CaptchaInv'
    <3>1. task'[t].pc = "verify" /\ \A u \in Task \ {t} : task'[u] = task[u]
      BY <2>1, ArriveTask DEF FundSubmit, TypeInv
    <3> QED  BY <2>1, <3>1, SlotCaptcha DEF FundSubmit, Arrive
  <2>2. CASE Malformed(t)
    <3>1. task'[t].pc = "respond" /\ \A u \in Task \ {t} : task'[u] = task[u]
      BY <2>2, MalformedTask DEF TypeInv
    <3> QED  BY <2>2, <3>1, SlotCaptcha DEF Malformed
  <2>3. CASE VerifyPass(t)
    <3>1. task[t].pc = "verify" /\ task[t].captcha \notin spent
      BY <2>3 DEF VerifyPass, At
    <3>2. /\ task'[t].captcha = task[t].captcha
          /\ \A u \in Task \ {t} : task'[u] = task[u]
          /\ spent' = spent \cup {task[t].captcha} /\ signed' = signed
      BY <2>3 DEF VerifyPass, TypeInv, TypeOK, TaskState
    <3> QED  BY <3>1, <3>2 DEF CaptchaInv, OneCaptchaOneCapability, At
  <2>4. CASE VerifyReject(t)
    BY <2>4, ReplyCaptcha DEF VerifyReject
  <2>5. CASE VerifyError(t)
    BY <2>5, ReplyCaptcha DEF VerifyError
  <2>6. CASE FundFound(t)
    BY <2>6, ReplyCaptcha DEF FundFound
  <2>7. CASE FundMiss(t)
    <3> DEFINE g == Issue(task[t].client, task[t].now)
    <3>1. /\ At(t, "lookup")
          /\ signed' = signed \cup {<<task[t].captcha, g>>}
          /\ spent' = spent
      BY <2>7 DEF FundMiss
    <3>2. /\ task'[t].pc = "commit"
          /\ \A u \in Task \ {t} : task'[u] = task[u]
      BY <2>7 DEF FundMiss, TypeInv, TypeOK, TaskState
    <3> HIDE DEF g
    <3>3. OneCaptchaOneCapability'
      BY <3>1 DEF CaptchaInv, OneCaptchaOneCapability
    <3>4. ASSUME NEW u \in Task, At(u, "lookup")'
          PROVE  /\ u # t
                 /\ task'[u].captcha \in spent'
                 /\ \A x \in signed' : x[1] # task'[u].captcha
      BY <3>1, <3>2, <3>4 DEF CaptchaInv, At
    <3> QED  BY <3>2, <3>3, <3>4 DEF CaptchaInv, At
  <2>8. CASE FundFails(t)
    BY <2>8, ReplyCaptcha DEF FundFails
  <2>9. CASE Commit(t)
    BY <2>9, ReplyCaptcha DEF Commit
  <2>10. CASE CommitFails(t)
    BY <2>10, ReplyCaptcha DEF CommitFails
  <2> QED
    BY <1>1, <2>1, <2>2, <2>3, <2>4, <2>5, <2>6, <2>7, <2>8, <2>9, <2>10 DEF Fund
<1>2. ASSUME NEW t \in Task, Capability(t) PROVE CaptchaInv'
  <2>1. ASSUME NEW c \in Client, CapabilityAsk(t, c) PROVE CaptchaInv'
    <3>1. task'[t].pc = "read" /\ \A u \in Task \ {t} : task'[u] = task[u]
      BY <2>1, ArriveTask DEF CapabilityAsk, TypeInv
    <3> QED  BY <2>1, <3>1, SlotCaptcha DEF CapabilityAsk, Arrive
  <2>2. CASE CapabilityRead(t)
    <3>1. task'[t].pc = "judge" /\ \A u \in Task \ {t} : task'[u] = task[u]
      BY <2>2 DEF CapabilityRead, TypeInv, TypeOK, TaskState
    <3> QED  BY <2>2, <3>1, SlotCaptcha DEF CapabilityRead
  <2>3. CASE CapabilityReadFails(t)
    BY <2>3, ReplyCaptcha DEF CapabilityReadFails
  <2>4. CASE CapabilityJudge(t)
    BY <2>4, ReplyCaptcha DEF CapabilityJudge
  <2> QED  BY <1>2, <2>1, <2>2, <2>3, <2>4 DEF Capability
<1>3. ASSUME NEW t \in Task, Respond(t) PROVE CaptchaInv'
  <2>1. task'[t].pc = "idle" /\ \A u \in Task \ {t} : task'[u] = task[u]
    BY <1>3, IdleTask DEF Respond, TypeInv
  <2> QED  BY <1>3, <2>1, SlotCaptcha DEF Respond
<1>4. ASSUME NEW t \in Task, HangUp(t) PROVE CaptchaInv'
  <2>1. task'[t].pc = "idle" /\ \A u \in Task \ {t} : task'[u] = task[u]
    BY <1>4, IdleTask DEF HangUp, TypeInv
  <2> QED  BY <1>4, <2>1, SlotCaptcha DEF HangUp
<1>5. CASE Crash
  BY <1>5, CaptchaFrame DEF Crash, Idle
<1>6. CASE Boot
  BY <1>6, CaptchaFrame DEF Boot
<1>7. CASE Tick
  BY <1>7, CaptchaFrame DEF Tick
<1>8. CASE UNCHANGED vars
  BY <1>8, CaptchaFrame DEF vars
<1> QED
  BY <1>1, <1>2, <1>3, <1>4, <1>5, <1>6, <1>7, <1>8 DEF Next

(* However the requests that carry one captcha token interleave, fail and  *)
(* are repeated, at most one capability is ever signed for it.             *)
THEOREM CaptchaSafe == Spec => []OneCaptchaOneCapability
<1>1. Init => CaptchaInv
  BY DEF Init, CaptchaInv, OneCaptchaOneCapability, At, Idle
<1>2. CaptchaInv => OneCaptchaOneCapability
  BY DEF CaptchaInv
<1> QED  BY <1>1, <1>2, CaptchaInvNext, TypeInvariant, PTL DEF Spec

-----------------------------------------------------------------------------
(* Promises.  What a handler still needs to be true at its later steps.     *)
Settled(g) == Expired(g) \/ g \in raced

HandlerInv(t) ==
  LET s == task[t] IN
  /\ s.since <= clock
  /\ s.owed \subseteq told
  /\ \A g \in s.owed : g.signer = s.client
  /\ At(t, "lookup") => s.since <= s.now /\ s.now <= clock
  /\ At(t, "commit") =>
       /\ s.since <= s.now /\ s.now <= clock
       /\ s.grant = Issue(s.client, s.now)
       /\ s.seen # None => Expired(s.seen)
       /\ \A g \in s.owed : Settled(g)
  /\ At(t, "judge") =>
       /\ s.seen # None => s.seen \in Grant /\ Kept(s.seen)
       /\ \A g \in s.owed : s.seen = g \/ Settled(g)
  /\ At(t, "respond") /\ s.status = 200 =>
       /\ Kept(s.grant)
       /\ Ttl > 0 => s.grant.expiry > s.since
  /\ At(t, "respond") /\ s.status \in {200, 204} =>
       \A g \in s.owed : s.grant = g \/ Settled(g)

OwnSigner == \A c \in Client : store[c] # None => store[c].signer = c

PromiseInv ==
  /\ TypeInv
  /\ OwnSigner
  /\ KeepsPromise
  /\ \A t \in Task : HandlerInv(t)

(* No step takes back what a handler relies on: grants that are kept stay   *)
(* kept, settled ones settled, told ones told.                              *)
Stable ==
  /\ clock <= clock'
  /\ raced \subseteq raced'
  /\ told \subseteq told'
  /\ \A g \in Grant : Kept(g) => Kept(g)'
  /\ \A g \in Grant : Settled(g) => Settled(g)'

LEMMA QuietStable ==
  ASSUME TypeOK, TypeOK', store' = store, clock <= clock', raced \subseteq raced',
         told \subseteq told'
  PROVE  Stable
<1>1. ASSUME NEW g \in Grant PROVE Expired(g) => Expired(g)'
  BY GatewayAssumption DEF Expired, Grant, TypeOK
<1> QED  BY <1>1 DEF Stable, Kept, Settled

(* A handler that does not move keeps its part of the invariant.           *)
LEMMA OtherHandlers ==
  ASSUME TypeOK, TypeOK', Stable, NEW u \in Task, HandlerInv(u),
         Carried(u), task'[u] = task[u]
  PROVE  HandlerInv(u)'
<1> DEFINE s == task[u]
<1>1. /\ s \in TaskState
      /\ s.since \in Nat /\ s.now \in Nat /\ clock \in Nat /\ clock' \in Nat
      /\ s.owed \subseteq Grant
      /\ s.seen # None => s.seen \in Grant
      /\ s.grant # None => s.grant \in Grant
  BY GatewayAssumption DEF TypeOK, TaskState
<1>2. \A g \in s.owed : Settled(g) => Settled(g)'
  BY <1>1 DEF Stable
<1>3. s.seen # None /\ Expired(s.seen) => Expired(s.seen)'
  BY <1>1, GatewayAssumption DEF Expired, Grant, Stable
<1>4. /\ s.since <= clock'
      /\ s.owed \subseteq told'
      /\ \A g \in s.owed : g.signer = s.client
      /\ At(u, "lookup") => s.since <= s.now /\ s.now <= clock'
  BY <1>1 DEF HandlerInv, Stable
<1>5. At(u, "commit") =>
        /\ s.since <= s.now /\ s.now <= clock'
        /\ s.grant = Issue(s.client, s.now)
        /\ s.seen # None => Expired(s.seen)'
        /\ \A g \in s.owed : Settled(g)'
  BY <1>1, <1>2, <1>3 DEF HandlerInv, Stable
<1>6. At(u, "judge") =>
        /\ s.seen # None => s.seen \in Grant /\ Kept(s.seen)'
        /\ \A g \in s.owed : s.seen = g \/ Settled(g)'
  BY <1>1, <1>2 DEF HandlerInv, Stable
<1>7. At(u, "respond") /\ s.status = 200 =>
        /\ Kept(s.grant)'
        /\ Ttl > 0 => s.grant.expiry > s.since
  BY DEF HandlerInv, Carried, Stable, At
<1>8. At(u, "respond") /\ s.status \in {200, 204} =>
        \A g \in s.owed : s.grant = g \/ Settled(g)'
  BY <1>2 DEF HandlerInv
<1> QED
  BY <1>4, <1>5, <1>6, <1>7, <1>8 DEF HandlerInv, At, Kept, Settled, Expired

(* The step of a handler t preserves the invariant if t keeps its part.    *)
LEMMA PromiseStep ==
  ASSUME PromiseInv, TypeInv', Stable, OwnSigner', KeepsPromise',
         NEW t \in Task, HandlerInv(t)',
         \A u \in Task \ {t} : task'[u] = task[u]
  PROVE  PromiseInv'
<1>1. ASSUME NEW u \in Task PROVE HandlerInv(u)'
  <2>1. CASE u = t
    BY <2>1
  <2>2. CASE u # t
    BY <2>2, OtherHandlers DEF PromiseInv, TypeInv
  <2> QED  BY <2>1, <2>2
<1> QED  BY <1>1 DEF PromiseInv

(* Most steps leave the store, the clock and the history alone.            *)
LEMMA QuietStep ==
  ASSUME PromiseInv, TypeInv', UNCHANGED <<clock, store, raced, told>>,
         NEW t \in Task, Stable => HandlerInv(t)',
         \A u \in Task \ {t} : task'[u] = task[u]
  PROVE  PromiseInv'
<1>1. Stable
  <2>1. clock <= clock'
    BY GatewayAssumption DEF PromiseInv, TypeInv, TypeOK
  <2> QED  BY <2>1, QuietStable DEF PromiseInv, TypeInv
<1>2. OwnSigner' /\ KeepsPromise'
  BY DEF PromiseInv, OwnSigner, KeepsPromise, Kept, Expired
<1> QED  BY <1>1, <1>2, PromiseStep

(* What a handler that answers owes its client.                            *)
LEMMA ReplyHandler ==
  ASSUME PromiseInv, TypeInv', Stable,
         NEW t \in Task, NEW code \in Status, NEW g \in Grant \cup {None},
         Reply(t, code, g),
         code = 200 => Kept(g)' /\ (Ttl > 0 => g.expiry > task[t].since),
         code \in {200, 204} => \A h \in task[t].owed : g = h \/ Settled(h)'
  PROVE  HandlerInv(t)'
<1>1. /\ task'[t].pc = "respond" /\ task'[t].status = code
      /\ task'[t].grant = g /\ task'[t].since = task[t].since
      /\ task'[t].owed = task[t].owed /\ task'[t].client = task[t].client
  BY DEF Reply, PromiseInv, TypeInv, TypeOK, TaskState
<1>2. /\ task[t].since <= clock'
      /\ task[t].owed \subseteq told'
      /\ \A h \in task[t].owed : h.signer = task[t].client
  <2>1. task[t].since \in Nat /\ clock \in Nat /\ clock' \in Nat
    BY GatewayAssumption DEF PromiseInv, TypeInv, TypeOK, TaskState
  <2> QED  BY <2>1 DEF PromiseInv, HandlerInv, Stable
<1> QED  BY <1>1, <1>2 DEF HandlerInv, At, Kept, Settled, Expired

LEMMA ReplyOthers ==
  ASSUME TypeOK, NEW t, NEW code, NEW g, Reply(t, code, g)
  PROVE  \A u \in Task \ {t} : task'[u] = task[u]
  BY DEF Reply, TypeOK

(* An error reply promises nothing.                                        *)
LEMMA ErrorStep ==
  ASSUME PromiseInv, TypeInv', UNCHANGED <<clock, store, raced, told>>,
         NEW t \in Task, NEW code \in {403, 500}, Reply(t, code, None)
  PROVE  PromiseInv'
<1>1. code \in Status /\ code # 200 /\ code # 204
  BY DEF Status
<1>2. Stable => HandlerInv(t)'
  BY <1>1, ReplyHandler
<1>3. \A u \in Task \ {t} : task'[u] = task[u]
  BY ReplyOthers DEF PromiseInv, TypeInv
<1> QED  BY <1>2, <1>3, QuietStep

(* A handler that commits overwrites what had expired when it looked, or a *)
(* grant that it had not seen.                                             *)
LEMMA PutGrantStable ==
  ASSUME PromiseInv, TypeInv', NEW t \in Task, At(t, "commit"), PutGrant(t),
         clock' = clock, told' = told,
         NEW g, g = task[t].grant
  PROVE  /\ Stable
         /\ OwnSigner'
         /\ KeepsPromise'
         /\ Kept(g)'
<1> DEFINE c == task[t].client
           n == task[t].now
<1>1. /\ c \in Client /\ n \in 0..MaxTime /\ g = Issue(c, n)
      /\ task[t].seen # None => Expired(task[t].seen)
  BY DEF PromiseInv, TypeInv, Carried, HandlerInv, At, TypeOK, TaskState
<1>2. g \in Grant /\ g.signer = c
  BY <1>1, IssueType
<1>3. /\ store' = [store EXCEPT ![c] = g]
      /\ raced' = IF store[c] \in {None, task[t].seen}
                    THEN raced ELSE raced \cup {store[c]}
  BY DEF PutGrant
<1> HIDE DEF c, n
<1>4. store \in [Client -> Grant \cup {None}] /\ clock \in Nat
  BY GatewayAssumption DEF PromiseInv, TypeInv, TypeOK
<1>5. raced \subseteq raced'
  BY <1>3
<1>6. ASSUME NEW h \in Grant, Kept(h) PROVE Kept(h)'
  <2>1. h # None
    BY NoneIsNoValue
  <2>2. CASE Expired(h) \/ h \in raced
    BY <1>5, <2>2 DEF Kept, Expired
  <2>3. CASE store[h.signer] = h /\ h.signer = c
    <3>1. store[c] = task[t].seen => Expired(h)
      BY <1>1, <2>1, <2>3
    <3>2. store[c] # task[t].seen => h \in raced'
      BY <1>3, <2>1, <2>3
    <3> QED  BY <3>1, <3>2 DEF Kept, Expired
  <2>4. CASE store[h.signer] = h /\ h.signer # c
    BY <1>3, <1>4, <2>4 DEF Kept, Grant
  <2> QED  BY <1>6, <2>2, <2>3, <2>4 DEF Kept
<1>7. \A h \in Grant : Settled(h) => Settled(h)'
  BY <1>5 DEF Settled, Expired
<1>8. Stable
  BY <1>4, <1>5, <1>6, <1>7 DEF Stable
<1>9. OwnSigner'
  BY <1>2, <1>3, <1>4 DEF PromiseInv, OwnSigner
<1>10. KeepsPromise'
  <2>1. \A h \in told : h \in Grant /\ Kept(h)
    BY DEF PromiseInv, TypeInv, TypeOK, KeepsPromise
  <2>2. \A h \in told : Kept(h)'
    BY <1>6, <2>1
  <2> QED  BY <2>2 DEF KeepsPromise, Kept, Expired
<1>11. Kept(g)'
  BY <1>1, <1>2, <1>3, <1>4 DEF Kept
<1> QED  BY <1>8, <1>9, <1>10, <1>11

LEMMA FundPromise ==
  ASSUME PromiseInv, TypeInv', NEW t \in Task, Fund(t)
  PROVE  PromiseInv'
<1> DEFINE s == task[t]
<1> USE DEF history
<1>1. /\ TypeOK /\ TypeInv /\ s \in TaskState /\ HandlerInv(t)
      /\ s.since \in Nat /\ s.now \in Nat /\ clock \in Nat
      /\ s.owed \subseteq Grant
      /\ \A h \in s.owed : h # None /\ h.expiry \in Nat
  BY GatewayAssumption, NoneIsNoValue
     DEF PromiseInv, TypeInv, TypeOK, TaskState, Grant
<1>2. ASSUME NEW c \in Client, NEW x \in Solution, FundSubmit(t, c, x)
      PROVE  PromiseInv'
  <2>1. Arrive(t, "verify", c, x)
    BY <1>2 DEF FundSubmit
  <2>2. UNCHANGED <<clock, store, raced, told>>
    BY <2>1 DEF Arrive
  <2>3. /\ task'[t].pc = "verify" /\ task'[t].since = clock
        /\ task'[t].client = c
        /\ task'[t].owed = {g \in told : g.signer = c}
        /\ \A u \in Task \ {t} : task'[u] = task[u]
    BY <1>1, <2>1, ArriveTask
  <2>4. HandlerInv(t)'
    BY <1>1, <2>2, <2>3 DEF HandlerInv, At
  <2> QED  BY <2>2, <2>3, <2>4, QuietStep
<1>3. CASE Malformed(t)
  <2>1. UNCHANGED <<clock, store, raced, told>>
    BY <1>3 DEF Malformed
  <2>2. /\ task'[t].pc = "respond" /\ task'[t].status = 400
        /\ task'[t].since = clock /\ task'[t].owed = {}
        /\ \A u \in Task \ {t} : task'[u] = task[u]
    BY <1>1, <1>3, MalformedTask
  <2>3. HandlerInv(t)'
    BY <1>1, <2>1, <2>2 DEF HandlerInv, At
  <2> QED  BY <2>1, <2>2, <2>3, QuietStep
<1>4. CASE VerifyPass(t)
  <2>1. /\ task'[t].pc = "lookup" /\ task'[t].now = clock
        /\ task'[t].since = s.since /\ task'[t].owed = s.owed
        /\ task'[t].client = s.client
        /\ \A u \in Task \ {t} : task'[u] = task[u]
    BY <1>1, <1>4 DEF VerifyPass, TypeOK, TaskState
  <2>2. clock' = clock /\ told' = told
    BY <1>4 DEF VerifyPass
  <2>3. HandlerInv(t)'
    BY <1>1, <2>1, <2>2 DEF HandlerInv, At
  <2> QED  BY <1>4, <2>1, <2>3, QuietStep DEF VerifyPass
<1>5. CASE VerifyReject(t)
  BY <1>5, ErrorStep DEF VerifyReject
<1>6. CASE VerifyError(t)
  BY <1>6, ErrorStep DEF VerifyError
<1>7. CASE FundFound(t)
  <2> PICK g : g = store[s.client]
    OBVIOUS
  <2>1. /\ At(t, "lookup") /\ s.client \in Client
        /\ g # None /\ s.now < g.expiry /\ Reply(t, 200, g)
    BY <1>1, <1>7 DEF FundFound, Fresh, TypeInv, Carried, At
  <2>2. g \in Grant /\ g.signer = s.client /\ g.expiry \in Nat
    BY <1>1, <2>1, GatewayAssumption DEF PromiseInv, OwnSigner, TypeOK, Grant
  <2>3. Kept(g)
    BY <2>2 DEF Kept
  <2>4. g.expiry > s.since
    BY <1>1, <2>1, <2>2 DEF HandlerInv
  <2>5. \A h \in s.owed : g = h \/ Settled(h)
    BY <1>1 DEF PromiseInv, KeepsPromise, HandlerInv, Kept, Settled
  <2>6. Stable => HandlerInv(t)'
    <3>1. SUFFICES ASSUME Stable PROVE HandlerInv(t)'
      OBVIOUS
    <3>2. Kept(g)' /\ \A h \in s.owed : g = h \/ Settled(h)'
      BY <1>1, <2>2, <2>3, <2>5, <3>1 DEF Stable
    <3>3. 200 \in Status
      BY DEF Status
    <3> QED  BY <2>1, <2>2, <2>4, <3>1, <3>2, <3>3, ReplyHandler
  <2> QED
    BY <1>1, <1>7, <2>1, <2>6, ReplyOthers, QuietStep DEF FundFound
<1>8. CASE FundMiss(t)
  <2> DEFINE r == store[s.client]
             g == Issue(s.client, s.now)
  <2>1. /\ At(t, "lookup") /\ s.client \in Client
        /\ ~Fresh(r, s.now)
        /\ task' = [task EXCEPT ![t] =
                      [@ EXCEPT !.pc = "commit", !.seen = r, !.grant = g]]
    BY <1>1, <1>8 DEF FundMiss, TypeInv, Carried, At
  <2> HIDE DEF g
  <2>2. /\ task'[t].pc = "commit" /\ task'[t].seen = r /\ task'[t].grant = g
        /\ task'[t].since = s.since /\ task'[t].owed = s.owed
        /\ task'[t].client = s.client /\ task'[t].now = s.now
        /\ \A u \in Task \ {t} : task'[u] = task[u]
    BY <1>1, <2>1 DEF TypeOK, TaskState
  <2>3. r # None => Expired(r)
    <3>1. r # None => r.expiry \in Nat
      BY <1>1, <2>1, GatewayAssumption DEF TypeOK, Grant
    <3> QED  BY <1>1, <2>1, <3>1 DEF HandlerInv, Fresh, Expired
  <2>4. \A h \in s.owed : Settled(h)
    BY <1>1, <2>3 DEF PromiseInv, KeepsPromise, HandlerInv, Kept, Settled
  <2>5. clock' = clock /\ told' = told /\ raced' = raced /\ store' = store
    BY <1>8 DEF FundMiss
  <2>6. HandlerInv(t)'
    BY <1>1, <2>1, <2>2, <2>3, <2>4, <2>5
       DEF HandlerInv, At, Settled, Expired, g
  <2> QED  BY <2>2, <2>5, <2>6, QuietStep
<1>9. CASE FundFails(t)
  BY <1>9, ErrorStep DEF FundFails
<1>10. CASE Commit(t)
  <2> PICK g : g = s.grant
    OBVIOUS
  <2>1. /\ At(t, "commit") /\ PutGrant(t) /\ Reply(t, 200, g)
        /\ clock' = clock /\ told' = told
    BY <1>10 DEF Commit
  <2>2. /\ Stable /\ OwnSigner' /\ KeepsPromise' /\ Kept(g)'
    BY <2>1, PutGrantStable
  <2>3. /\ g \in Grant /\ s.client \in Client
        /\ s.now \in 0..MaxTime /\ s.since <= s.now
        /\ g = Issue(s.client, s.now)
        /\ \A h \in s.owed : Settled(h)
    BY <1>1, <2>1 DEF TypeInv, Carried, HandlerInv, At, TaskState
  <2>4. Ttl > 0 => g.expiry > s.since
    <3>1. g.expiry \in Nat
      BY <2>3, GatewayAssumption DEF Grant
    <3>2. Ttl > 0 => s.now < g.expiry
      BY <2>3, IssueType
    <3> QED  BY <1>1, <2>3, <3>1, <3>2
  <2>5. \A h \in s.owed : Settled(h)'
    BY <1>1, <2>2, <2>3 DEF Stable
  <2>6. 200 \in Status
    BY DEF Status
  <2>7. HandlerInv(t)'
    BY <2>1, <2>2, <2>3, <2>4, <2>5, <2>6, ReplyHandler
  <2> QED  BY <1>1, <2>1, <2>2, <2>7, ReplyOthers, PromiseStep
<1>11. CASE CommitFails(t)
  <2>1. /\ At(t, "commit") /\ Reply(t, 500, None)
        /\ clock' = clock /\ told' = told
    BY <1>11 DEF CommitFails
  <2>2. CASE PutGrant(t)
    <3>1. /\ Stable /\ OwnSigner' /\ KeepsPromise'
      BY <2>1, <2>2, PutGrantStable
    <3>2. 500 \in Status /\ 500 # 200 /\ 500 # 204
      BY DEF Status
    <3>3. HandlerInv(t)'
      BY <2>1, <3>1, <3>2, ReplyHandler
    <3> QED  BY <1>1, <2>1, <3>1, <3>3, ReplyOthers, PromiseStep
  <2>3. CASE UNCHANGED <<store, recorded, raced>>
    BY <2>1, <2>3, ErrorStep
  <2> QED  BY <1>11, <2>2, <2>3 DEF CommitFails
<1> QED
  BY <1>2, <1>3, <1>4, <1>5, <1>6, <1>7, <1>8, <1>9, <1>10, <1>11 DEF Fund

LEMMA CapabilityPromise ==
  ASSUME PromiseInv, TypeInv', NEW t \in Task, Capability(t)
  PROVE  PromiseInv'
<1> DEFINE s == task[t]
<1> USE DEF history
<1>1. /\ TypeOK /\ TypeInv /\ s \in TaskState /\ HandlerInv(t)
      /\ s.since \in Nat /\ clock \in Nat
      /\ s.owed \subseteq Grant
      /\ \A h \in s.owed : h # None /\ h.expiry \in Nat
  BY GatewayAssumption, NoneIsNoValue
     DEF PromiseInv, TypeInv, TypeOK, TaskState, Grant
<1>2. ASSUME NEW c \in Client, CapabilityAsk(t, c)
      PROVE  PromiseInv'
  <2>1. Arrive(t, "read", c, None)
    BY <1>2 DEF CapabilityAsk
  <2>2. UNCHANGED <<clock, store, raced, told>>
    BY <2>1 DEF Arrive
  <2>3. /\ task'[t].pc = "read" /\ task'[t].since = clock
        /\ task'[t].client = c
        /\ task'[t].owed = {g \in told : g.signer = c}
        /\ \A u \in Task \ {t} : task'[u] = task[u]
    BY <1>1, <2>1, ArriveTask
  <2>4. HandlerInv(t)'
    BY <1>1, <2>2, <2>3 DEF HandlerInv, At
  <2> QED  BY <2>2, <2>3, <2>4, QuietStep
<1>3. CASE CapabilityRead(t)
  <2> DEFINE r == store[s.client]
  <2>1. s.client \in Client
    BY <1>1, <1>3 DEF CapabilityRead, TypeInv, Carried, At
  <2>2. /\ task'[t].pc = "judge" /\ task'[t].seen = r
        /\ task'[t].since = s.since /\ task'[t].owed = s.owed
        /\ task'[t].client = s.client
        /\ \A u \in Task \ {t} : task'[u] = task[u]
    BY <1>1, <1>3 DEF CapabilityRead, TypeOK, TaskState
  <2>3. UNCHANGED <<clock, store, raced, told>>
    BY <1>3 DEF CapabilityRead
  <2>4. r # None => r \in Grant /\ Kept(r)
    BY <1>1, <2>1 DEF PromiseInv, OwnSigner, TypeOK, Kept
  <2>5. \A h \in s.owed : r = h \/ Settled(h)
    BY <1>1 DEF PromiseInv, KeepsPromise, HandlerInv, Kept, Settled
  <2>6. HandlerInv(t)'
    BY <1>1, <2>2, <2>3, <2>4, <2>5
       DEF HandlerInv, At, Kept, Settled, Expired
  <2> QED  BY <2>2, <2>3, <2>6, QuietStep
<1>4. CASE CapabilityReadFails(t)
  BY <1>4, ErrorStep DEF CapabilityReadFails
<1>5. CASE CapabilityJudge(t)
  <2> PICK g : g = s.seen
    OBVIOUS
  <2>1. /\ At(t, "judge")
        /\ g # None => g \in Grant /\ Kept(g)
        /\ \A h \in s.owed : g = h \/ Settled(h)
        /\ UNCHANGED <<clock, store, raced, told>>
    BY <1>1, <1>5 DEF CapabilityJudge, HandlerInv
  <2>2. 200 \in Status /\ 204 \in Status
    BY DEF Status
  <2>3. ASSUME Fresh(g, clock), Reply(t, 200, g), Stable
        PROVE  HandlerInv(t)'
    <3>1. g \in Grant /\ Kept(g)'
      BY <2>1, <2>3 DEF Fresh, Stable
    <3>2. g.expiry > s.since
      BY <1>1, <2>3, <3>1, GatewayAssumption DEF Fresh, HandlerInv, Grant
    <3>3. \A h \in s.owed : g = h \/ Settled(h)'
      BY <1>1, <2>1, <2>3 DEF Stable
    <3> QED  BY <2>2, <2>3, <3>1, <3>2, <3>3, ReplyHandler
  <2>4. ASSUME ~Fresh(g, clock), Reply(t, 204, None), Stable
        PROVE  HandlerInv(t)'
    <3>1. \A h \in s.owed : Settled(h)
      BY <1>1, <2>1, <2>4 DEF Fresh, Settled, Expired
    <3>2. \A h \in s.owed : Settled(h)'
      BY <1>1, <2>4, <3>1 DEF Stable
    <3> QED  BY <2>2, <2>4, <3>2, ReplyHandler
  <2>5. \/ Fresh(g, clock) /\ Reply(t, 200, g)
        \/ ~Fresh(g, clock) /\ Reply(t, 204, None)
    BY <1>5 DEF CapabilityJudge
  <2>6. \A u \in Task \ {t} : task'[u] = task[u]
    BY <1>1, <2>5, ReplyOthers
  <2> QED  BY <2>1, <2>3, <2>4, <2>5, <2>6, QuietStep
<1> QED
  BY <1>2, <1>3, <1>4, <1>5 DEF Capability

(* A slot without a request owes nothing.                                  *)
LEMMA IdleHandler ==
  ASSUME TypeOK', NEW t \in Task, task'[t].pc = "idle",
         task'[t].since = 0, task'[t].owed = {}
  PROVE  HandlerInv(t)'
  BY GatewayAssumption DEF HandlerInv, At, TypeOK

LEMMA OtherPromise ==
  ASSUME PromiseInv, TypeInv',
         \/ \E t \in Task : Respond(t) \/ HangUp(t)
         \/ Crash \/ Boot \/ Tick \/ UNCHANGED vars
  PROVE  PromiseInv'
<1> USE DEF history
<1>1. TypeOK /\ TypeInv /\ TypeOK' /\ clock \in Nat
  BY GatewayAssumption DEF PromiseInv, TypeInv, TypeOK
<1>2. ASSUME NEW t \in Task, Respond(t)
      PROVE  PromiseInv'
  <2>1. /\ task'[t].pc = "idle" /\ task'[t].since = 0 /\ task'[t].owed = {}
        /\ \A u \in Task \ {t} : task'[u] = task[u]
    BY <1>1, <1>2, IdleTask DEF Respond
  <2>2. HandlerInv(t)'
    BY <1>1, <2>1, IdleHandler
  <2>3. store' = store /\ clock' = clock /\ raced' = raced /\ told \subseteq told'
    BY <1>2 DEF Respond
  <2>4. Stable
    BY <1>1, <2>3, QuietStable
  <2>5. OwnSigner'
    BY <2>3 DEF PromiseInv, OwnSigner
  <2>6. KeepsPromise'
    BY <1>2, <2>3 DEF Respond, PromiseInv, KeepsPromise, HandlerInv, Kept, Expired
  <2> QED  BY <2>1, <2>2, <2>4, <2>5, <2>6, PromiseStep
<1>3. ASSUME NEW t \in Task, HangUp(t)
      PROVE  PromiseInv'
  <2>1. /\ task'[t].pc = "idle" /\ task'[t].since = 0 /\ task'[t].owed = {}
        /\ \A u \in Task \ {t} : task'[u] = task[u]
    BY <1>1, <1>3, IdleTask DEF HangUp
  <2> QED  BY <1>1, <1>3, <2>1, IdleHandler, QuietStep DEF HangUp
<1>4. CASE Crash
  <2>1. /\ \A t \in Task :
             task'[t].pc = "idle" /\ task'[t].since = 0 /\ task'[t].owed = {}
        /\ UNCHANGED <<clock, store, raced, told>>
    BY <1>4 DEF Crash, Idle
  <2>2. \A t \in Task : HandlerInv(t)'
    BY <1>1, <2>1, IdleHandler
  <2> QED
    BY <2>1, <2>2 DEF PromiseInv, OwnSigner, KeepsPromise, Kept, Expired
<1>5. CASE Boot \/ Tick \/ UNCHANGED vars
  <2>1. task' = task /\ store' = store /\ raced' = raced /\ told' = told
    BY <1>5 DEF Boot, Tick, vars
  <2>2. Stable
    <3>1. clock <= clock'
      BY <1>1, <1>5 DEF Boot, Tick, vars
    <3> QED  BY <1>1, <2>1, <3>1, QuietStable
  <2>3. KeepsPromise'
    <3>1. \A g \in told : g \in Grant /\ Kept(g)
      BY <1>1 DEF PromiseInv, KeepsPromise, TypeOK
    <3>2. \A g \in told' : Kept(g)'
      BY <2>1, <2>2, <3>1 DEF Stable
    <3> QED  BY <3>2 DEF KeepsPromise
  <2>4. OwnSigner'
    BY <2>1 DEF PromiseInv, OwnSigner
  <2>5. \A t \in Task : HandlerInv(t)'
    BY <1>1, <2>1, <2>2, OtherHandlers DEF PromiseInv, TypeInv
  <2> QED  BY <2>3, <2>4, <2>5 DEF PromiseInv
<1> QED
  BY <1>2, <1>3, <1>4, <1>5

LEMMA PromiseInvInit == Init => PromiseInv
<1> SUFFICES ASSUME Init PROVE PromiseInv
  OBVIOUS
<1>1. TypeInv
  BY TypeInvInit
<1>2. \A t \in Task : HandlerInv(t)
  BY DEF Init, Idle, HandlerInv, At
<1> QED  BY <1>1, <1>2 DEF PromiseInv, Init, OwnSigner, KeepsPromise

LEMMA PromiseInvNext == PromiseInv /\ [Next]_vars => PromiseInv'
<1> SUFFICES ASSUME PromiseInv, [Next]_vars PROVE PromiseInv'
  OBVIOUS
<1>1. TypeInv'
  BY TypeInvNext DEF PromiseInv
<1> QED  BY <1>1, FundPromise, CapabilityPromise, OtherPromise DEF Next

THEOREM PromiseInvariant == Spec => []PromiseInv
  BY PromiseInvInit, PromiseInvNext, PTL DEF Spec

(* What a client was told stays in the store until it expires, through     *)
(* every interleaving of requests, lost reply, failed commit and crash,    *)
(* unless a concurrent POST /fund that had missed it overwrites it.        *)
THEOREM PromiseKept == Spec => []KeepsPromise
<1>1. PromiseInv => KeepsPromise
  BY DEF PromiseInv
<1> QED  BY <1>1, PromiseInvariant, PTL

(* POST /fund is idempotent per signer, and GET /capability returns the    *)
(* exact token the client was given.                                       *)
THEOREM SameToken == Spec => []SameTokenReply
<1>1. PromiseInv => SameTokenReply
  BY DEF PromiseInv, SameTokenReply, HandlerInv, Settled
<1> QED  BY <1>1, PromiseInvariant, PTL

(* No 200 carries a token that had expired before its request arrived.     *)
THEOREM NeverStale == Spec => []NoStaleReply
<1>1. PromiseInv => NoStaleReply
  BY DEF PromiseInv, NoStaleReply, HandlerInv
<1> QED  BY <1>1, PromiseInvariant, PTL

-----------------------------------------------------------------------------
(* Refinement.  What a handler answers with has entered the book.          *)
Entered(t) ==
  /\ At(t, "judge") /\ task[t].seen # None => task[t].seen \in recorded
  /\ At(t, "respond") /\ task[t].status = 200 => task[t].grant \in recorded

BookInv ==
  /\ \A c \in Client : store[c] # None => store[c] \in recorded
  /\ \A t \in Task : Entered(t)

LEMMA BookStep ==
  ASSUME BookInv, store' = store, recorded' = recorded,
         NEW t \in Task, Entered(t)',
         \A u \in Task \ {t} : task'[u] = task[u]
  PROVE  BookInv'
<1>1. ASSUME NEW u \in Task PROVE Entered(u)'
  BY DEF BookInv, Entered, At
<1> QED  BY <1>1 DEF BookInv

(* A handler moves to a state in which it neither judges nor answers 200.  *)
LEMMA BookQuiet ==
  ASSUME BookInv, store' = store, recorded' = recorded,
         NEW t \in Task, task'[t].pc # "judge",
         task'[t].pc = "respond" => task'[t].status # 200,
         \A u \in Task \ {t} : task'[u] = task[u]
  PROVE  BookInv'
<1>1. Entered(t)'
  BY DEF Entered, At
<1> QED  BY <1>1, BookStep

LEMMA ReplyFields ==
  ASSUME TypeOK, NEW t \in Task, NEW code, NEW g, Reply(t, code, g)
  PROVE  /\ task'[t].pc = "respond"
         /\ task'[t].status = code
         /\ task'[t].grant = g
         /\ \A u \in Task \ {t} : task'[u] = task[u]
  BY DEF Reply, TypeOK, TaskState

LEMMA PutGrantBook ==
  ASSUME TypeInv, BookInv, NEW t \in Task, At(t, "commit"), PutGrant(t),
         NEW code \in {200, 500}, NEW g, Reply(t, code, g),
         code = 200 => g = task[t].grant
  PROVE  BookInv'
<1>1. /\ task[t].client \in Client
      /\ store' = [store EXCEPT ![task[t].client] = task[t].grant]
      /\ recorded' = recorded \cup {task[t].grant}
  BY DEF TypeInv, Carried, At, PutGrant
<1>2. \A c \in Client : store'[c] # None => store'[c] \in recorded'
  BY <1>1 DEF BookInv, TypeInv, TypeOK
<1>3. /\ task'[t].pc = "respond" /\ task'[t].status = code
      /\ task'[t].grant = g
      /\ \A u \in Task \ {t} : task'[u] = task[u]
  BY ReplyFields DEF TypeInv
<1>4. ASSUME NEW u \in Task PROVE Entered(u)'
  BY <1>1, <1>3 DEF BookInv, Entered, At
<1> QED  BY <1>2, <1>4 DEF BookInv

LEMMA BookInvNext == TypeInv /\ BookInv /\ [Next]_vars => BookInv'
<1> SUFFICES ASSUME TypeInv, BookInv, [Next]_vars PROVE BookInv'
  OBVIOUS
<1> USE DEF history
<1>1. TypeOK
  BY DEF TypeInv
<1>2. ASSUME NEW t \in Task, NEW code \in Status \ {200}, Reply(t, code, None),
             store' = store, recorded' = recorded
      PROVE  BookInv'
  BY <1>1, <1>2, ReplyFields, BookQuiet
<1>3. 204 \in Status \ {200} /\ 403 \in Status \ {200} /\ 500 \in Status \ {200}
  BY DEF Status
<1>4. ASSUME NEW t \in Task, Fund(t) PROVE BookInv'
  <2>1. ASSUME NEW c \in Client, NEW s \in Solution, FundSubmit(t, c, s)
        PROVE  BookInv'
    <3>1. /\ task'[t].pc = "verify"
          /\ \A u \in Task \ {t} : task'[u] = task[u]
      BY <1>1, <2>1, ArriveTask DEF FundSubmit
    <3>2. store' = store /\ recorded' = recorded
      BY <2>1 DEF FundSubmit, Arrive
    <3> QED  BY <3>1, <3>2, BookQuiet
  <2>2. CASE Malformed(t)
    <3>1. /\ task'[t].pc = "respond" /\ task'[t].status = 400
          /\ \A u \in Task \ {t} : task'[u] = task[u]
      BY <1>1, <2>2, MalformedTask
    <3>2. store' = store /\ recorded' = recorded
      BY <2>2 DEF Malformed
    <3> QED  BY <3>1, <3>2, BookQuiet
  <2>3. CASE VerifyPass(t)
    <3>1. task'[t].pc = "lookup" /\ \A u \in Task \ {t} : task'[u] = task[u]
      BY <1>1, <2>3 DEF VerifyPass, TypeOK, TaskState
    <3> QED  BY <2>3, <3>1, BookQuiet DEF VerifyPass
  <2>4. CASE VerifyReject(t)
    BY <1>2, <1>3, <2>4 DEF VerifyReject
  <2>5. CASE VerifyError(t)
    BY <1>2, <1>3, <2>5 DEF VerifyError
  <2>6. CASE FundFound(t)
    <3>1. /\ task[t].client \in Client
          /\ store[task[t].client] # None
          /\ Reply(t, 200, store[task[t].client])
      BY <2>6 DEF FundFound, Fresh, TypeInv, Carried, At
    <3>2. /\ task'[t].pc = "respond" /\ task'[t].grant = store[task[t].client]
          /\ \A u \in Task \ {t} : task'[u] = task[u]
      BY <1>1, <3>1, ReplyFields
    <3>3. recorded' = recorded /\ store' = store
      BY <2>6 DEF FundFound
    <3>4. Entered(t)'
      BY <3>1, <3>2, <3>3 DEF Entered, At, BookInv
    <3> QED  BY <3>2, <3>3, <3>4, BookStep
  <2>7. CASE FundMiss(t)
    <3>1. task'[t].pc = "commit" /\ \A u \in Task \ {t} : task'[u] = task[u]
      BY <1>1, <2>7 DEF FundMiss, TypeOK, TaskState
    <3> QED  BY <2>7, <3>1, BookQuiet DEF FundMiss
  <2>8. CASE FundFails(t)
    BY <1>2, <1>3, <2>8 DEF FundFails
  <2>9. CASE Commit(t)
    BY <2>9, PutGrantBook DEF Commit
  <2>10. CASE CommitFails(t)
    <3>1. CASE PutGrant(t)
      BY <2>10, <3>1, PutGrantBook DEF CommitFails
    <3>2. CASE UNCHANGED <<store, recorded, raced>>
      BY <1>2, <1>3, <2>10, <3>2 DEF CommitFails
    <3> QED  BY <2>10, <3>1, <3>2 DEF CommitFails
  <2> QED
    BY <1>4, <2>1, <2>2, <2>3, <2>4, <2>5, <2>6, <2>7, <2>8, <2>9, <2>10 DEF Fund
<1>5. ASSUME NEW t \in Task, Capability(t) PROVE BookInv'
  <2>1. ASSUME NEW c \in Client, CapabilityAsk(t, c) PROVE BookInv'
    <3>1. /\ task'[t].pc = "read"
          /\ \A u \in Task \ {t} : task'[u] = task[u]
      BY <1>1, <2>1, ArriveTask DEF CapabilityAsk
    <3>2. store' = store /\ recorded' = recorded
      BY <2>1 DEF CapabilityAsk, Arrive
    <3> QED  BY <3>1, <3>2, BookQuiet
  <2>2. CASE CapabilityRead(t)
    <3>1. task[t].client \in Client
      BY <2>2 DEF CapabilityRead, TypeInv, Carried, At
    <3>2. /\ task'[t].pc = "judge" /\ task'[t].seen = store[task[t].client]
          /\ \A u \in Task \ {t} : task'[u] = task[u]
      BY <1>1, <2>2 DEF CapabilityRead, TypeOK, TaskState
    <3>3. recorded' = recorded /\ store' = store
      BY <2>2 DEF CapabilityRead
    <3>4. Entered(t)'
      BY <3>1, <3>2, <3>3 DEF Entered, At, BookInv
    <3> QED  BY <3>2, <3>3, <3>4, BookStep
  <2>3. CASE CapabilityReadFails(t)
    BY <1>2, <1>3, <2>3 DEF CapabilityReadFails
  <2>4. CASE CapabilityJudge(t)
    <3>1. CASE Fresh(task[t].seen, clock)
      <4>1. /\ Reply(t, 200, task[t].seen) /\ task[t].seen \in recorded
            /\ recorded' = recorded /\ store' = store
        BY <2>4, <3>1 DEF CapabilityJudge, Fresh, BookInv, Entered
      <4>2. /\ task'[t].pc = "respond" /\ task'[t].grant = task[t].seen
            /\ \A u \in Task \ {t} : task'[u] = task[u]
        BY <1>1, <4>1, ReplyFields
      <4>3. Entered(t)'
        BY <4>1, <4>2 DEF Entered, At
      <4> QED  BY <4>1, <4>2, <4>3, BookStep
    <3>2. CASE ~Fresh(task[t].seen, clock)
      BY <1>2, <1>3, <2>4, <3>2 DEF CapabilityJudge
    <3> QED  BY <3>1, <3>2
  <2> QED  BY <1>5, <2>1, <2>2, <2>3, <2>4 DEF Capability
<1>6. ASSUME NEW t \in Task, Respond(t) PROVE BookInv'
  BY <1>1, <1>6, IdleTask, BookQuiet DEF Respond
<1>7. ASSUME NEW t \in Task, HangUp(t) PROVE BookInv'
  BY <1>1, <1>7, IdleTask, BookQuiet DEF HangUp
<1>8. CASE Crash
  <2>1. \A t \in Task : task'[t].pc = "idle"
    BY <1>8 DEF Crash, Idle
  <2> QED  BY <1>8, <2>1 DEF Crash, BookInv, Entered, At
<1>9. CASE Boot \/ Tick \/ UNCHANGED vars
  BY <1>9 DEF Boot, Tick, vars, BookInv, Entered, At
<1> QED
  BY <1>4, <1>5, <1>6, <1>7, <1>8, <1>9 DEF Next

THEOREM BookInvariant == Spec => []BookInv
<1>1. Init => BookInv
  BY DEF Init, BookInv, Entered, At, Idle
<1> QED  BY <1>1, BookInvNext, TypeInvariant, PTL DEF Spec

(* The licences GrantBook sees, when one handler t moves.                  *)
LEMMA LicenceGained ==
  ASSUME NEW t \in Task, NEW c, task'[t].pc = "commit", task'[t].client = c,
         \A u \in Task \ {t} : task'[u] = task[u]
  PROVE  Licence' = [Licence EXCEPT ![t] = c]
  BY DEF Licence, At

LEMMA LicenceLost ==
  ASSUME NEW t \in Task, task'[t].pc # "commit",
         \A u \in Task \ {t} : task'[u] = task[u]
  PROVE  /\ Licence' = [Licence EXCEPT ![t] = None]
         /\ Licence' = [u \in Task |-> IF u \in {t} THEN None ELSE Licence[u]]
         /\ ~At(t, "commit") => Licence' = Licence
  BY DEF Licence, At

(* A step that neither signs nor records nor tells is a stutter, or gives  *)
(* a licence up.                                                           *)
LEMMA QuietBook ==
  ASSUME TypeOK, UNCHANGED <<clock, store, recorded, told>>,
         NEW t \in Task, task'[t].pc # "commit",
         \A u \in Task \ {t} : task'[u] = task[u]
  PROVE  Book!Next \/ UNCHANGED Book!vars
<1>1. CASE ~At(t, "commit")
  BY <1>1, LicenceLost DEF Book!vars
<1>2. CASE At(t, "commit")
  <2>1. Book!Forfeit({t})
    BY LicenceLost DEF Book!Forfeit
  <2> QED  BY <2>1 DEF Book!Next
<1> QED  BY <1>1, <1>2

LEMMA ReplyBook ==
  ASSUME TypeOK, UNCHANGED <<clock, store, recorded, told>>,
         NEW t \in Task, NEW code, NEW g, Reply(t, code, g)
  PROVE  Book!Next \/ UNCHANGED Book!vars
  BY ReplyFields, QuietBook

(* A lookup that finds no valid grant takes a licence: what had expired at *)
(* the handler's sample of the clock has expired now.                      *)
LEMMA FundMissBook ==
  ASSUME PromiseInv, NEW t \in Task, FundMiss(t)
  PROVE  Book!Next
<1> DEFINE s == task[t]
           r == store[s.client]
<1>1. /\ TypeOK /\ s.client \in Client /\ At(t, "lookup")
      /\ s.now \in Nat /\ clock \in Nat /\ s.now <= clock
      /\ r # None => r.expiry \in Nat
  BY GatewayAssumption
     DEF PromiseInv, TypeInv, TypeOK, TaskState, Carried, HandlerInv, FundMiss,
         At, Grant
<1>2. ~Book!Valid(r)
  BY <1>1 DEF FundMiss, Fresh, Book!Valid
<1>3. /\ task'[t].pc = "commit" /\ task'[t].client = s.client
      /\ \A u \in Task \ {t} : task'[u] = task[u]
  BY <1>1 DEF FundMiss, TypeOK, TaskState
<1>4. Licence' = [Licence EXCEPT ![t] = s.client]
  BY <1>3, LicenceGained
<1>5. Licence[t] = None
  BY <1>1 DEF Licence, At
<1>6. Book!License(t, s.client)
  BY <1>2, <1>4, <1>5 DEF Book!License, FundMiss
<1> QED  BY <1>1, <1>6 DEF Book!Next

(* A grant enters the book under the licence its handler holds, and lives  *)
(* no longer than Ttl from now.                                            *)
LEMMA RecordBook ==
  ASSUME PromiseInv, NEW t \in Task, At(t, "commit"), PutGrant(t),
         UNCHANGED <<clock, told>>,
         NEW code, NEW g, Reply(t, code, g)
  PROVE  Book!Next
<1> DEFINE s == task[t]
           e == SatAdd(s.now, Ttl)
<1>1. /\ TypeOK /\ s.client \in Client
      /\ s.now \in 0..MaxTime /\ clock \in 0..MaxTime /\ s.now <= clock
      /\ s.grant = [signer |-> s.client, expiry |-> e]
  BY DEF PromiseInv, TypeInv, TypeOK, TaskState, Carried, HandlerInv, At, Issue
<1>2. e \in 0..Book!SatAdd(clock, Ttl)
  BY <1>1, GatewayAssumption DEF SatAdd, Book!SatAdd
<1>3. Licence[t] = s.client
  BY DEF Licence
<1>4. Licence' = [Licence EXCEPT ![t] = None]
  BY <1>1, ReplyFields, LicenceLost
<1>5. s.client # None
  BY <1>1, NoneIsNoValue
<1> HIDE DEF e
<1>6. /\ store' = [store EXCEPT ![Licence[t]] =
                       [signer |-> Licence[t], expiry |-> e]]
      /\ recorded' = recorded \cup {[signer |-> Licence[t], expiry |-> e]}
  BY <1>1, <1>3 DEF PutGrant
<1>7. Book!Record(t)
  BY <1>2, <1>3, <1>4, <1>5, <1>6 DEF Book!Record
<1> QED  BY <1>7 DEF Book!Next

LEMMA FundBook ==
  ASSUME PromiseInv, NEW t \in Task, Fund(t)
  PROVE  Book!Next \/ UNCHANGED Book!vars
<1> USE DEF history
<1>1. TypeOK
  BY DEF PromiseInv, TypeInv
<1>2. ASSUME NEW c \in Client, NEW x \in Solution, FundSubmit(t, c, x)
      PROVE  Book!Next \/ UNCHANGED Book!vars
  <2>1. /\ task'[t].pc = "verify"
        /\ \A u \in Task \ {t} : task'[u] = task[u]
    BY <1>1, <1>2, ArriveTask DEF FundSubmit
  <2>2. UNCHANGED <<clock, store, recorded, told>>
    BY <1>2 DEF FundSubmit, Arrive
  <2> QED  BY <1>1, <2>1, <2>2, QuietBook
<1>3. CASE Malformed(t)
  <2>1. /\ task'[t].pc = "respond"
        /\ \A u \in Task \ {t} : task'[u] = task[u]
    BY <1>1, <1>3, MalformedTask
  <2>2. UNCHANGED <<clock, store, recorded, told>>
    BY <1>3 DEF Malformed
  <2> QED  BY <1>1, <2>1, <2>2, QuietBook
<1>4. CASE VerifyPass(t)
  <2>1. /\ task'[t].pc = "lookup"
        /\ \A u \in Task \ {t} : task'[u] = task[u]
    BY <1>1, <1>4 DEF VerifyPass, TypeOK, TaskState
  <2>2. UNCHANGED <<clock, store, recorded, told>>
    BY <1>4 DEF VerifyPass
  <2> QED  BY <1>1, <2>1, <2>2, QuietBook
<1>5. CASE VerifyReject(t)
  BY <1>1, <1>5, ReplyBook DEF VerifyReject
<1>6. CASE VerifyError(t)
  BY <1>1, <1>6, ReplyBook DEF VerifyError
<1>7. CASE FundFound(t)
  <2>1. Reply(t, 200, store[task[t].client])
    BY <1>7 DEF FundFound
  <2>2. UNCHANGED <<clock, store, recorded, told>>
    BY <1>7 DEF FundFound
  <2> QED  BY <1>1, <2>1, <2>2, ReplyBook
<1>8. CASE FundMiss(t)
  BY <1>8, FundMissBook
<1>9. CASE FundFails(t)
  BY <1>1, <1>9, ReplyBook DEF FundFails
<1>10. CASE Commit(t)
  BY <1>10, RecordBook DEF Commit
<1>11. CASE CommitFails(t)
  <2>1. CASE PutGrant(t)
    BY <1>11, <2>1, RecordBook DEF CommitFails
  <2>2. CASE UNCHANGED <<store, recorded, raced>>
    BY <1>1, <1>11, <2>2, ReplyBook DEF CommitFails
  <2> QED  BY <1>11, <2>1, <2>2 DEF CommitFails
<1> QED
  BY <1>2, <1>3, <1>4, <1>5, <1>6, <1>7, <1>8, <1>9, <1>10, <1>11 DEF Fund

LEMMA CapabilityBook ==
  ASSUME PromiseInv, NEW t \in Task, Capability(t)
  PROVE  Book!Next \/ UNCHANGED Book!vars
<1> USE DEF history
<1>1. TypeOK
  BY DEF PromiseInv, TypeInv
<1>2. ASSUME NEW c \in Client, CapabilityAsk(t, c)
      PROVE  Book!Next \/ UNCHANGED Book!vars
  <2>1. /\ task'[t].pc = "read"
        /\ \A u \in Task \ {t} : task'[u] = task[u]
    BY <1>1, <1>2, ArriveTask DEF CapabilityAsk
  <2>2. UNCHANGED <<clock, store, recorded, told>>
    BY <1>2 DEF CapabilityAsk, Arrive
  <2> QED  BY <1>1, <2>1, <2>2, QuietBook
<1>3. CASE CapabilityRead(t)
  <2>1. /\ task'[t].pc = "judge"
        /\ \A u \in Task \ {t} : task'[u] = task[u]
    BY <1>1, <1>3 DEF CapabilityRead, TypeOK, TaskState
  <2>2. UNCHANGED <<clock, store, recorded, told>>
    BY <1>3 DEF CapabilityRead
  <2> QED  BY <1>1, <2>1, <2>2, QuietBook
<1>4. CASE CapabilityReadFails(t)
  BY <1>1, <1>4, ReplyBook DEF CapabilityReadFails
<1>5. CASE CapabilityJudge(t)
  <2>1. Reply(t, 200, task[t].seen) \/ Reply(t, 204, None)
    BY <1>5 DEF CapabilityJudge
  <2>2. UNCHANGED <<clock, store, recorded, told>>
    BY <1>5 DEF CapabilityJudge
  <2> QED  BY <1>1, <2>1, <2>2, ReplyBook
<1> QED  BY <1>2, <1>3, <1>4, <1>5 DEF Capability

LEMMA GatewayStepsBook ==
  PromiseInv /\ BookInv /\ [Next]_vars => [Book!Next]_(Book!vars)
<1> SUFFICES ASSUME PromiseInv, BookInv, [Next]_vars
             PROVE  Book!Next \/ UNCHANGED Book!vars
  OBVIOUS
<1> USE DEF history
<1>1. TypeOK
  BY DEF PromiseInv, TypeInv
<1>2. ASSUME NEW t \in Task, Respond(t)
      PROVE  Book!Next \/ UNCHANGED Book!vars
  <2>1. /\ task'[t].pc = "idle"
        /\ \A u \in Task \ {t} : task'[u] = task[u]
    BY <1>1, <1>2, IdleTask DEF Respond
  <2>2. Licence' = Licence
    BY <1>2, <2>1, LicenceLost DEF Respond, At
  <2>3. CASE task[t].status = 200
    <3>1. task[t].grant \in recorded
      BY <1>2, <2>3 DEF BookInv, Entered, Respond
    <3>2. Book!HandOut(task[t].grant)
      BY <1>2, <2>2, <2>3 DEF Respond, Book!HandOut
    <3> QED  BY <3>1, <3>2 DEF Book!Next
  <2>4. CASE task[t].status # 200
    BY <1>2, <2>2, <2>4 DEF Respond, Book!vars
  <2> QED  BY <2>3, <2>4
<1>3. ASSUME NEW t \in Task, HangUp(t)
      PROVE  Book!Next \/ UNCHANGED Book!vars
  <2>1. /\ task'[t].pc = "idle"
        /\ \A u \in Task \ {t} : task'[u] = task[u]
    BY <1>1, <1>3, IdleTask DEF HangUp
  <2>2. UNCHANGED <<clock, store, recorded, told>>
    BY <1>3 DEF HangUp
  <2> QED  BY <1>1, <2>1, <2>2, QuietBook
<1>4. CASE Crash
  <2>1. Licence' = [u \in Task |-> IF u \in Task THEN None ELSE Licence[u]]
    BY <1>4 DEF Crash, Licence, At, Idle
  <2>2. Book!Forfeit(Task)
    BY <1>4, <2>1 DEF Crash, Book!Forfeit
  <2> QED  BY <2>2 DEF Book!Next
<1>5. CASE Boot
  BY <1>5 DEF Boot, Book!vars, Licence, At
<1>6. CASE Tick
  <2>1. Book!Tick
    BY <1>6 DEF Tick, Book!Tick, Licence, At
  <2> QED  BY <2>1 DEF Book!Next
<1>7. CASE UNCHANGED vars
  BY <1>7 DEF vars, Book!vars, Licence, At
<1> QED
  BY <1>2, <1>3, <1>4, <1>5, <1>6, <1>7, FundBook, CapabilityBook DEF Next

(* The service keeps GrantBook's promise: a capability is issued only under *)
(* a licence taken while none was valid, lives at most Ttl, and is handed   *)
(* out only once it is in the store.                                        *)
THEOREM Refines == Spec => ImplementsGrantBook
<1>1. Init => Book!Init
  BY GatewayAssumption DEF Init, Book!Init, Licence, At, Idle
<1>2. PromiseInv /\ BookInv /\ [Next]_vars => [Book!Next]_(Book!vars)
  BY GatewayStepsBook
<1> QED
  BY <1>1, <1>2, PromiseInvariant, BookInvariant, PTL
     DEF Spec, ImplementsGrantBook, Book!Spec
=============================================================================
