------------------------------ MODULE PdaLogin ------------------------------
(***************************************************************************)
(* Signing in at a PDA and out again (pda.js: afterBoot, submitLogin,      *)
(* startFaceCamera, watchFace, enterWork, the account form, logoutYes, and *)
(* the screens they show).                                                 *)
(*                                                                         *)
(* Each opening of the camera is a coroutine in a slot of its own.  Its    *)
(* run number is compared with faceRun only, which stopFaceCamera counts   *)
(* up: here that makes every coroutine stale.  Who works is S.operator,    *)
(* and sessionStorage remembers who entered last.                          *)
(***************************************************************************)
EXTENDS Integers, Sequences

CONSTANTS
  Workers,        \* employee numbers
  Nobody,
  Need,           \* frames that must match (data.need)
  MaxCameras,     \* bound: camera coroutines at a time
  MaxSaves        \* bound: reports saved

ASSUME LoginAssumption ==
  /\ Nobody \notin Workers
  /\ Need \in Nat \ {0} /\ MaxCameras \in Nat \ {0} /\ MaxSaves \in Nat

VARIABLES
  view,           \* S.screen: "account", "faceSetup", "face", or the work screens "home", "ctx"
  stack,          \* navigationStack
  operator,       \* S.operator
  remembered,     \* sessionStorage: shiftlink.operator
  fromLink,         \* S.linkedEquipment is there
  cameras,        \* the coroutines, by slot
  loggingIn,         \* whose account login is being answered
  reporting,      \* a report is being saved
  checked,        \* history: employees checked since the last sign-out
  late,           \* history: home was shown by a save that ended on a sign-in screen
  saves           \* reports sent

loginVars == <<view, stack, operator, remembered, fromLink, cameras, loggingIn, reporting,
               checked, late, saves>>

WorkScreens == {"home", "ctx"}
CameraSlots == 1 .. MaxCameras
Off == [at |-> "off", stale |-> FALSE, matched |-> 0, of |-> {}]

\* stopFaceCamera
StopFace(c) == [i \in CameraSlots |-> [c[i] EXCEPT !.stale = (c[i].at # "off")]]

\* show(name): home and account forget the way back, leaving "face" stops the camera.
ShowScreen(name, c) ==
  /\ view' = name
  /\ stack' = IF name \in {"home", "account"} THEN <<>>
              ELSE IF name = view THEN stack ELSE Append(stack, view)
  /\ cameras' = IF view = "face" /\ name # "face" THEN StopFace(c) ELSE c

EnterWork(who, c) ==
  /\ operator' = who /\ remembered' = who
  /\ ShowScreen(IF fromLink THEN "ctx" ELSE "home", c)

LoginInit ==
  /\ view = "account" /\ stack = <<>> /\ fromLink \in BOOLEAN
  /\ operator = Nobody /\ remembered = Nobody
  /\ cameras = [i \in CameraSlots |-> Off] /\ loggingIn = Nobody /\ reporting = FALSE
  /\ checked = {} /\ late = FALSE /\ saves = 0

\* boot and afterBoot, in the same tab or in a new window: a fresh page knows only what
\* the tab remembers.
Reopen ==
  /\ remembered' \in {remembered, Nobody} /\ operator' = remembered'
  /\ fromLink' \in BOOLEAN
  /\ view' = IF operator' = Nobody THEN "account" ELSE IF fromLink' THEN "ctx" ELSE "home"
  /\ stack' = <<>> /\ cameras' = [i \in CameraSlots |-> Off]
  /\ loggingIn' = Nobody /\ reporting' = FALSE /\ late' = FALSE
  /\ UNCHANGED <<checked, saves>>

-----------------------------------------------------------------------------
(* The sign-in screens.                                                    *)

openFaceSetup ==
  /\ view = "account" /\ ShowScreen("faceSetup", cameras)
  /\ UNCHANGED <<operator, remembered, fromLink, loggingIn, reporting, checked, late, saves>>

GoBack ==
  /\ view \notin {"account", "home"}
  /\ LET to == IF stack = <<>> THEN IF operator = Nobody THEN "account" ELSE "home"
               ELSE stack[Len(stack)]
         rest == IF stack = <<>> THEN <<>> ELSE SubSeq(stack, 1, Len(stack) - 1)
     IN /\ view' = to
        /\ stack' = IF to \in {"home", "account"} THEN <<>> ELSE rest
        /\ cameras' = IF view = "face" /\ to # "face" THEN StopFace(cameras) ELSE cameras
  /\ UNCHANGED <<operator, remembered, fromLink, loggingIn, reporting, checked, late, saves>>

\* A coroutine that is through frees its slot.
startFaceCamera(c) ==
  \E i \in CameraSlots :
    /\ c[i] = Off
    /\ cameras' = [StopFace(c) EXCEPT ![i] = [Off EXCEPT !.at = "opening"]]

\* S.operator is whoever typed a number, before anyone was looked at.
submitLogin(who) ==
  /\ view = "faceSetup"
  /\ operator' = who /\ view' = "face" /\ stack' = Append(stack, view)
  /\ startFaceCamera(cameras)
  /\ UNCHANGED <<remembered, fromLink, loggingIn, reporting, checked, late, saves>>

FaceRetry ==
  /\ view = "face" /\ startFaceCamera(cameras)
  /\ UNCHANGED <<view, stack, operator, remembered, fromLink, loggingIn, reporting,
                 checked, late, saves>>

FaceBypass ==
  /\ view = "face" /\ EnterWork(operator, cameras)
  /\ checked' = checked \cup {operator}
  /\ UNCHANGED <<fromLink, loggingIn, reporting, late, saves>>

-----------------------------------------------------------------------------
(* A camera coroutine, one step at a time.                                 *)

CameraStep(i, c) ==
  /\ cameras' = c
  /\ UNCHANGED <<view, stack, operator, remembered, fromLink, loggingIn, reporting,
                 checked, late, saves>>

\* Mutant: a run that was replaced counts while the face screen is shown.
FollowedOnScreen(i) == view = "face"
\* run === faceRun && S.screen === 'face'
Followed(i) == ~cameras[i].stale /\ view = "face"

\* getUserMedia has answered: a run that was replaced stops the camera of its successor.
CameraOpened(i) ==
  /\ cameras[i].at = "opening"
  /\ CameraStep(i, IF Followed(i) THEN [cameras EXCEPT ![i].at = "watching"]
             ELSE [StopFace(cameras) EXCEPT ![i] = Off])

\* No camera, no rule, a refused frame or too few matches: the worker may retry.
FaceFails(i) ==
  /\ cameras[i].at \in {"opening", "watching", "asked"}
  /\ CameraStep(i, [cameras EXCEPT ![i] = Off])

\* A frame goes out under the number typed last.
SendFrame(i) ==
  /\ cameras[i].at = "watching" /\ operator # Nobody
  /\ CameraStep(i, IF Followed(i) THEN [cameras EXCEPT ![i].at = "asked", ![i].of = @ \cup {operator}]
             ELSE [cameras EXCEPT ![i] = Off])

\* Its score; the wait of 800 ms begins with the last match that is needed.
FrameScored(i) ==
  /\ cameras[i].at = "asked"
  /\ \/ CameraStep(i, [cameras EXCEPT ![i].at = "watching"])
     \/ CameraStep(i, [cameras EXCEPT ![i].matched = @ + 1,
                                ![i].at = IF cameras[i].matched + 1 >= Need THEN "passed"
                                          ELSE "watching"])

FacePassed(i) ==
  /\ cameras[i].at = "passed"
  /\ checked' = checked \cup {w \in cameras[i].of : cameras[i].of = {w}}
  /\ IF Followed(i) THEN EnterWork(operator, [cameras EXCEPT ![i] = Off])
     ELSE /\ cameras' = [cameras EXCEPT ![i] = Off]
          /\ UNCHANGED <<view, stack, operator, remembered>>
  /\ UNCHANGED <<fromLink, loggingIn, reporting, late, saves>>

-----------------------------------------------------------------------------
(* The account form, a report that is saved meanwhile, and the way out.    *)

AskAccount(who) ==
  /\ view = "account" /\ loggingIn = Nobody
  /\ loggingIn' = who
  /\ UNCHANGED <<view, stack, operator, remembered, fromLink, cameras, reporting,
                 checked, late, saves>>

\* The answer enters from whatever screen is shown when it comes.
AccountAnswered ==
  /\ loggingIn # Nobody /\ loggingIn' = Nobody
  /\ \/ /\ EnterWork(loggingIn, cameras)
        /\ checked' = checked \cup {loggingIn}
     \/ UNCHANGED <<view, stack, operator, remembered, cameras, checked>>
  /\ UNCHANGED <<fromLink, reporting, late, saves>>

SendReport ==
  /\ view \in WorkScreens /\ ~reporting /\ saves < MaxSaves
  /\ reporting' = TRUE /\ saves' = saves + 1
  /\ UNCHANGED <<view, stack, operator, remembered, fromLink, cameras, loggingIn, checked, late>>

\* saveReport shows home when it is through, wherever the worker is by then.
ReportSent ==
  /\ reporting /\ reporting' = FALSE
  /\ \/ /\ ShowScreen("home", cameras) /\ late' = (late \/ view \notin WorkScreens)
     \/ UNCHANGED <<view, stack, cameras, late>>
  /\ UNCHANGED <<operator, remembered, fromLink, loggingIn, checked, saves>>

GoHome ==
  /\ view = "ctx" /\ ShowScreen("home", cameras)
  /\ UNCHANGED <<operator, remembered, fromLink, loggingIn, reporting, checked, late, saves>>

\* logoutYes
SignOut ==
  /\ view \in WorkScreens
  /\ operator' = Nobody /\ remembered' = Nobody /\ fromLink' = FALSE
  /\ ShowScreen("account", StopFace(cameras))
  /\ checked' = {} /\ late' = FALSE
  /\ UNCHANGED <<loggingIn, reporting, saves>>

\* pdaExit: the tab forgets the worker; the window closes if the request succeeds.
ExitRequested ==
  /\ remembered' = Nobody
  /\ UNCHANGED <<view, stack, operator, fromLink, cameras, loggingIn, reporting, checked, late, saves>>

LoginNext ==
  \/ Reopen \/ openFaceSetup \/ GoBack \/ FaceRetry \/ FaceBypass
  \/ \E who \in Workers : submitLogin(who) \/ AskAccount(who)
  \/ \E i \in CameraSlots :
       CameraOpened(i) \/ FaceFails(i) \/ SendFrame(i) \/ FrameScored(i) \/ FacePassed(i)
  \/ AccountAnswered \/ SendReport \/ ReportSent \/ GoHome \/ SignOut \/ ExitRequested

LoginSpec == LoginInit /\ [][LoginNext]_loginVars

-----------------------------------------------------------------------------
\* Whoever is at work, and whomever the tab remembers, was checked since the last sign-out: by
\* the camera under the very number that was typed, by the account, or by the configured bypass -
\* whatever number is typed while an earlier check, login or camera is still under way.  (A
\* report whose saving ends on a sign-in screen opens the home screen by itself; those visits
\* are set apart.)
WorkersWereChecked ==
  /\ (view \in WorkScreens /\ ~late) => operator \in checked
  /\ remembered \in checked \cup {Nobody}
=============================================================================
