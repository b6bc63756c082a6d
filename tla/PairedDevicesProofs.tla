------------------------ MODULE PairedDevicesProofs ------------------------
(***************************************************************************)
(* Proofs about PairedDevices.                                             *)
(***************************************************************************)
EXTENDS PairedDevices, TLAPS

(* What a command holds, stage by stage.                                   *)
LEMMA Holds ==
  ASSUME NEW x \in Commands
  PROVE  /\ x.at = "paired" => x.host \in Host /\ x.pair \in Pair
         /\ x.at = "write" => x.snap \in Stored
         /\ x.at \in {"setting", "opened"} =>
              /\ x.field \in DOMAIN Defaults /\ x.to \in BOOLEAN /\ x.snap \in Settings
              /\ x = [at |-> x.at, field |-> x.field, to |-> x.to, snap |-> x.snap]
         /\ x.at = "flag" => x.to \in BOOLEAN
         /\ x.at = "remove" => x.gone \in [Host -> Pair]
         /\ x.at \in {"found", "asked", "consent"} =>
              /\ x.host \in Host /\ x.req \in Secrecy
              /\ x = [at |-> x.at, host |-> x.host, req |-> x.req]
         /\ x.at \in {"answered", "sending"} =>
              /\ x.host \in Host /\ x.req \in Secrecy /\ x.got \in Secrecy
              /\ x = [at |-> x.at, host |-> x.host, req |-> x.req, got |-> x.got]
         /\ x.at = "refused" => x.host \in Host /\ x.why \in {"declined", "unknown"}
BY DEF Commands, At, Requests

LEMMA TypeStep == TypeOK /\ [Next]_vars => TypeOK'
<1>. SUFFICES ASSUME TypeOK, [Next]_vars PROVE TypeOK'
  OBVIOUS
<1>. USE BoundAssumption DEF TypeOK, Pair, NoPairs, Stored, NoFile, Export, Settings, Defaults,
                             Secrecy, Plain, Stage, Goto
<1>0. Idle \in Commands /\ At("save") \in Commands /\ At("export") \in Commands /\ At("clear") \in Commands
  BY DEF Commands, Idle, At
<1>1. ASSUME NEW c \in Command, NEW h \in Host, Connect(c, h) PROVE TypeOK'
  <2>1. made[h] + 1 \in Pair
    BY <1>1 DEF Connect
  <2>2. [at |-> "paired", host |-> h, pair |-> made[h] + 1] \in Commands
    BY <2>1 DEF Commands
  <2>. QED BY <1>1, <2>1, <2>2 DEF Connect, memory, history
<1>2. ASSUME NEW c \in Command, PairAnswered(c) PROVE TypeOK'
  <2>1. cmd[c].host \in Host /\ cmd[c].pair \in Pair
    BY <1>2, Holds DEF PairAnswered
  <2>. QED BY <1>0, <1>2, <2>1 DEF PairAnswered, hosts, history
<1>3. ASSUME NEW c \in Command, SaveCheck(c) PROVE TypeOK'
  BY <1>0, <1>3 DEF SaveCheck, memory, hosts, history
<1>4. ASSUME NEW c \in Command, SaveExport(c) PROVE TypeOK'
  <2>1. [at |-> "write", snap |-> Export] \in Commands
    BY DEF Commands
  <2>. QED BY <1>4, <2>1 DEF SaveExport, memory, hosts, history
<1>5. ASSUME NEW c \in Command, SaveWrite(c) PROVE TypeOK'
  <2>1. cmd[c].snap \in Stored
    BY <1>5, Holds DEF SaveWrite
  <2>2. trusted' \in Stored
    BY <1>5, <2>1 DEF SaveWrite, Rewrite
  <2>. QED BY <1>0, <1>5, <2>2 DEF SaveWrite, memory, hosts, history
<1>6. ASSUME NEW c \in Command, NEW field \in DOMAIN Defaults, NEW to \in BOOLEAN,
             LoadSettings(c, field, to)
      PROVE  TypeOK'
  <2>1. [at |-> "setting", field |-> field, to |-> to, snap |-> settings] \in Commands
    BY DEF Commands
  <2>. QED BY <1>6, <2>1 DEF LoadSettings, memory, hosts, history
<1>7. ASSUME NEW c \in Command, OpenSettings(c) PROVE TypeOK'
  <2>1. [cmd[c] EXCEPT !.at = "opened"] \in Commands
    BY <1>7, Holds, SMTT(30) DEF OpenSettings, Commands
  <2>2. cmd[c].to \in BOOLEAN
    BY <1>7, Holds DEF OpenSettings
  <2>. QED BY <1>7, <2>1, <2>2 DEF OpenSettings, memory, hosts
<1>8. ASSUME NEW c \in Command, SaveSettings(c) PROVE TypeOK'
  <2>1. /\ cmd[c].field \in DOMAIN Defaults /\ cmd[c].to \in BOOLEAN
        /\ cmd[c].snap \in Settings
    BY <1>8, Holds DEF SaveSettings
  <2>2. [at |-> "flag", to |-> cmd[c].to] \in Commands
    BY <2>1 DEF Commands
  <2>3. [cmd[c].snap EXCEPT ![cmd[c].field] = cmd[c].to] \in Settings
    BY <2>1
  <2>4. PICK failed \in BOOLEAN :
          /\ settings' = IF failed THEN settings
                         ELSE [cmd[c].snap EXCEPT ![cmd[c].field] = cmd[c].to]
          /\ Goto(c, IF cmd[c].field = "remember" /\ ~failed
                       THEN [at |-> "flag", to |-> cmd[c].to] ELSE Idle)
    BY <1>8 DEF SaveSettings
  <2>. QED BY <1>0, <1>8, <2>2, <2>3, <2>4 DEF SaveSettings, memory, hosts, history
<1>9. ASSUME NEW c \in Command, StoreFlag(c) PROVE TypeOK'
  <2>1. cmd[c].to \in BOOLEAN
    BY <1>9, Holds DEF StoreFlag
  <2>2. [at |-> "remove", gone |-> NoPairs] \in Commands
    BY DEF Commands
  <2>. QED BY <1>0, <1>9, <2>1, <2>2 DEF StoreFlag, hosts, history
<1>10. ASSUME NEW c \in Command, Forget(c) PROVE TypeOK'
  BY <1>0, <1>10 DEF Forget, memory, hosts, history
<1>11. ASSUME NEW c \in Command, ForgetClear(c) PROVE TypeOK'
  <2>1. [at |-> "remove", gone |-> pairing] \in Commands
    BY DEF Commands
  <2>. QED BY <1>11, <2>1 DEF ForgetClear, hosts, history
<1>12. ASSUME NEW c \in Command, Remove(c) PROVE TypeOK'
  <2>1. cmd[c].gone \in [Host -> Pair]
    BY <1>12, Holds DEF Remove
  <2>2. Gone(c) \in [Host -> SUBSET Pair]
    BY <2>1 DEF Gone
  <2>3. trusted' \in Stored
    <3>1. NoFile \in Stored
      BY <1>0 DEF Stored, NoFile
    <3>. QED BY <1>12, <3>1 DEF Remove, Rewrite
  <2>. QED BY <1>0, <1>12, <2>2, <2>3 DEF Remove, memory, hosts
<1>13. ASSUME NEW c \in Command, NEW h \in Host, NEW found \in BOOLEAN, SendStart(c, h, found)
       PROVE  TypeOK'
  <2>1. [at |-> IF found THEN "found" ELSE "asked", host |-> h,
         req |-> IF settings.encrypt THEN [enc |-> TRUE, pair |-> IF found THEN pairing[h] ELSE 0]
                 ELSE Plain] \in Commands
    BY DEF Commands, Requests
  <2>. QED BY <1>13, <2>1 DEF SendStart, memory, hosts, history
<1>14. ASSUME NEW c \in Command, SendAsk(c) PROVE TypeOK'
  <2>1. [cmd[c] EXCEPT !.at = "asked"] \in Commands
    BY <1>14, Holds DEF SendAsk, Commands, Requests
  <2>. QED BY <1>0, <1>14, <2>1 DEF SendAsk, memory, hosts, history
<1>15. ASSUME NEW c \in Command, HostCheck(c) PROVE TypeOK'
  <2>1. [cmd[c] EXCEPT !.at = "consent"] \in Commands
    BY <1>15, Holds DEF HostCheck, Commands, Requests
  <2>2. [at |-> "refused", host |-> cmd[c].host, why |-> "unknown"] \in Commands
    BY <1>15, Holds DEF HostCheck, Commands
  <2>. QED BY <1>15, <2>1, <2>2 DEF HostCheck, Refused, memory, hosts, history
<1>16. ASSUME NEW c \in Command, HostDecline(c) PROVE TypeOK'
  <2>1. [at |-> "refused", host |-> cmd[c].host, why |-> "declined"] \in Commands
    BY <1>16, Holds DEF HostDecline, Commands
  <2>. QED BY <1>16, <2>1 DEF HostDecline, Refused, memory, hosts, history
<1>17. ASSUME NEW c \in Command, HostCreate(c) PROVE TypeOK'
  <2>1. [at |-> "refused", host |-> cmd[c].host, why |-> "unknown"] \in Commands
    BY <1>17, Holds DEF HostCreate, Commands
  <2>2. \A got \in Secrecy :
          [at |-> "answered", host |-> cmd[c].host, req |-> cmd[c].req, got |-> got] \in Commands
    BY <1>17, Holds DEF HostCreate, Commands
  <2>3. cmd[c].req \in Secrecy /\ Plain \in Secrecy
    BY <1>17, Holds DEF HostCreate
  <2>4. cmd' \in [Command -> Commands]
    <3>1. CASE Unknown(c)
      BY <1>17, <2>1, <3>1 DEF HostCreate, Refused
    <3>2. CASE ~Unknown(c)
      <4>1. PICK got \in Secrecy : Created(c, got)
        BY <1>17, <2>3, <3>2 DEF HostCreate
      <4>. QED BY <2>2, <4>1 DEF Created
    <3>. QED BY <3>1, <3>2
  <2>. QED BY <1>17, <2>4 DEF HostCreate, memory, hosts, history
<1>18. ASSUME NEW c \in Command, Answer(c) PROVE TypeOK'
  <2>1. [cmd[c] EXCEPT !.at = "sending"] \in Commands
    BY <1>18, Holds, SMTT(30) DEF Answer, Commands
  <2>. QED BY <1>0, <1>18, <2>1 DEF Answer, memory, hosts, history
<1>19. ASSUME NEW c \in Command, Refusal(c) \/ End(c) PROVE TypeOK'
  BY <1>0, <1>19 DEF Refusal, End, memory, hosts, history
<1>20. ASSUME NEW h \in Host, HostForgets(h) \/ HostEncryption(h) PROVE TypeOK'
  BY <1>20 DEF HostForgets, HostEncryption, memory, history
<1>21. CASE Restart
  BY <1>0, <1>21 DEF Restart, hosts, history
<1>22. CASE UNCHANGED vars
  BY <1>22 DEF vars, memory, hosts, history
<1>. HIDE DEF TypeOK, Pair, NoPairs, Stored, NoFile, Export, Settings, Defaults, Secrecy, Plain,
              Stage, Goto
<1>. QED
  BY <1>1, <1>2, <1>3, <1>4, <1>5, <1>6, <1>7, <1>8, <1>9, <1>10, <1>11, <1>12, <1>13, <1>14,
     <1>15, <1>16, <1>17, <1>18, <1>19, <1>20, <1>21, <1>22 DEF Next, CommandNext

(* Type correctness, for any devices and commands.                         *)
THEOREM DevicesTypeCorrect == Spec => []TypeOK
<1>1. Init => TypeOK
  <2>1. NoPairs \in [Host -> Pair]
    BY BoundAssumption DEF NoPairs, Pair
  <2>2. Idle \in Commands
    BY DEF Idle, Commands, At
  <2>3. Defaults \in Settings
    BY DEF Defaults, Settings
  <2>4. NoFile \in Stored
    BY <2>1 DEF NoFile, Stored
  <2>. QED BY <2>1, <2>2, <2>3, <2>4 DEF Init, TypeOK
<1>. QED BY <1>1, TypeStep, PTL DEF Spec

(***************************************************************************)
(* Both ends of a transfer                                                 *)
(***************************************************************************)
(* What the ends know of the encryption before the first byte is sent.     *)
Agreeing(x) ==
  /\ x.at \in {"found", "asked", "consent", "answered"} /\ ~x.req.enc => x.req = Plain
  /\ x.at = "answered" => x.got \in {x.req, Plain}
  /\ x.at = "sending" => x.got = x.req

AgreeInv == \A c \in Command : Agreeing(cmd[c])

LEMMA AgreeStep == TypeOK /\ AgreeInv /\ [Next]_vars => AgreeInv'
<1>. SUFFICES ASSUME TypeOK, AgreeInv, [Next]_vars PROVE AgreeInv'
  OBVIOUS
<1>0. \A c \in Command : cmd[c] \in Commands /\ Agreeing(cmd[c])
  BY DEF TypeOK, AgreeInv
<1>1. ASSUME NEW c \in Command, NEW y, Goto(c, y), Agreeing(y) PROVE AgreeInv'
  BY <1>0, <1>1 DEF Goto, AgreeInv, TypeOK
<1>2. \A s \in {"idle", "save", "export", "clear"} : Agreeing(At(s))
  BY DEF Agreeing, At
<1>3. Agreeing(Idle)
  BY DEF Agreeing, Idle
<1>4. ASSUME NEW c \in Command, NEW h \in Host, Connect(c, h) PROVE AgreeInv'
  <2>1. Agreeing([at |-> "paired", host |-> h, pair |-> made'[h]])
    BY DEF Agreeing
  <2>. QED BY <1>1, <1>4, <2>1 DEF Connect
<1>5. ASSUME NEW c \in Command,
             \/ PairAnswered(c) \/ SaveCheck(c) \/ SaveWrite(c) \/ Forget(c) \/ Remove(c)
             \/ Refusal(c) \/ End(c)
      PROVE  AgreeInv'
  BY <1>1, <1>2, <1>3, <1>5 DEF PairAnswered, SaveCheck, SaveWrite, Forget, Remove, Refusal, End
<1>6. ASSUME NEW c \in Command, SaveExport(c) PROVE AgreeInv'
  <2>1. Agreeing([at |-> "write", snap |-> Export])
    BY DEF Agreeing
  <2>. QED BY <1>1, <1>6, <2>1 DEF SaveExport
<1>7. ASSUME NEW c \in Command, NEW field \in DOMAIN Defaults, NEW to \in BOOLEAN,
             LoadSettings(c, field, to)
      PROVE  AgreeInv'
  <2>1. Agreeing([at |-> "setting", field |-> field, to |-> to, snap |-> settings])
    BY DEF Agreeing
  <2>. QED BY <1>1, <1>7, <2>1 DEF LoadSettings
<1>8. ASSUME NEW c \in Command, OpenSettings(c) PROVE AgreeInv'
  <2>1. Agreeing([cmd[c] EXCEPT !.at = "opened"])
    BY <1>0, <1>8, Holds DEF OpenSettings, Stage, Agreeing
  <2>. QED BY <1>1, <1>8, <2>1 DEF OpenSettings
<1>9. ASSUME NEW c \in Command, SaveSettings(c) PROVE AgreeInv'
  <2>1. Agreeing([at |-> "flag", to |-> cmd[c].to])
    BY DEF Agreeing
  <2>. QED BY <1>1, <1>3, <1>9, <2>1 DEF SaveSettings
<1>10. ASSUME NEW c \in Command, StoreFlag(c) PROVE AgreeInv'
  <2>1. Agreeing([at |-> "remove", gone |-> NoPairs])
    BY DEF Agreeing
  <2>. QED BY <1>1, <1>2, <1>10, <2>1 DEF StoreFlag
<1>11. ASSUME NEW c \in Command, ForgetClear(c) PROVE AgreeInv'
  <2>1. Agreeing([at |-> "remove", gone |-> pairing])
    BY DEF Agreeing
  <2>. QED BY <1>1, <1>11, <2>1 DEF ForgetClear
<1>12. ASSUME NEW c \in Command, NEW h \in Host, NEW found \in BOOLEAN, SendStart(c, h, found)
       PROVE  AgreeInv'
  <2>1. Agreeing([at |-> IF found THEN "found" ELSE "asked", host |-> h,
                  req |-> IF settings.encrypt
                            THEN [enc |-> TRUE, pair |-> IF found THEN pairing[h] ELSE 0]
                            ELSE Plain])
    BY DEF Agreeing, Plain
  <2>. QED BY <1>1, <1>12, <2>1 DEF SendStart
<1>13. ASSUME NEW c \in Command, SendAsk(c) PROVE AgreeInv'
  <2>1. Agreeing([cmd[c] EXCEPT !.at = "asked"])
    BY <1>0, <1>13, Holds DEF SendAsk, Stage, Agreeing
  <2>. QED BY <1>1, <1>3, <1>13, <2>1 DEF SendAsk
<1>14. ASSUME NEW c \in Command, NEW why, Refused(c, why) PROVE AgreeInv'
  <2>1. Agreeing([at |-> "refused", host |-> cmd[c].host, why |-> why])
    BY DEF Agreeing
  <2>. QED BY <1>1, <1>14, <2>1 DEF Refused
<1>15. ASSUME NEW c \in Command, HostCheck(c) PROVE AgreeInv'
  <2>1. Agreeing([cmd[c] EXCEPT !.at = "consent"])
    BY <1>0, <1>15, Holds DEF HostCheck, Stage, Agreeing
  <2>. QED BY <1>1, <1>14, <1>15, <2>1 DEF HostCheck
<1>16. ASSUME NEW c \in Command, HostDecline(c) PROVE AgreeInv'
  BY <1>14, <1>16 DEF HostDecline
<1>17. ASSUME NEW c \in Command, HostCreate(c) PROVE AgreeInv'
  <2>1. CASE Unknown(c)
    BY <1>14, <1>17, <2>1 DEF HostCreate
  <2>2. CASE ~Unknown(c)
    <3>1. PICK got \in {cmd[c].req, Plain} : Created(c, got)
      BY <1>17, <2>2 DEF HostCreate
    <3>2. Agreeing([at |-> "answered", host |-> cmd[c].host, req |-> cmd[c].req, got |-> got])
      BY <1>0, <1>17, <3>1 DEF HostCreate, Stage, Agreeing
    <3>. QED BY <1>1, <3>1, <3>2 DEF Created
  <2>. QED BY <2>1, <2>2
(* A request with a key accepts no answer without one, and one without has *)
(* had no other.                                                           *)
<1>18. ASSUME NEW c \in Command, Answer(c) PROVE AgreeInv'
  <2>1. ASSUME Negotiated(c) PROVE cmd[c].got = cmd[c].req
    <3>1. /\ cmd[c].req \in Secrecy /\ cmd[c].got \in {cmd[c].req, Plain}
          /\ ~cmd[c].req.enc => cmd[c].req = Plain
      BY <1>0, <1>18, Holds DEF Answer, Stage, Agreeing
    <3>2. CASE cmd[c].req.enc
      BY <2>1, <3>1, <3>2 DEF Negotiated, Plain
    <3>. QED BY <3>1, <3>2
  <2>2. ASSUME Negotiated(c) PROVE Agreeing([cmd[c] EXCEPT !.at = "sending"])
    BY <1>0, <1>18, <2>1, <2>2, Holds DEF Answer, Stage, Agreeing
  <2>. QED BY <1>1, <1>3, <1>18, <2>2 DEF Answer
<1>19. CASE Restart
  BY <1>3, <1>19 DEF Restart, AgreeInv
<1>20. ASSUME UNCHANGED cmd PROVE AgreeInv'
  BY <1>20 DEF AgreeInv
<1>21. ASSUME NEW h \in Host, HostForgets(h) \/ HostEncryption(h) PROVE AgreeInv'
  BY <1>20, <1>21 DEF HostForgets, HostEncryption
<1>22. CASE UNCHANGED vars
  BY <1>20, <1>22 DEF vars
<1>. QED
  BY <1>4, <1>5, <1>6, <1>7, <1>8, <1>9, <1>10, <1>11, <1>12, <1>13, <1>15, <1>16, <1>17, <1>18,
     <1>19, <1>21, <1>22 DEF Next, CommandNext

(* The two ends of a transfer encrypt it the same way, for any devices and *)
(* commands and with every fault (negotiate_session_key).                  *)
THEOREM EndsAlwaysAgree == Spec => []EndsAgree
<1>1. Init => AgreeInv
  BY DEF Init, AgreeInv, Agreeing, Idle
<1>2. AgreeInv => EndsAgree
  BY DEF AgreeInv, Agreeing, EndsAgree, Stage
<1>. QED BY <1>1, <1>2, AgreeStep, DevicesTypeCorrect, PTL DEF Spec

(***************************************************************************)
(* The two files, when no two commands change them at once                 *)
(***************************************************************************)
Apart == \A c, d \in Command : c # d /\ Stage(c) \in FileStages => Stage(d) \notin FileStages

Others(c) == \A d \in Command \ {c} : cmd'[d] = cmd[d]

(* The commands that change neither memory nor a file.                     *)
Quiet(c) ==
  \/ \E h \in Host : Connect(c, h)
  \/ \E h \in Host, found \in BOOLEAN : SendStart(c, h, found)
  \/ SendAsk(c) \/ HostCheck(c) \/ HostDecline(c) \/ HostCreate(c)
  \/ Answer(c) \/ Refusal(c) \/ End(c)

LEMMA QuietStep ==
  ASSUME TypeOK, NEW c \in Command, Quiet(c)
  PROVE  /\ Others(c)
         /\ UNCHANGED <<memory, settings, trusted, history>>
         /\ Stage(c) \notin FileStages /\ Stage(c)' \notin FileStages
         /\ \/ \E h \in Host : Connect(c, h)
            \/ Stage(c)' # "paired" /\ UNCHANGED made
<1>0. cmd \in [Command -> Commands] /\ cmd[c] \in Commands
  BY DEF TypeOK
<1>1. \A y : Goto(c, y) => Others(c) /\ cmd'[c] = y
  BY <1>0 DEF Goto, Others
<1>. DEFINE Still == Others(c) /\ Stage(c)' \notin FileStages /\ Stage(c)' # "paired"
<1>. USE <1>0, <1>1
<1>2. ASSUME NEW h \in Host, Connect(c, h)
      PROVE  Others(c) /\ Stage(c)' \notin FileStages
  BY <1>2 DEF Connect, Stage, FileStages
<1>3. ASSUME NEW h \in Host, NEW found \in BOOLEAN, SendStart(c, h, found) PROVE Still
  BY <1>3 DEF SendStart, Stage, FileStages
<1>4. ASSUME NEW s \in {"asked", "consent", "sending"},
             Stage(c) \in {"found", "asked", "answered"},
             Goto(c, [cmd[c] EXCEPT !.at = s])
      PROVE  Still
  BY <1>4, Holds DEF Stage, FileStages
<1>5. ASSUME Goto(c, Idle) PROVE Still
  BY <1>5 DEF Stage, FileStages, Idle
<1>6. ASSUME NEW why, Refused(c, why) PROVE Still
  BY <1>6 DEF Refused, Stage, FileStages
<1>7. ASSUME NEW got, Created(c, got) PROVE Still
  BY <1>7 DEF Created, Stage, FileStages
<1>8. ASSUME SendAsk(c) \/ HostCheck(c) \/ Answer(c) PROVE Still
  <2>. HIDE DEF Still
  <2>. QED BY <1>4, <1>5, <1>6, <1>8 DEF SendAsk, HostCheck, Answer
<1>9. ASSUME HostDecline(c) \/ HostCreate(c) \/ Refusal(c) \/ End(c) PROVE Still
  <2>. HIDE DEF Still
  <2>. QED BY <1>5, <1>6, <1>7, <1>9 DEF HostDecline, HostCreate, Refusal, End
<1>10. UNCHANGED <<memory, settings, trusted, history>> /\ Stage(c) \notin FileStages
  BY DEF Quiet, Connect, SendStart, SendAsk, HostCheck, HostDecline, HostCreate, Answer, Refusal,
         End, FileStages
<1>11. UNCHANGED made \/ \E h \in Host : Connect(c, h)
  BY DEF Quiet, SendStart, SendAsk, HostCheck, HostDecline, HostCreate, Answer, Refusal, End, hosts
<1>. QED BY <1>2, <1>3, <1>8, <1>9, <1>10, <1>11 DEF Quiet

(* What one command does: it leaves the others alone, and enters the       *)
(* stages that change files only when no other is in them.                 *)
LEMMA StepApart ==
  ASSUME "overlap" \notin Faults, TypeOK, NEW c \in Command, CommandNext(c)
  PROVE  /\ Others(c)
         /\ Stage(c)' \in FileStages =>
              Stage(c) \in FileStages \/ \A d \in Command \ {c} : Stage(d) \notin FileStages
<1>1. \A y : Goto(c, y) => Others(c)
  BY DEF Goto, Others, TypeOK
<1>2. CASE Quiet(c)
  BY <1>2, QuietStep
<1>3. CASE \/ SaveCheck(c) \/ SaveExport(c) \/ SaveWrite(c) \/ OpenSettings(c) \/ SaveSettings(c)
           \/ StoreFlag(c) \/ ForgetClear(c) \/ Remove(c)
  BY <1>1, <1>3 DEF SaveCheck, SaveExport, SaveWrite, OpenSettings, SaveSettings, StoreFlag,
                    ForgetClear, Remove, FileStages
<1>4. CASE \/ PairAnswered(c) \/ Forget(c)
           \/ \E field \in DOMAIN Defaults, to \in BOOLEAN : LoadSettings(c, field, to)
  BY <1>1, <1>4 DEF PairAnswered, Forget, LoadSettings, Alone
<1>. QED BY <1>2, <1>3, <1>4 DEF CommandNext, Quiet

LEMMA ApartStep ==
  "overlap" \notin Faults /\ TypeOK /\ Apart /\ [Next]_vars => Apart'
<1>. SUFFICES ASSUME "overlap" \notin Faults, TypeOK, Apart, [Next]_vars PROVE Apart'
  OBVIOUS
<1>1. ASSUME NEW c \in Command, CommandNext(c) PROVE Apart'
  BY <1>1, StepApart DEF Apart, Stage, Others
<1>2. ASSUME UNCHANGED cmd PROVE Apart'
  BY <1>2 DEF Apart, Stage
<1>3. CASE Restart
  BY <1>3 DEF Restart, Apart, Stage, FileStages, Idle
<1>4. ASSUME NEW h \in Host, HostForgets(h) \/ HostEncryption(h) PROVE Apart'
  BY <1>2, <1>4 DEF HostForgets, HostEncryption
<1>5. CASE UNCHANGED vars
  BY <1>2, <1>5 DEF vars
<1>. QED BY <1>1, <1>3, <1>4, <1>5 DEF Next

(* Why a half-written settings file never turns encryption off for good.   *)
Planned(x) ==
  /\ x.at \in {"setting", "opened"} /\ x.field = "remember" /\ ~x.snap.encrypt => ~wanted
  /\ x.at = "opened" /\ x.field = "encrypt" => x.to = wanted

PlainInv == PlainIsWanted /\ \A c \in Command : Planned(cmd[c])

LEMMA PlainStep ==
  "overlap" \notin Faults /\ TypeOK /\ Apart /\ PlainInv /\ [Next]_vars => PlainInv'
<1>. SUFFICES ASSUME "overlap" \notin Faults, TypeOK, Apart, PlainInv, [Next]_vars
              PROVE  PlainInv'
  OBVIOUS
<1>0. cmd \in [Command -> Commands] /\ \A y : y.at \notin {"setting", "opened"} => Planned(y)'
  BY DEF TypeOK, Planned
<1>1. \A c \in Command : \A y : Goto(c, y) => Others(c) /\ cmd'[c] = y
  BY <1>0 DEF Goto, Others
<1>2. ASSUME NEW c \in Command, Others(c), Stage(c)' \notin {"setting", "opened"},
             UNCHANGED <<settings, wanted>>
      PROVE  PlainInv'
  BY <1>0, <1>2 DEF PlainInv, PlainIsWanted, Planned, Others, Stage
<1>3. ASSUME NEW c \in Command, Quiet(c) PROVE PlainInv'
  BY <1>2, <1>3, QuietStep DEF FileStages, history
<1>4. ASSUME NEW c \in Command,
             \/ PairAnswered(c) \/ SaveCheck(c) \/ SaveExport(c) \/ SaveWrite(c) \/ StoreFlag(c)
             \/ Forget(c) \/ ForgetClear(c) \/ Remove(c)
      PROVE  PlainInv'
  <2>1. UNCHANGED <<settings, wanted>>
    BY <1>4 DEF PairAnswered, SaveCheck, SaveExport, SaveWrite, StoreFlag, Forget, ForgetClear,
                Remove, history
  <2>2. Others(c) /\ Stage(c)' \notin {"setting", "opened"}
    BY <1>1, <1>4 DEF PairAnswered, SaveCheck, SaveExport, SaveWrite, StoreFlag, Forget,
                      ForgetClear, Remove, Stage, At, Idle
  <2>. QED BY <1>2, <2>1, <2>2
<1>5. ASSUME NEW c \in Command, NEW field \in DOMAIN Defaults, NEW to \in BOOLEAN,
             LoadSettings(c, field, to)
      PROVE  PlainInv'
  <2>1. UNCHANGED <<settings, wanted>> /\ Others(c)
    BY <1>1, <1>5 DEF LoadSettings, history
  <2>2. cmd'[c] = [at |-> "setting", field |-> field, to |-> to, snap |-> settings]
    BY <1>1, <1>5 DEF LoadSettings
  <2>. QED BY <2>1, <2>2 DEF PlainInv, PlainIsWanted, Planned, Others
(* The only step that changes what the user wants.                         *)
<1>6. ASSUME NEW c \in Command, OpenSettings(c) PROVE PlainInv'
  <2>1. \A d \in Command \ {c} : cmd'[d] = cmd[d] /\ cmd[d].at \notin {"setting", "opened"}
    BY <1>1, <1>6 DEF OpenSettings, Apart, Stage, FileStages, Others
  <2>2. settings'.encrypt
    BY <1>6 DEF OpenSettings, Defaults
  <2>3. /\ cmd[c].at = "setting" /\ cmd[c].field \in {"remember", "encrypt"}
        /\ cmd[c] = [at |-> cmd[c].at, field |-> cmd[c].field, to |-> cmd[c].to,
                     snap |-> cmd[c].snap]
    BY <1>0, <1>6, Holds DEF OpenSettings, Stage, Defaults
  <2>4. cmd'[c] = [at |-> "opened", field |-> cmd[c].field, to |-> cmd[c].to,
                   snap |-> cmd[c].snap]
    BY <1>1, <1>6, <2>3 DEF OpenSettings
  <2>5. Planned(cmd[c])'
    BY <1>6, <2>3, <2>4 DEF OpenSettings, PlainInv, Planned
  <2>. QED BY <1>0, <2>1, <2>2, <2>5 DEF PlainInv, PlainIsWanted
<1>7. ASSUME NEW c \in Command, SaveSettings(c) PROVE PlainInv'
  <2>1. /\ cmd[c].at = "opened" /\ cmd[c].field \in {"remember", "encrypt"}
        /\ cmd[c].snap \in Settings
    BY <1>0, <1>7, Holds DEF SaveSettings, Stage, Defaults
  <2>2. \/ settings' = settings
        \/ settings'.encrypt = IF cmd[c].field = "encrypt" THEN cmd[c].to ELSE cmd[c].snap.encrypt
    BY <1>7, <2>1 DEF SaveSettings, Settings
  <2>3. Others(c) /\ Stage(c)' \in {"flag", "idle"} /\ wanted' = wanted
    BY <1>1, <1>7 DEF SaveSettings, Stage, Idle, history
  <2>. QED BY <1>0, <2>1, <2>2, <2>3 DEF PlainInv, PlainIsWanted, Planned, Others, Stage
<1>8. CASE Restart
  BY <1>0, <1>8 DEF Restart, Idle, PlainInv, PlainIsWanted, history
<1>9. ASSUME UNCHANGED <<cmd, settings, wanted>> PROVE PlainInv'
  BY <1>9 DEF PlainInv, PlainIsWanted, Planned
<1>10. ASSUME NEW h \in Host, HostForgets(h) \/ HostEncryption(h) PROVE PlainInv'
  BY <1>9, <1>10 DEF HostForgets, HostEncryption, history
<1>11. CASE UNCHANGED vars
  BY <1>9, <1>11 DEF vars, history
<1>. QED
  BY <1>3, <1>4, <1>5, <1>6, <1>7, <1>8, <1>10, <1>11 DEF Next, CommandNext, Quiet

(* What holds while a command is about to change pairings-trusted.json.    *)
Changing == \E c \in Command : Stage(c) \in {"save", "export", "write", "remove"}

FollowInv ==
  /\ ~Changing /\ remember => trusted = Export
  /\ \A c \in Command : /\ Stage(c) = "write" => cmd[c].snap = Export
                        /\ Stage(c) = "remove" /\ remember => Export = NoFile

LEMMA FollowStep ==
  /\ "overlap" \notin Faults /\ "disk" \notin Faults
  /\ TypeOK /\ Apart /\ FollowInv /\ [Next]_vars
  => FollowInv'
<1>. SUFFICES ASSUME "overlap" \notin Faults, "disk" \notin Faults,
                     TypeOK, Apart, FollowInv, [Next]_vars
              PROVE  FollowInv'
  OBVIOUS
<1>0. \A c \in Command : \A y : Goto(c, y) => Others(c) /\ cmd'[c] = y
  BY DEF TypeOK, Goto, Others
<1>1. \A c \in Command : Stage(c) \in FileStages =>
        \A d \in Command \ {c} : Stage(d) \notin {"save", "export", "write", "remove"}
  BY DEF Apart, FileStages
<1>. DEFINE Changes(c) == Stage(c) \in {"save", "export", "write", "remove"}
(* A step that starts and ends outside of a change.                        *)
<1>2. ASSUME NEW c \in Command, Others(c), UNCHANGED <<memory, trusted>>,
             ~Changes(c), ~Changes(c)'
      PROVE  FollowInv'
  <2>1. Changing' <=> Changing
    BY <1>2 DEF Changing, Others, Stage
  <2>2. Export' = Export /\ remember' = remember /\ NoFile' = NoFile
    BY <1>2 DEF Export, memory
  <2>. QED BY <1>2, <2>1, <2>2 DEF FollowInv, Others, Stage
(* A step of the one command that changes files.                           *)
<1>3. ASSUME NEW c \in Command, Others(c),
             \A d \in Command \ {c} : ~Changes(d),
             ~Changes(c)' /\ remember' => (trusted = Export)',
             Stage(c)' = "write" => (cmd[c].snap = Export)',
             Stage(c)' = "remove" /\ remember' => (Export = NoFile)'
      PROVE  FollowInv'
  BY <1>3 DEF FollowInv, Changing, Others, Stage
<1>4. ASSUME NEW c \in Command, Quiet(c) PROVE FollowInv'
  BY <1>2, <1>4, QuietStep DEF FileStages
<1>5. ASSUME NEW c \in Command,
             \/ \E field \in DOMAIN Defaults, to \in BOOLEAN : LoadSettings(c, field, to)
             \/ OpenSettings(c) \/ SaveSettings(c) \/ Forget(c)
      PROVE  FollowInv'
  <2>1. UNCHANGED <<memory, trusted>> /\ Others(c) /\ ~Changes(c)
    BY <1>0, <1>5 DEF LoadSettings, OpenSettings, SaveSettings, Forget
  <2>2. ASSUME OpenSettings(c) PROVE Stage(c)' = "opened"
    <3>1. cmd[c].at = "setting" /\ cmd[c] \in Commands
      BY <2>2 DEF OpenSettings, Stage, TypeOK
    <3>2. cmd[c] = [at |-> cmd[c].at, field |-> cmd[c].field, to |-> cmd[c].to,
                    snap |-> cmd[c].snap]
      BY <3>1, Holds
    <3>3. cmd'[c] = [cmd[c] EXCEPT !.at = "opened"]
      BY <1>0, <2>2 DEF OpenSettings
    <3>. QED BY <3>2, <3>3 DEF Stage
  <2>3. ~Changes(c)'
    <3>1. ASSUME NEW field, NEW to, LoadSettings(c, field, to) PROVE Stage(c)' = "setting"
      BY <1>0, <3>1 DEF LoadSettings, Stage
    <3>2. ASSUME SaveSettings(c) PROVE Stage(c)' \in {"flag", "idle"}
      BY <1>0, <3>2 DEF SaveSettings, Stage, Idle
    <3>3. ASSUME Forget(c) PROVE Stage(c)' = "clear"
      BY <1>0, <3>3 DEF Forget, Stage, At
    <3>. QED BY <1>5, <2>2, <3>1, <3>2, <3>3
  <2>. QED BY <1>2, <2>1, <2>3
<1>6. ASSUME NEW c \in Command, PairAnswered(c) PROVE FollowInv'
  <2>1. \A d \in Command \ {c} : ~Changes(d)
    BY <1>6 DEF PairAnswered, Alone, FileStages
  <2>2. Others(c) /\ Stage(c)' = "save"
    BY <1>0, <1>6 DEF PairAnswered, Stage, At
  <2>. QED BY <1>3, <2>1, <2>2
<1>7. ASSUME NEW c \in Command, SaveCheck(c) PROVE FollowInv'
  <2>1. Others(c) /\ Stage(c)' = (IF remember THEN "export" ELSE "idle") /\ remember' = remember
    BY <1>0, <1>7 DEF SaveCheck, Stage, At, Idle, memory
  <2>. QED BY <1>1, <1>3, <1>7, <2>1 DEF SaveCheck, FileStages
<1>8. ASSUME NEW c \in Command, SaveExport(c) PROVE FollowInv'
  <2>1. Others(c) /\ Stage(c)' = "write" /\ cmd'[c].snap = Export /\ Export' = Export
    BY <1>0, <1>8 DEF SaveExport, Stage, Export, memory
  <2>. QED BY <1>1, <1>3, <1>8, <2>1 DEF SaveExport, FileStages
<1>9. ASSUME NEW c \in Command, SaveWrite(c) PROVE FollowInv'
  <2>1. Others(c) /\ Stage(c)' = "idle" /\ trusted' = Export /\ Export' = Export
    BY <1>0, <1>9 DEF SaveWrite, Rewrite, Stage, Export, Idle, memory, FollowInv
  <2>. QED BY <1>1, <1>3, <1>9, <2>1 DEF SaveWrite, FileStages
<1>10. ASSUME NEW c \in Command, StoreFlag(c) PROVE FollowInv'
  <2>1. cmd[c].to \in BOOLEAN
    BY <1>10, Holds DEF StoreFlag, Stage, TypeOK
  <2>2. Others(c) /\ Stage(c)' = (IF remember' THEN "save" ELSE "remove")
    BY <1>0, <1>10, <2>1 DEF StoreFlag, Stage, At
  <2>. QED BY <1>1, <1>3, <1>10, <2>2 DEF StoreFlag, FileStages
<1>11. ASSUME NEW c \in Command, ForgetClear(c) PROVE FollowInv'
  <2>1. Others(c) /\ Stage(c)' = "remove" /\ (Export = NoFile)'
    BY <1>0, <1>11 DEF ForgetClear, Stage, Export, NoFile, NoPairs
  <2>. QED BY <1>1, <1>3, <1>11, <2>1 DEF ForgetClear, FileStages
<1>12. ASSUME NEW c \in Command, Remove(c) PROVE FollowInv'
  <2>1. Others(c) /\ Stage(c)' = "idle" /\ trusted' = NoFile
    BY <1>0, <1>12 DEF Remove, Rewrite, Stage, Idle
  <2>2. Export' = Export /\ remember' = remember /\ (remember => Export = NoFile)
    BY <1>12 DEF Remove, Export, memory, FollowInv
  <2>. QED BY <1>1, <1>3, <1>12, <2>1, <2>2 DEF Remove, FileStages
(* A new process has what is in the file.                                  *)
<1>13. CASE Restart
  <2>1. ~Changing' /\ \A c \in Command : Stage(c)' = "idle"
    BY <1>13 DEF Restart, Changing, Stage, Idle
  <2>2. trusted = [pairing |-> trusted.pairing, blocked |-> trusted.blocked]
    BY DEF TypeOK, Stored
  <2>. QED BY <1>13, <2>1, <2>2 DEF Restart, FollowInv, Export
<1>14. ASSUME UNCHANGED <<memory, trusted, cmd>> PROVE FollowInv'
  BY <1>14 DEF FollowInv, Changing, Stage, Export, memory
<1>15. ASSUME NEW h \in Host, HostForgets(h) \/ HostEncryption(h) PROVE FollowInv'
  BY <1>14, <1>15 DEF HostForgets, HostEncryption
<1>16. CASE UNCHANGED vars
  BY <1>14, <1>16 DEF vars
<1>. QED
  BY <1>4, <1>5, <1>6, <1>7, <1>8, <1>9, <1>10, <1>11, <1>12, <1>13, <1>15, <1>16
  DEF Next, CommandNext, Quiet

Kept == TypeOK /\ Apart /\ PlainInv /\ FollowInv

LEMMA KeptStarts == Init => Apart /\ PlainInv /\ FollowInv
<1>1. ASSUME Init PROVE Apart /\ PlainInv /\ FollowInv
  <2>1. \A c \in Command : cmd[c].at = "idle"
    BY <1>1 DEF Init, Idle
  <2>2. Apart
    BY <2>1 DEF Apart, Stage, FileStages
  <2>3. PlainInv
    BY <1>1, <2>1 DEF Init, Defaults, PlainInv, PlainIsWanted, Planned
  <2>4. FollowInv
    <3>1. trusted = Export
      BY <1>1 DEF Init, Export, NoFile
    <3>. QED BY <2>1, <3>1 DEF FollowInv, Stage
  <2>. QED BY <2>2, <2>3, <2>4
<1>. QED BY <1>1

LEMMA KeptAlways ==
  ASSUME "overlap" \notin Faults, "disk" \notin Faults PROVE Spec => []Kept
<1>1. TypeOK /\ TypeOK' /\ Kept /\ [Next]_vars => Kept'
  BY ApartStep, PlainStep, FollowStep DEF Kept
<1>2. TypeOK /\ Apart /\ PlainInv /\ FollowInv <=> Kept
  BY DEF Kept
<1>. QED BY <1>1, <1>2, KeptStarts, DevicesTypeCorrect, PTL DEF Spec

(* Nothing but the user turns encryption off, wherever a command or the    *)
(* process is cut off, if no two commands change files at once             *)
(* (load_settings, set_encryption_enabled).                                *)
THEOREM PlainAlwaysWanted == ASSUME "overlap" \notin Faults PROVE Spec => []PlainIsWanted
<1>1. TypeOK /\ Apart /\ PlainInv /\ [Next]_vars => Apart' /\ PlainInv'
  BY ApartStep, PlainStep
<1>2. PlainInv => PlainIsWanted
  BY DEF PlainInv
<1>. QED BY <1>1, <1>2, KeptStarts, DevicesTypeCorrect, PTL DEF Spec

(* While pairings are remembered the file has what is in memory, whenever  *)
(* no command is at it and whichever was cut off before, if no two change  *)
(* files at once and writing them does not fail (save_paired_devices).     *)
THEOREM FileAlwaysFollows ==
  ASSUME "overlap" \notin Faults, "disk" \notin Faults PROVE Spec => []FileFollows
<1>1. Kept => FileFollows
  BY DEF Kept, FollowInv, FileFollows, Resting, Changing, FileStages
<1>. QED BY <1>1, KeptAlways, PTL

(***************************************************************************)
(* Forgotten pairings                                                      *)
(***************************************************************************)
(* A pairing is numbered when it is made; no number is used twice, and one *)
(* that is on its way into memory is nowhere else.                         *)
Numbered ==
  \A h \in Host :
    /\ 0 \notin forgotten[h] /\ \A n \in forgotten[h] : n <= made[h]
    /\ pairing[h] <= made[h] /\ trusted.pairing[h] <= made[h]

Arriving(x) ==
  x.at = "paired" =>
    /\ 0 < x.pair /\ x.pair <= made[x.host]
    /\ x.pair \notin forgotten[x.host]
    /\ x.pair \notin {pairing[x.host], trusted.pairing[x.host]}

Leaving(x) ==
  x.at = "remove" =>
    /\ x.gone = NoPairs \/ pairing = NoPairs
    /\ \A h \in Host : x.gone[h] <= made[h]

Elsewhere(x, y) ==
  x.at = "paired" =>
    /\ y.at = "paired" /\ y.host = x.host => y.pair # x.pair
    /\ y.at = "remove" => y.gone[x.host] # x.pair

GoneInv ==
  /\ Numbered /\ ForgottenIsGone
  /\ \A c \in Command : Arriving(cmd[c]) /\ Leaving(cmd[c])
  /\ \A c, d \in Command : c # d => Elsewhere(cmd[c], cmd[d])

LEMMA GoneStep ==
  ASSUME "overlap" \notin Faults, "disk" \notin Faults, Kept, Kept', GoneInv, [Next]_vars
  PROVE  GoneInv'
<1>0. /\ cmd \in [Command -> Commands] /\ cmd' \in [Command -> Commands]
      /\ made \in [Host -> Pair] /\ pairing \in [Host -> Pair] /\ trusted \in Stored
      /\ forgotten \in [Host -> SUBSET Pair] /\ Pair \subseteq Nat
      /\ made' \in [Host -> Pair] /\ pairing' \in [Host -> Pair] /\ trusted' \in Stored
      /\ NoPairs \in [Host -> Pair]
  BY BoundAssumption DEF Kept, TypeOK, Pair, NoPairs
<1>zero. \A h \in Host : NoPairs[h] = 0 /\ made[h] >= 0
  BY <1>0 DEF NoPairs, Pair
<1>1. \A c \in Command : \A y : Goto(c, y) => Others(c) /\ cmd'[c] = y
  BY <1>0 DEF Goto, Others
(* Steps that leave the numbers where they are.                            *)
<1>2. ASSUME NEW c \in Command, Others(c),
             UNCHANGED <<pairing, trusted, made, forgotten>>,
             Stage(c)' \notin {"paired", "remove"}
      PROVE  GoneInv'
  BY <1>2 DEF GoneInv, Numbered, ForgottenIsGone, Arriving, Leaving, Elsewhere, Others, Stage
<1>3. ASSUME NEW c \in Command, NEW h \in Host, Connect(c, h) PROVE GoneInv'
  <2>1. /\ made' = [made EXCEPT ![h] = @ + 1] /\ UNCHANGED <<pairing, trusted, forgotten>>
        /\ Others(c) /\ cmd'[c] = [at |-> "paired", host |-> h, pair |-> made[h] + 1]
    BY <1>0, <1>1, <1>3 DEF Connect, memory, history
  <2>2. \A g \in Host, n \in Nat : n <= made[g] => n <= made'[g]
    BY <1>0, <2>1 DEF Pair
  <2>3. Numbered' /\ ForgottenIsGone'
    BY <1>0, <2>1, <2>2 DEF GoneInv, Numbered, ForgottenIsGone, Stored
  <2>4. Arriving(cmd[c])' /\ Leaving(cmd[c])'
    BY <1>0, <2>1 DEF GoneInv, Numbered, Arriving, Leaving, Stored
  <2>5. ASSUME NEW d \in Command \ {c}
        PROVE  Arriving(cmd[d])' /\ Leaving(cmd[d])' /\ Elsewhere(cmd[c], cmd[d])'
               /\ Elsewhere(cmd[d], cmd[c])'
    <3>1. cmd'[d] = cmd[d] /\ Arriving(cmd[d]) /\ Leaving(cmd[d]) /\ cmd[d] \in Commands
      BY <1>0, <2>1 DEF GoneInv, Others
    <3>. QED BY <1>0, <2>1, <2>2, <3>1, Holds DEF Arriving, Leaving, Elsewhere
  <2>. QED BY <2>1, <2>3, <2>4, <2>5 DEF GoneInv, Elsewhere, Others
<1>4. ASSUME NEW c \in Command, Quiet(c) PROVE GoneInv'
  BY <1>2, <1>3, <1>4, QuietStep DEF Kept, FileStages, history, memory
(* The number that arrived is now in memory, and nowhere else but there.   *)
<1>5. ASSUME NEW c \in Command, PairAnswered(c) PROVE GoneInv'
  <2>1. /\ cmd[c].at = "paired" /\ cmd[c].host \in Host /\ Arriving(cmd[c])
        /\ pairing' = [pairing EXCEPT ![cmd[c].host] = cmd[c].pair]
        /\ UNCHANGED <<trusted, made, forgotten>> /\ Others(c) /\ cmd'[c].at = "save"
    <3>1. cmd[c].at = "paired" /\ cmd[c].host \in Host /\ Arriving(cmd[c])
      BY <1>0, <1>5, Holds DEF PairAnswered, Stage, GoneInv
    <3>2. Others(c) /\ cmd'[c] = At("save")
      BY <1>1, <1>5 DEF PairAnswered
    <3>. QED BY <1>5, <3>1, <3>2 DEF PairAnswered, At, hosts, history
  <2>2. \A d \in Command \ {c} : cmd[d].at # "remove"
    BY <1>5 DEF PairAnswered, Alone, Kept, Stage, FileStages
  <2>3. Numbered' /\ ForgottenIsGone'
    BY <1>0, <2>1 DEF GoneInv, Numbered, ForgottenIsGone, Arriving
  <2>. QED BY <1>0, <2>1, <2>2, <2>3 DEF GoneInv, Arriving, Leaving, Elsewhere, Others
<1>6. ASSUME NEW c \in Command, SaveWrite(c) PROVE GoneInv'
  <2>1. /\ UNCHANGED <<pairing, made, forgotten>> /\ trusted'.pairing = pairing
        /\ Others(c) /\ cmd'[c].at = "idle"
    BY <1>1, <1>6 DEF SaveWrite, Rewrite, Kept, FollowInv, Export, Idle, memory, hosts, history
  <2>. QED BY <2>1 DEF GoneInv, Numbered, ForgottenIsGone, Arriving, Leaving, Elsewhere, Others
<1>7. ASSUME NEW c \in Command, SaveCheck(c) \/ SaveExport(c) \/ Forget(c) \/ SaveSettings(c)
      PROVE  GoneInv'
  <2>1. UNCHANGED <<pairing, trusted, made, forgotten>>
    BY <1>7 DEF SaveCheck, SaveExport, Forget, SaveSettings, memory, hosts, history
  <2>2. Others(c) /\ Stage(c)' \in {"export", "idle", "write", "clear", "flag"}
    <3>1. CASE SaveSettings(c)
      BY <1>1, <3>1 DEF SaveSettings, Stage, Idle
    <3>2. CASE ~SaveSettings(c)
      BY <1>1, <1>7, <3>2 DEF SaveCheck, SaveExport, Forget, Stage, At, Idle
    <3>. QED BY <3>1, <3>2
  <2>. QED BY <1>2, <2>1, <2>2
<1>8. ASSUME NEW c \in Command, OpenSettings(c) PROVE GoneInv'
  <2>1. cmd[c] = [at |-> cmd[c].at, field |-> cmd[c].field, to |-> cmd[c].to,
                  snap |-> cmd[c].snap]
    BY <1>0, <1>8, Holds DEF OpenSettings, Stage
  <2>2. Others(c) /\ cmd'[c] = [cmd[c] EXCEPT !.at = "opened"]
    BY <1>1, <1>8 DEF OpenSettings
  <2>3. UNCHANGED <<pairing, trusted, made, forgotten>>
    BY <1>8 DEF OpenSettings, memory, hosts
  <2>. QED BY <1>2, <2>1, <2>2, <2>3 DEF Stage
<1>9. ASSUME NEW c \in Command, NEW field \in DOMAIN Defaults, NEW to \in BOOLEAN,
             LoadSettings(c, field, to)
      PROVE  GoneInv'
  <2>1. Others(c) /\ Stage(c)' = "setting"
    BY <1>1, <1>9 DEF LoadSettings, Stage
  <2>. QED BY <1>2, <1>9, <2>1 DEF LoadSettings, memory, hosts, history
<1>10. ASSUME NEW c \in Command, StoreFlag(c) PROVE GoneInv'
  <2>1. UNCHANGED <<pairing, trusted, made, forgotten>>
    BY <1>10 DEF StoreFlag, hosts, history
  <2>2. Others(c) /\ cmd'[c] \in {At("save"), [at |-> "remove", gone |-> NoPairs]}
    BY <1>1, <1>10 DEF StoreFlag
  <2>3. ASSUME NEW d \in Command, cmd[d].at = "paired"
        PROVE  cmd[d].host \in Host /\ 0 < cmd[d].pair
    BY <1>0, <2>3, Holds DEF GoneInv, Arriving
  <2>. QED BY <1>0, <1>zero, <2>1, <2>2, <2>3
           DEF At, GoneInv, Numbered, ForgottenIsGone, Arriving, Leaving, Elsewhere, Others
<1>11. ASSUME NEW c \in Command, ForgetClear(c) PROVE GoneInv'
  <2>1. /\ UNCHANGED <<trusted, made, forgotten>> /\ pairing' = NoPairs
        /\ Others(c) /\ cmd'[c] = [at |-> "remove", gone |-> pairing]
    BY <1>1, <1>11 DEF ForgetClear, hosts, history
  <2>2. ASSUME NEW d \in Command, cmd[d].at = "paired"
        PROVE  /\ cmd[d].host \in Host /\ cmd[d].pair # pairing[cmd[d].host] /\ 0 < cmd[d].pair
    BY <1>0, <2>2, Holds DEF GoneInv, Arriving
  <2>. QED BY <1>0, <1>zero, <2>1, <2>2
           DEF GoneInv, Numbered, ForgottenIsGone, Arriving, Leaving, Elsewhere, Others
(* What was in memory is forgotten; it is not there any more, nor on disk. *)
<1>12. ASSUME NEW c \in Command, Remove(c) PROVE GoneInv'
  <2>1. /\ UNCHANGED <<pairing, made>> /\ trusted' = NoFile
        /\ Others(c) /\ cmd'[c] = Idle /\ cmd[c].at = "remove" /\ Leaving(cmd[c])
        /\ cmd[c].gone \in [Host -> Pair]
    BY <1>0, <1>1, <1>12, Holds DEF Remove, Rewrite, Stage, memory, hosts, GoneInv
  <2>2. \A h \in Host : /\ forgotten'[h] = forgotten[h] \cup ({cmd[c].gone[h]} \ {0})
                        /\ trusted'.pairing[h] = 0 /\ NoPairs[h] = 0
    <3>1. forgotten' = Gone(c)
      BY <1>12 DEF Remove
    <3>2. trusted'.pairing = NoPairs
      BY <2>1, Zenon DEF NoFile
    <3>3. ASSUME NEW h \in Host PROVE NoPairs[h] = 0
      BY DEF NoPairs
    <3>4. ASSUME NEW h \in Host
          PROVE forgotten'[h] = forgotten[h] \cup ({cmd[c].gone[h]} \ {0})
      BY <3>1 DEF Gone
    <3>. QED BY <3>2, <3>3, <3>4
  <2>3. ASSUME NEW h \in Host
        PROVE  /\ forgotten'[h] = forgotten[h] \cup ({cmd[c].gone[h]} \ {0})
               /\ trusted'.pairing[h] = 0 /\ cmd[c].gone[h] \in Nat
               /\ cmd[c].gone[h] <= made[h] /\ made[h] \in Nat
               /\ cmd[c].gone = NoPairs \/ pairing = NoPairs
    BY <1>0, <1>zero, <2>1, <2>2, BoundAssumption, Holds DEF GoneInv, Leaving, Pair
  <2>5. Numbered'
    <3>. SUFFICES ASSUME NEW h \in Host
         PROVE  /\ 0 \notin forgotten'[h] /\ \A n \in forgotten'[h] : n <= made[h]
                /\ pairing[h] <= made[h] /\ trusted'.pairing[h] <= made[h]
      BY <1>0, <2>1 DEF Numbered
    <3>1. /\ 0 \notin forgotten[h] /\ \A n \in forgotten[h] : n <= made[h]
          /\ pairing[h] <= made[h]
      BY DEF GoneInv, Numbered
    <3>2. trusted'.pairing[h] <= made[h]
      BY <2>3
    <3>3. 0 \notin forgotten'[h] /\ \A n \in forgotten'[h] : n <= made[h]
      BY <2>3, <3>1
    <3>. QED BY <3>1, <3>2, <3>3
  <2>6. ForgottenIsGone'
    BY <1>0, <2>1, <2>2, <2>3 DEF GoneInv, Numbered, ForgottenIsGone
  <2>4. ASSUME NEW d \in Command \ {c}, cmd[d].at = "paired"
        PROVE  /\ cmd[d].host \in Host /\ cmd[d].pair # cmd[c].gone[cmd[d].host]
               /\ Arriving(cmd[d])
    BY <1>0, <2>1, <2>4, Holds DEF GoneInv, Elsewhere
  <2>. QED BY <1>0, <2>1, <2>2, <2>5, <2>6, <2>4
           DEF Idle, GoneInv, Arriving, Leaving, Elsewhere, Others
<1>13. CASE Restart
  <2>1. pairing' \in {trusted.pairing, NoPairs} /\ UNCHANGED <<trusted, made, forgotten>>
    BY <1>13 DEF Restart, hosts, history
  <2>2. \A c \in Command : cmd'[c].at = "idle"
    BY <1>13 DEF Restart, Idle
  <2>. QED BY <1>zero, <2>1, <2>2
           DEF GoneInv, Numbered, ForgottenIsGone, Arriving, Leaving, Elsewhere
<1>14. ASSUME UNCHANGED <<pairing, trusted, made, forgotten, cmd>> PROVE GoneInv'
  BY <1>14 DEF GoneInv, Numbered, ForgottenIsGone, Arriving, Leaving, Elsewhere
<1>15. ASSUME NEW h \in Host, HostForgets(h) \/ HostEncryption(h) PROVE GoneInv'
  BY <1>14, <1>15 DEF HostForgets, HostEncryption, memory, history
<1>16. CASE UNCHANGED vars
  BY <1>14, <1>16 DEF vars, memory, hosts, history
<1>. QED
  BY <1>4, <1>5, <1>6, <1>7, <1>8, <1>9, <1>10, <1>11, <1>12, <1>13, <1>15, <1>16
  DEF Next, CommandNext, Quiet

(* A pairing the user has made the device forget is neither in memory nor  *)
(* in the file again, through any restart, if no two commands change files *)
(* at once and no file resists its removal (forget_paired_devices).        *)
THEOREM ForgottenStaysGone ==
  ASSUME "overlap" \notin Faults, "disk" \notin Faults PROVE Spec => []ForgottenIsGone
<1>1. ASSUME Init PROVE GoneInv
  <2>1. /\ \A h \in Host : /\ forgotten[h] = {} /\ pairing[h] = 0 /\ trusted.pairing[h] = 0
                           /\ made[h] = 0
        /\ \A c \in Command : cmd[c].at = "idle"
    BY <1>1 DEF Init, NoPairs, NoFile, Idle
  <2>. QED BY <2>1 DEF GoneInv, Numbered, ForgottenIsGone, Arriving, Leaving, Elsewhere
<1>2. Kept /\ Kept' /\ GoneInv /\ [Next]_vars => GoneInv'
  BY GoneStep
<1>3. GoneInv => ForgottenIsGone
  BY DEF GoneInv
<1>. QED BY <1>1, <1>2, <1>3, KeptAlways, PTL DEF Spec
=============================================================================
