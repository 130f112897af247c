----------------------------- MODULE ParamStore -----------------------------
(***************************************************************************)
(* The parameter store and the boot (App/SerialNet/serialNet.c, the NOR    *)
(* flash driver BSP/flash.c, and the commands of at_cmd.c and              *)
(* http_parser.c that save).                                               *)
(*                                                                         *)
(* A parameter set fills more than one flash page: the first holds the     *)
(* flag isValid and the serial settings (here the frame length, head), the *)
(* second the end of the web settings (tail).  The factory set and the     *)
(* user's set have a sector each.  Programming a page of NOR flash can     *)
(* only clear bits, so a page is the SET of the values programmed into it  *)
(* since it was erased: none reads as ones, one reads as itself, several   *)
(* read as their conjunction.  A page is programmed byte by byte and a     *)
(* sector takes its time to be erased: in between, and for good when that  *)
(* is cut short, a value is not whole and the page reads as anything.      *)
(*                                                                         *)
(* AtThread has a higher priority than WebServerThread, and neither blocks *)
(* in WriteFlash: AtThread may run between any two steps of a save of the  *)
(* web server and never the other way round.  Nothing locks the sector.    *)
(* Power may fail, and a command may reset the chip, at any moment.        *)
(***************************************************************************)
EXTENDS Naturals, FiniteSets

CONSTANTS Lengths,     \* frame lengths a user gives
          MinLength,   \* MIN_RECV_BUFFER_SIZE
          MaxLength,   \* MAX_RECV_BUFFER_SIZE
          DefLength,   \* DEF_RECV_BUFFER_SIZE
          OnesLength,  \* a frame length read from erased flash
          AnyLength,   \* stands for what is read from a page that is not whole
          Tails,       \* the settings of the web pages
          Retries,     \* how often QSpiWriteAny programs one page
          Writers,     \* which of "AT" and "WEB" may save
          MaxCommands, \* bound: commands that change or save the parameters
          MaxFaults    \* bound: power failures, and programming that did not take

ASSUME LengthsAssumption ==
  /\ Lengths \subseteq Nat
  /\ {MinLength, MaxLength, DefLength, OnesLength, AnyLength} \subseteq Nat
  /\ MinLength <= DefLength /\ DefLength <= MaxLength

ASSUME RetriesAssumption == Retries \in Nat \ {0}

Tasks == {"AT", "WEB", "BOOT"}
Sectors == {"factory", "user"}          \* FACTORY_PARAM_ADDR, USER_PARAM_ADDR
Pages == {1, 2}

Zero == "zero"                          \* the tail after memset
Ones == "ones"                          \* the tail read from erased flash
Any == "any"                            \* the tail read from a page that is not whole

ParamLengths == Lengths \cup {0, MinLength, MaxLength, DefLength, OnesLength, AnyLength}
ParamSet == [isValid : BOOLEAN, head : ParamLengths, tail : Tails \cup {Zero, Ones, Any}]

(* The part of a set that goes into a page. *)
Part(u, p) == IF p = 1 THEN <<u.isValid, u.head>> ELSE <<u.tail>>

Blank == [p \in Pages |-> {}]

(* What is in a page: whole, or only some of its bits. *)
Whole(part) == [part |-> part, whole |-> TRUE]
Broken(part) == [part |-> part, whole |-> FALSE]
BrokenAll(values) == {Broken(v.part) : v \in values}

(* memset(&UserParam, 0, ...) and InitFactoryParam. *)
ZeroParam == [isValid |-> FALSE, head |-> 0, tail |-> Zero]
InitFactoryParam == [isValid |-> FALSE, head |-> DefLength, tail |-> Zero]

VARIABLES
  phase,      \* "off", the steps of init_default_data, or "run"
  UserParam,  \* the user's parameters in RAM
  flash,      \* sector -> page -> values programmed since the erasure
  pc,         \* where each task is in WriteFlash, "reset", or "idle"
  sector,     \* BurnStartPos of each task's WriteFlash
  flash_buf,  \* {}: pages come from pData; {u}: from the copy of u
  page,       \* the page QSpiWriteAny is at
  tries,      \* how often it has programmed this page
  thenReset,  \* the command resets the chip after its save
  gaveUp,     \* history: all tries for a page of this save were used up
  sources,    \* what pData has pointed at since the save began
  stored,     \* the sets the next boot may find
  alone,      \* the save of the user's set that no other has overlapped
  mixed,      \* saves overlapped, and none has run alone to its end since
  faults, commands

call == <<sector, flash_buf, page, tries, thenReset, gaveUp, sources>>
vars == <<phase, UserParam, flash, pc, sector, flash_buf, page, tries, thenReset, gaveUp,
          sources, stored, alone, mixed, faults, commands>>

Init ==
  /\ phase = "off"
  /\ UserParam = ZeroParam
  /\ flash = [s \in Sectors |-> Blank]
  /\ pc = [t \in Tasks |-> "idle"]
  /\ sector = [t \in Tasks |-> "user"]
  /\ flash_buf = [t \in Tasks |-> {}]
  /\ page = [t \in Tasks |-> 1]
  /\ tries = [t \in Tasks |-> 0]
  /\ thenReset = [t \in Tasks |-> FALSE]
  /\ gaveUp = [t \in Tasks |-> FALSE]
  /\ sources = [t \in Tasks |-> {}]
  /\ stored = {InitFactoryParam}
  /\ alone = {}
  /\ mixed = FALSE
  /\ faults = 0 /\ commands = 0

Idle(t) == pc[t] = "idle"
Saving(t) == pc[t] \notin {"idle", "reset"}

(* A task takes a step only when no task of a higher priority is in the    *)
(* middle of its save.                                                     *)
MayRun(t) == t = "WEB" => ~Saving("AT")

-----------------------------------------------------------------------------
(* What a save of u may leave between two of its pages, or when it lost    *)
(* one: a blank first page, or u with a blank second page.                 *)
Torn(u) == [u EXCEPT !.tail = Ones]
Outcomes(u) == {InitFactoryParam, u, Torn(u)}

(* WriteFlash.  pData is FactoryParam or UserParam itself, never a copy. *)
Data(t) == IF sector[t] = "factory" THEN InitFactoryParam ELSE UserParam

StartWrite(t, s, u, reset) ==
  /\ pc' = [pc EXCEPT ![t] = "read"]
  /\ sector' = [sector EXCEPT ![t] = s]
  /\ flash_buf' = [flash_buf EXCEPT ![t] = {}]
  /\ page' = [page EXCEPT ![t] = 1]
  /\ tries' = [tries EXCEPT ![t] = 0]
  /\ thenReset' = [thenReset EXCEPT ![t] = reset]
  /\ gaveUp' = [gaveUp EXCEPT ![t] = FALSE]
  /\ sources' = [sources EXCEPT ![t] = {u}]
  /\ IF s = "user"
     THEN /\ IF \E o \in Tasks \ {t} : Saving(o)
             THEN alone' = {} /\ mixed' = TRUE
             ELSE alone' = {t} /\ UNCHANGED mixed
          /\ stored' = stored \cup Outcomes(u)
     ELSE UNCHANGED <<alone, mixed, stored>>

(* Mutant: the sector is erased only when its last page is not blank. *)
MutReadSector(t) ==
  /\ pc[t] = "read" /\ MayRun(t)
  /\ pc' = [pc EXCEPT ![t] = IF flash[sector[t]][2] = {} THEN "program" ELSE "erase"]
  /\ UNCHANGED <<phase, UserParam, flash, call, stored, alone, mixed, faults, commands>>

(* The sector is read; a byte of the range that is not 0xFF asks for the   *)
(* erasure of the sector, otherwise the data are programmed directly.      *)
ReadSector(t) ==
  /\ pc[t] = "read" /\ MayRun(t)
  /\ pc' = [pc EXCEPT ![t] = IF flash[sector[t]] = Blank THEN "program" ELSE "erase"]
  /\ UNCHANGED <<phase, UserParam, flash, call, stored, alone, mixed, faults, commands>>

(* QSpiFlashEraseSector: while it works, nothing is known of the sector.   *)
(* The CPU then waits 100 ms, and may be preempted.                        *)
EraseBegins(t) ==
  /\ pc[t] = "erase" /\ MayRun(t)
  /\ flash' = [flash EXCEPT ![sector[t]] = [p \in Pages |-> BrokenAll(@[p])]]
  /\ pc' = [pc EXCEPT ![t] = "erasing"]
  /\ UNCHANGED <<phase, UserParam, call, stored, alone, mixed, faults, commands>>

EraseSector(t) ==
  /\ pc[t] = "erasing" /\ MayRun(t)
  /\ flash' = [flash EXCEPT ![sector[t]] = Blank]
  /\ pc' = [pc EXCEPT ![t] = "copy"]
  /\ UNCHANGED <<phase, UserParam, call, stored, alone, mixed, faults, commands>>

CopyData(t) ==
  /\ pc[t] = "copy" /\ MayRun(t)
  /\ flash_buf' = [flash_buf EXCEPT ![t] = {Data(t)}]
  /\ pc' = [pc EXCEPT ![t] = "program"]
  /\ UNCHANGED <<phase, UserParam, flash, sector, page, tries, thenReset, gaveUp, sources,
                 stored, alone, mixed, faults, commands>>

(* The page a task is at: one turn of the loop of QSpiWriteAny programs it *)
(* and reads it back.  The page is not whole while its bytes are shifted   *)
(* out, and stays so when programming does not take.                       *)
PagePart(t) ==
  Part(IF flash_buf[t] = {} THEN Data(t) ELSE CHOOSE b \in flash_buf[t] : TRUE, page[t])

(* Programming clears bits and sets none; data that are there stay. *)
Programming(values, part) == IF Whole(part) \in values THEN values ELSE values \cup {Broken(part)}
QSpiFlashWriteOnePage(values, part) == (values \ {Broken(part)}) \cup {Whole(part)}

ProgramBegins(t) ==
  /\ pc[t] = "program" /\ MayRun(t)
  /\ flash' = [flash EXCEPT ![sector[t]][page[t]] = Programming(@, PagePart(t))]
  /\ pc' = [pc EXCEPT ![t] = "programming"]
  /\ UNCHANGED <<phase, UserParam, call, stored, alone, mixed, faults, commands>>

(* The save ends, and its locals are gone.  If it was alone, the flash now *)
(* holds what it saved, unless a page got lost.                            *)
Stop(t, lost) ==
  /\ pc' = [pc EXCEPT ![t] = IF thenReset[t] THEN "reset" ELSE "idle"]
  /\ sector' = [sector EXCEPT ![t] = "user"]
  /\ flash_buf' = [flash_buf EXCEPT ![t] = {}]
  /\ page' = [page EXCEPT ![t] = 1]
  /\ tries' = [tries EXCEPT ![t] = 0]
  /\ thenReset' = [thenReset EXCEPT ![t] = FALSE]
  /\ gaveUp' = [gaveUp EXCEPT ![t] = FALSE]
  /\ sources' = [sources EXCEPT ![t] = {}]
  /\ alone' = alone \ {t}
  /\ IF t \in alone /\ sector[t] = "user"
     THEN /\ stored' = IF lost THEN UNION {Outcomes(u) : u \in sources[t]} ELSE sources[t]
          /\ mixed' = FALSE
     ELSE UNCHANGED <<stored, mixed>>

(* The loop goes on: another try, or the next page. *)
GoOn(t, nextPage, n, lost) ==
  /\ pc' = [pc EXCEPT ![t] = "program"]
  /\ page' = [page EXCEPT ![t] = nextPage]
  /\ tries' = [tries EXCEPT ![t] = n]
  /\ gaveUp' = [gaveUp EXCEPT ![t] = lost]
  /\ UNCHANGED <<sector, flash_buf, thenReset, sources, stored, alone, mixed>>

NextPage(t, lost) == IF page[t] = 1 THEN GoOn(t, 2, 0, lost) ELSE Stop(t, lost)

(* The counter j is tested after it was decremented, so the last try ends  *)
(* the write with an error when it succeeds, and when it fails j has       *)
(* wrapped and the next page follows as if nothing had happened.           *)
ProgramPage(t) ==
  LET part == PagePart(t)
      last == tries[t] + 1 = Retries
      lost == gaveUp[t] \/ last
  IN /\ pc[t] = "programming" /\ MayRun(t)
     /\ \E took \in BOOLEAN :
          /\ ~took => faults < MaxFaults
          /\ faults' = IF took THEN faults ELSE faults + 1
          /\ flash' = IF took
                      THEN [flash EXCEPT ![sector[t]][page[t]] = QSpiFlashWriteOnePage(@, part)]
                      ELSE flash
     /\ IF flash'[sector[t]][page[t]] = {Whole(part)}       \* memcmp = 0
        THEN IF last THEN Stop(t, lost) ELSE NextPage(t, lost)
        ELSE IF last THEN NextPage(t, lost) ELSE GoOn(t, page[t], tries[t] + 1, lost)
     /\ UNCHANGED <<phase, UserParam, commands>>

WriteStep(t) ==
  \/ ReadSector(t) \/ EraseBegins(t) \/ EraseSector(t)
  \/ CopyData(t) \/ ProgramBegins(t) \/ ProgramPage(t)

-----------------------------------------------------------------------------
(* init_default_data: with the factory button down, or without a valid     *)
(* user's set, the factory set is written, read back, and becomes the      *)
(* user's set.                                                             *)
Reads(values, ones, all) ==
  IF values = {} THEN {ones}
  ELSE IF Cardinality(values) = 1 /\ \A v \in values : v.whole
       THEN {v.part : v \in values} ELSE all

(* What may be read from a page, given what a blank one reads as, and from *)
(* a sector.                                                               *)
FirstPage(s) == Reads(flash[s][1], <<FALSE, OnesLength>>, BOOLEAN \X {AnyLength})
SecondPage(s) == Reads(flash[s][2], <<Ones>>, {<<Any>>})
ReadFlash(s) ==
  {[isValid |-> a[1], head |-> a[2], tail |-> b[1]] : a \in FirstPage(s), b \in SecondPage(s)}

(* Mutant: any flag but zero counts as valid, that of a blank page too. *)
MutGetUserParam ==
  {IF flash["user"][1] = {} THEN [u EXCEPT !.isValid = TRUE] ELSE u : u \in ReadFlash("user")}

GetUserParam == ReadFlash("user")
GetFactoryParam == ReadFlash("factory")

(* LoadUserParam clamps the frame length into g_RecvBufSize and into the   *)
(* FACTORY set; the user's set keeps what was read, a length of 0 too.     *)
LoadUserParam(u) == u

LoadFactory ==
  /\ phase' = "factory"
  /\ StartWrite("BOOT", "factory", InitFactoryParam, FALSE)
  /\ UNCHANGED UserParam

Boot ==
  /\ phase = "off"
  /\ \E u \in GetUserParam :
       \/ /\ u.isValid
          /\ phase' = "run"
          /\ UserParam' = LoadUserParam(u)
          /\ UNCHANGED <<pc, call, stored, alone, mixed>>
       \/ /\ ~u.isValid
          /\ LoadFactory
  /\ UNCHANGED <<flash, faults, commands>>

(* The button is read before the flash. *)
BootButton ==
  /\ phase = "off" /\ commands < MaxCommands
  /\ LoadFactory
  /\ commands' = commands + 1
  /\ UNCHANGED <<flash, faults>>

(* Mutant: the device boots again after it has written the factory set,    *)
(* which is not marked valid.                                              *)
MutBootCopy ==
  /\ phase = "factory" /\ Idle("BOOT")
  /\ phase' = "off"
  /\ UNCHANGED <<UserParam, flash, pc, call, stored, alone, mixed, faults, commands>>

(* GetFactoryParam and memcpy, then SaveUserParam: what is read back from  *)
(* the factory's sector is saved as the user's set.                        *)
BootCopy ==
  /\ phase = "factory" /\ Idle("BOOT")
  /\ phase' = "user"
  /\ \E u \in GetFactoryParam :
       /\ UserParam' = u
       /\ StartWrite("BOOT", "user", u, FALSE)
  /\ UNCHANGED <<flash, faults, commands>>

BootDone ==
  /\ phase = "user" /\ Idle("BOOT")
  /\ phase' = "run"
  /\ UNCHANGED <<UserParam, flash, pc, call, stored, alone, mixed, faults, commands>>

-----------------------------------------------------------------------------
(* The commands.  AtThread and WebServerThread handle one at a time. *)
Command(t) ==
  /\ phase = "run" /\ t \in Writers /\ Idle(t) /\ MayRun(t)
  /\ commands < MaxCommands
  /\ commands' = commands + 1
  /\ UNCHANGED <<phase, flash, faults>>

Clamp(n) == IF n < MinLength THEN MinLength ELSE IF n > MaxLength THEN MaxLength ELSE n

(* The set pData points at is another one from here on. *)
Assign(u) ==
  /\ UserParam' = u
  /\ sources' = [t \in Tasks |-> IF Saving(t) /\ sector[t] = "user"
                                 THEN sources[t] \cup {u} ELSE sources[t]]
  /\ stored' = IF \E t \in Tasks : Saving(t) THEN stored \cup Outcomes(u) ELSE stored

Edit(t, u) ==
  /\ Command(t)
  /\ Assign(u)
  /\ UNCHANGED <<pc, sector, flash_buf, page, tries, thenReset, gaveUp, alone, mixed>>

(* AT+UARTFL clamps the length; the web page takes 0..1400 as it comes. *)
responseUARTFL(n) == Edit("AT", [UserParam EXCEPT !.head = Clamp(n)])
http_setup_uart(n) == n <= MaxLength /\ Edit("WEB", [UserParam EXCEPT !.head = n])
http_setup_wifibase(w) == Edit("WEB", [UserParam EXCEPT !.tail = w])

(* A command that saves u: as the user's set, and then perhaps resets. *)
SaveUserParam(t, u, reset) ==
  /\ Command(t)
  /\ UserParam' = u
  /\ StartWrite(t, "user", u, reset)

responseSAVE == SaveUserParam("AT", [UserParam EXCEPT !.isValid = TRUE], FALSE)
responseFACTORY == SaveUserParam("AT", ZeroParam, TRUE)
http_resetsys == SaveUserParam("WEB", [UserParam EXCEPT !.isValid = TRUE], TRUE)
http_factory == SaveUserParam("WEB", ZeroParam, TRUE)

-----------------------------------------------------------------------------
(* Everything in RAM is lost, and with it a save that was under way. *)
Restart ==
  /\ phase' = "off"
  /\ pc' = [t \in Tasks |-> "idle"]
  /\ flash_buf' = [t \in Tasks |-> {}]
  /\ UserParam' = ZeroParam
  /\ page' = [t \in Tasks |-> 1]
  /\ tries' = [t \in Tasks |-> 0]
  /\ thenReset' = [t \in Tasks |-> FALSE]
  /\ gaveUp' = [t \in Tasks |-> FALSE]
  /\ sources' = [t \in Tasks |-> {}]
  /\ sector' = [t \in Tasks |-> "user"]
  /\ alone' = {}
  /\ UNCHANGED <<flash, stored, mixed>>

(* BSP_ChipReset after the save, and AT+RST without one. *)
ChipReset(t) ==
  /\ phase = "run" /\ pc[t] = "reset" /\ MayRun(t)
  /\ Restart
  /\ UNCHANGED <<commands, faults>>

responseRST ==
  /\ phase = "run" /\ "AT" \in Writers /\ Idle("AT")
  /\ commands < MaxCommands
  /\ commands' = commands + 1
  /\ Restart
  /\ UNCHANGED faults

PowerFailure ==
  /\ phase # "off" /\ faults < MaxFaults
  /\ faults' = faults + 1
  /\ Restart
  /\ UNCHANGED commands

-----------------------------------------------------------------------------
Next ==
  \/ \E t \in Tasks : WriteStep(t) \/ ChipReset(t)
  \/ Boot \/ BootButton \/ BootCopy \/ BootDone
  \/ \E n \in Lengths : responseUARTFL(n) \/ http_setup_uart(n)
  \/ \E w \in Tails : http_setup_wifibase(w)
  \/ responseSAVE \/ responseFACTORY \/ http_resetsys \/ http_factory
  \/ responseRST \/ PowerFailure

Spec == Init /\ [][Next]_vars

(* The boot and the saves go on as long as the power does: they are plain  *)
(* code that waits for nothing, and WebServerThread is held up only while  *)
(* AtThread runs.  Nothing obliges a user to give a command.               *)
FairSpec ==
  /\ Spec
  /\ WF_vars(Boot) /\ WF_vars(BootCopy) /\ WF_vars(BootDone)
  /\ \A t \in Tasks : WF_vars(WriteStep(t)) /\ WF_vars(ChipReset(t))

-----------------------------------------------------------------------------
(* Types; a task has at most one flash_buf, and Retries bounds its tries.   *)
TypeOK ==
  /\ phase \in {"off", "factory", "user", "run"}
  /\ UserParam \in ParamSet
  /\ \A s \in Sectors, p \in Pages :
       \A v \in flash[s][p] : v \in [part : {Part(u, p) : u \in ParamSet}, whole : BOOLEAN]
  /\ pc \in [Tasks -> {"idle", "read", "erase", "erasing", "copy", "program", "programming",
                       "reset"}]
  /\ sector \in [Tasks -> Sectors]
  /\ \A t \in Tasks : flash_buf[t] \subseteq ParamSet /\ Cardinality(flash_buf[t]) <= 1
  /\ page \in [Tasks -> Pages]
  /\ tries \in [Tasks -> 0 .. Retries - 1]
  /\ thenReset \in [Tasks -> BOOLEAN] /\ gaveUp \in [Tasks -> BOOLEAN]
  /\ \A t \in Tasks : sources[t] \subseteq ParamSet
  /\ stored \subseteq ParamSet /\ stored # {}
  /\ alone \subseteq Tasks
  /\ mixed \in BOOLEAN
  /\ {faults, commands} \subseteq Nat

(* The pages of the user's set that no power failure, reset or failed      *)
(* programming left half erased or half programmed.                        *)
Intact(p) == \A v \in flash["user"][p] : v.whole

(* What a boot finds.  After a save that ended, the next boot loads that   *)
(* set, or goes back to the factory set when that is what was saved; after *)
(* a save that lost a page, or was cut short between two of its steps by a *)
(* power failure or by the reset of another command, it finds the old set, *)
(* the factory set, or the new one with the second page blank: never two   *)
(* sets in one.  When a page itself was cut short, this is so of the other *)
(* page, and nothing in the store tells: the flag may be there and what    *)
(* follows it not.  Saves that overlapped promise nothing.                 *)
BootLoadsSaved ==
  [][(phase = "off" /\ phase' # "off" /\ ~mixed /\ commands' = commands)
       => \E u \in stored :
            IF phase' = "run"
            THEN \A p \in Pages : Intact(p) => Part(UserParam', p) = Part(u, p)
            ELSE Intact(1) => ~u.isValid]_vars

PartsOf(values) == {v.part : v \in values}
(* "Make sure the area that is written has been erased" (flash.c:621): a   *)
(* page is programmed only when it is blank or holds these very data,      *)
(* unless a save of AtThread broke into one of the web server, or another  *)
(* command changed the data under it.                                      *)
ProgramsErased ==
  [][\A s \in Sectors, p \in Pages :
       \/ PartsOf(flash'[s][p]) \subseteq PartsOf(flash[s][p])
       \/ flash[s][p] = {}
       \/ s = "user" /\ \A t \in alone : Cardinality(sources[t]) > 1]_vars

(* The store is sound: types and buffers of WriteFlash, and no page is     *)
(* programmed over other data.                                             *)
FlashSound == []TypeOK /\ ProgramsErased

(* However often the power fails or programming does not take, once that   *)
(* stops the device comes up.                                              *)
Recovers == phase = "off" ~> phase = "run"
=============================================================================
