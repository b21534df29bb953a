-------------------------------- MODULE Ota --------------------------------
(***************************************************************************)
(* Firmware update: a client sends an image (beken_ota.c) that the main    *)
(* loop writes into a spare area of the flash (driver_ota.c), and that the *)
(* boot loader copies over the firmware at the next start (bootloader.c).  *)
(* A record beside the area, the info, says how far this has come; its     *)
(* mark only ever loses bits:                                              *)
(*                                                                         *)
(*     INIT 0xFFFF, ONGO 0xFF55, SUCC 0x5555, USED 0x0055, FAIL 0x0000.    *)
(*                                                                         *)
(* The same flash holds the environment of the application (link keys,     *)
(* app_env.c), in blocks that are used one after the other.  The flash     *)
(* driver lifts the write protection for each call, but leaves it alone    *)
(* while an update is going on, except that every erase ends by protecting *)
(* the whole flash.                                                        *)
(*                                                                         *)
(* Each call is the sequence of its flash accesses; the power can go       *)
(* between any two of them.  A unit of an image stands for what is erased  *)
(* and programmed at once, and is never blank; the last one of an image    *)
(* whose length is no multiple of a sector fills its sector in part.  All  *)
(* images are for the same area.                                           *)
(*                                                                         *)
(* Clients are not held to the protocol: START is taken without an INQUIRY *)
(* before it, and for another image than the last time; INQUIRY and END    *)
(* come at any time, END also without a START.  Only DATA are sent by a    *)
(* client whose START was accepted and that has asked for nothing since.   *)
(***************************************************************************)
EXTENDS Integers, Sequences

CONSTANTS
    Images,      \* the images of the clients; Old is the firmware at first
    Old,
    Ragged,      \* the images whose length is no multiple of a sector
    N,           \* the units of an image
    BufMax,      \* the units that driver_ota_param.data holds
    EnvValues,   \* what the application saves in its environment
    EnvBlocks,   \* the blocks of the environment, 16 in the code
    MaxData,     \* bound: units received since the last INQUIRY
    MaxCrashes,  \* bound: power losses
    MaxFaults,   \* bound: copies that go wrong in the boot loader
    UpdatesFrom, \* bound: the firmware from which an update starts
    Blank, Bad, Used, Torn, None

\* The marks, by the number of steps that are still possible.
INIT == 4
ONGO == 3
SUCC == 2
USED == 1
FAIL == 0

ASSUME OtaAssumption ==
    /\ N \in Nat \ {0} /\ BufMax \in Nat \ {0} /\ EnvBlocks \in Nat \ {0}
    /\ Ragged \subseteq Images /\ UpdatesFrom \subseteq Images \union {Old}
    /\ MaxCrashes \in Nat /\ MaxFaults \in Nat /\ MaxData \in Nat
    /\ Images \intersect {Old, Blank, Bad, None} = {} /\ Blank \notin {Bad, None}
    /\ \A m \in Images \union {None}, i \in 0 .. N : <<m, i>> \notin {Blank, Bad, None}
    /\ \A m \in Images : <<SUCC, m>> \notin {Blank, Bad, None}
    /\ Used \notin EnvValues \union {Blank, Torn}

VARIABLES
    area, dest,  \* unit -> Blank, a unit of an image, or Bad
    info,        \* its mark, its body (the header of the image, None when it is 0)
                 \* and its info_crc
    env,         \* block -> Blank, Used, Torn (only its first line), or a value
    locked,      \* the flash is protected
    mode,        \* "boot", "copy", "used", "start", "app", "end", "stuck"
    todo,        \* the flash accesses that the running call has left
    ram,         \* driver_ota_param
    next,        \* beken_ota_param.data_addr, as the number of a unit, or None
    started,     \* a client sends data: its START was accepted and was its last request
    spared,      \* history: the units that the last walk of the erasing did not reach
    saved, calm, \* history: what the environment should hold; whether no update was on
    crashes, faults

flash == <<area, dest, info, env, locked>>
client == <<next, started>>
past == <<spared, saved, calm>>
vars == <<flash, mode, todo, ram, client, past, crashes, faults>>

Unit == 1 .. N
Whole(m) == [i \in Unit |-> <<m, i>>]
Empty == [i \in Unit |-> Blank]

\* Programming over what is not blank; 0 covers everything.
Over(x, y) ==
    IF x \in {Blank, y} THEN y ELSE IF None \in {x, y} THEN None ELSE Bad
Lower(x, y) == IF x < y THEN x ELSE y

Quiet == [on |-> FALSE, protect |-> 0, image |-> None, offset |-> 0, buf |-> << >>]
Idle == mode = "app" /\ todo = << >>

-----------------------------------------------------------------------------
(* Flash accesses.                                                         *)

Access(op, at, value) == [op |-> op, at |-> at, value |-> value]

Info(mark, m) == <<Access("mark", 0, mark), Access("body", 0, m)>>
Sealed(mark, m) == Append(Info(mark, m), Access("seal", 0, <<mark, m>>))

Units(first, units) == [i \in 1 .. Len(units) |-> Access("area", first + i - 1, units[i])]

Erases == {"erase area", "erase dest", "erase info", "erase env"}
Programs == {"area", "dest", "mark", "body", "seal", "env", "env line"}

\* What an access does to the flash when it is not protected.
Effect(x) ==
    /\ area' = CASE x.op = "erase area" /\ x.at \in Unit -> [area EXCEPT ![x.at] = Blank]
                 [] x.op = "area" /\ x.at \in Unit -> [area EXCEPT ![x.at] = Over(@, x.value)]
                 [] OTHER -> area
    /\ dest' = CASE x.op = "erase dest" -> [dest EXCEPT ![x.at] = Blank]
                 [] x.op = "dest" -> [dest EXCEPT ![x.at] = Over(@, x.value)]
                 [] OTHER -> dest
    /\ info' = CASE x.op = "erase info" -> [mark |-> INIT, body |-> Blank, seal |-> Blank]
                 [] x.op = "mark" -> [info EXCEPT !.mark = Lower(@, x.value)]
                 [] x.op = "body" -> [info EXCEPT !.body = Over(@, x.value)]
                 [] x.op = "seal" -> [info EXCEPT !.seal = Over(@, x.value)]
                 [] OTHER -> info
    /\ env' = CASE x.op = "erase env" -> [b \in DOMAIN env |-> Blank]
                [] x.op \in {"env", "env line"} -> [env EXCEPT ![x.at] = x.value]
                [] OTHER -> env

\* flash_erase_sector lifts the protection and sets it again; flash_write_data and
\* flash_write_page_data do so only while no update is going on.
Reaches(x) == x.op \in Erases \/ ~ram.on \/ ~locked
LockAfter(x) ==
    CASE x.op = "unlock" -> FALSE
      [] x.op = "lock" -> TRUE
      [] x.op \in Erases \/ (x.op \in Programs /\ ~ram.on) -> TRUE
      [] OTHER -> locked

\* The next access of the running call of the application.
Work ==
    /\ mode \in {"start", "app", "end", "stuck"} /\ todo # << >>
    /\ IF Reaches(Head(todo)) THEN Effect(Head(todo)) ELSE UNCHANGED <<area, dest, info, env>>
    /\ locked' = LockAfter(Head(todo))
    /\ todo' = Tail(todo)
    /\ UNCHANGED <<mode, ram, client, past, crashes, faults>>

-----------------------------------------------------------------------------
(* The boot loader and the start of the application.                       *)

Wanted(m) == info = [mark |-> SUCC, body |-> m, seal |-> <<SUCC, m>>]

\* Boot_erase_code, then the copy, unit by unit.
Copying ==
    [i \in 1 .. N |-> Access("erase dest", i, Blank)]
    \o [i \in 1 .. N |-> Access("dest", i, area[i])]

\* Boot_loader: an image that is complete is copied, else the application starts.
Boot ==
    /\ mode = "boot"
    /\ IF \E m \in Images : Wanted(m)
       THEN mode' = "copy" /\ todo' = Copying
       ELSE mode' = "start" /\ UNCHANGED todo
    /\ UNCHANGED <<flash, ram, client, past, crashes, faults>>

\* A unit may be copied wrong.
BootWork ==
    /\ mode \in {"copy", "used"} /\ todo # << >>
    /\ LET x == Head(todo)
       IN  \/ Effect(x) /\ UNCHANGED faults
           \/ /\ x.op = "dest" /\ faults < MaxFaults
              /\ faults' = faults + 1
              /\ Effect([x EXCEPT !.value = Bad])
    /\ todo' = Tail(todo)
    /\ UNCHANGED <<locked, mode, ram, client, past, crashes>>

\* Mutant: the copy is not compared.
Verify_Never ==
    /\ mode = "copy" /\ todo = << >>
    /\ mode' = "used" /\ todo' = <<Access("mark", 0, USED)>>
    /\ UNCHANGED <<flash, ram, client, past, crashes, faults>>

\* The copy is compared with the crc of the header, and made again until it is right.
Verify ==
    /\ mode = "copy" /\ todo = << >>
    /\ IF dest = Whole(info.body)
       THEN mode' = "used" /\ todo' = <<Access("mark", 0, USED)>>
       ELSE mode' = "copy" /\ todo' = Copying
    /\ UNCHANGED <<flash, ram, client, past, crashes, faults>>

Booted ==
    /\ mode = "used" /\ todo = << >>
    /\ mode' = "start"
    /\ UNCHANGED <<flash, todo, ram, client, past, crashes, faults>>

\* Mutant: the info is erased before the area.
Cleaning_InfoFirst(k, last) ==
    <<Access("erase info", 0, Blank)>>
    \o [i \in 1 .. k + 1 - last |-> Access("erase area", k + 1 - i, Blank)]

\* "erase addr from high to low, ensure ota_mark erased last": the sectors from the one
\* of unit k down to the last one, then the info.  Sector 0 is the one below the area.
Cleaning(k, last) ==
    [i \in 1 .. k + 1 - last |-> Access("erase area", k + 1 - i, Blank)]
    \o <<Access("erase info", 0, Blank)>>

\* The first and the last sector of the walk, by the length in the info.  The walk goes
\* down from addr1 + len in whole sectors: when len is no multiple of them it begins below
\* the last unit and ends below the area.  It reaches no sector when only the mark was
\* written, and any number when headers lie over each other.
Walks ==
    CASE info.body \in Images \ Ragged -> {<<N, 1>>}
      [] info.body \in Ragged          -> {<<N - 1, 0>>}
      [] info.body = Blank             -> {<<0, 1>>}
      [] info.body = None              -> {}
      [] OTHER                         -> ((0 .. N) \X {1}) \union ((0 .. N - 1) \X {0})

\* flash_init, then driver_ota_erase_flash, which does nothing when the length is 0.
Start ==
    /\ mode = "start" /\ todo = << >>
    /\ mode' = "app"
    /\ \/ /\ info.mark = INIT \/ info.body \in {None, Bad}
          /\ todo' = << >> /\ UNCHANGED spared
       \/ /\ info.mark # INIT
          /\ \E w \in Walks :
                /\ todo' = Cleaning(w[1], w[2])
                /\ spared' = IF info.body = Blank THEN spared ELSE w[1] + 1 .. N
    /\ locked' = TRUE
    /\ UNCHANGED <<area, dest, info, env, ram, client, saved, calm, crashes, faults>>

-----------------------------------------------------------------------------
(* The update (driver_ota.c).                                              *)

\* driver_ota_write_flash: what it writes, and what it leaves in driver_ota_param.
Flush ==
    (CASE ram.protect = 1 -> <<Access("unlock", 0, Blank)>> \o Info(ONGO, ram.image)
       [] ram.protect = 2 -> <<Access("lock", 0, Blank)>>
       [] OTHER           -> << >>)
    \o IF ram.on THEN Units(ram.offset + 1, ram.buf) ELSE << >>

Flushed ==
    IF ram.on THEN [ram EXCEPT !.protect = 0, !.offset = @ + Len(ram.buf), !.buf = << >>]
    ELSE [ram EXCEPT !.protect = 0]

\* driver_ota_write_flash, called in each round of the main loop.
WriteFlash ==
    /\ Idle /\ Flush # << >>
    /\ todo' = Flush /\ ram' = Flushed
    /\ UNCHANGED <<flash, mode, client, past, crashes, faults>>

\* INQUIRY_INFO_REQ: driver_ota_init forgets everything but beken_ota_param.
Inquiry ==
    /\ Idle
    /\ ram' = [Quiet EXCEPT !.on = TRUE]
    /\ started' = FALSE
    /\ UNCHANGED <<flash, mode, todo, next, past, crashes, faults>>

\* START_REQ is accepted while the area begins with the mark INIT, from any client, for
\* any image and whether or not update_flag is set (driver_ota_start).
StartReq(m) ==
    /\ Idle
    /\ area[1] = Blank /\ (\E o \in UpdatesFrom : dest = Whole(o))
    /\ next' = 1
    /\ ram' = [ram EXCEPT !.protect = 1, !.image = m]
    /\ started' = TRUE
    /\ UNCHANGED <<flash, mode, todo, past, crashes, faults>>

\* DATA_SEND: the unit that is expected is put into the buffer, which is written
\* first when it is full; any other unit is answered by DATA_ERROR.
Data(i) ==
    /\ Idle /\ started /\ i = next /\ ram.offset + Len(ram.buf) < MaxData
    /\ LET full == Len(ram.buf) = BufMax
           room == IF full THEN Flushed ELSE ram
       IN  /\ full => ram.on
           /\ todo' = IF full THEN Flush ELSE << >>
           /\ ram' = [room EXCEPT !.buf = Append(@, <<ram.image, i>>)]
    /\ next' = i + 1
    /\ UNCHANGED <<flash, mode, started, past, crashes, faults>>

\* END_REQ: driver_ota_finish_result writes the data that are left ...
EndReq ==
    /\ Idle /\ (ram.buf = << >> \/ ram.on)
    /\ mode' = "end" /\ started' = FALSE
    /\ IF ram.buf # << >> THEN todo' = Flush /\ ram' = Flushed ELSE UNCHANGED <<todo, ram>>
    /\ UNCHANGED <<flash, next, past, crashes, faults>>

\* With update_flag 0 (no INQUIRY) driver_ota_write_flash leaves the buffer as it is: END,
\* and DATA when it is full, wait for ever that it is empty, until the watchdog bites.
Hang ==
    /\ Idle /\ ~ram.on /\ ram.buf # << >>
    /\ mode' = "stuck"
    /\ todo' = Flush /\ ram' = Flushed
    /\ UNCHANGED <<flash, client, past, crashes, faults>>

\* Mutant: the crc is not looked at.
Received_Always == TRUE

\* The crc of what is in the area, over as much as was received.
Received == ram.offset = N /\ area = Whole(ram.image)

\* ... and then the outcome.
Finish ==
    /\ mode = "end" /\ todo = << >>
    /\ mode' = "app"
    /\ todo' = Sealed(IF Received THEN SUCC ELSE FAIL, ram.image)
    /\ ram' = [ram EXCEPT !.protect = 2]
    /\ next' = None
    /\ UNCHANGED <<flash, started, past, crashes, faults>>

-----------------------------------------------------------------------------
(* The environment of the application.                                     *)

Value(b) == env[b] \in EnvValues \union {Torn}

\* app_flash_read_env_data stops at the first block that is valid or blank.
Reads ==
    LET stop == {b \in 1 .. EnvBlocks : Value(b) \/ env[b] = Blank}
    IN  IF stop = {} THEN Blank ELSE env[CHOOSE b \in stop : \A c \in stop : b <= c]

\* Mutant: the old value stays valid.
Outdate_None(used) == << >>

\* The blocks in use are looked at, and lose their tag.
Outdate(used) ==
    [b \in 1 .. used |->
        IF Value(b) THEN Access("env", b, Used) ELSE Access("look", b, Blank)]

\* A value, its first line with the tag and then the others.
Save(b, v) == <<Access("env line", b, Torn), Access("env", b, v)>>

\* app_flash_write_env_data
WriteEnv(v) ==
    /\ Idle
    /\ \E used \in 0 .. EnvBlocks :
          /\ \A b \in 1 .. used : env[b] # Blank
          /\ \/ /\ used < EnvBlocks /\ env[used + 1] = Blank
                /\ todo' = Outdate(used) \o Save(used + 1, v)
             \/ /\ used = EnvBlocks
                /\ todo' = Outdate(used) \o <<Access("erase env", 0, Blank)>> \o Save(1, v)
    /\ saved' = v /\ calm' = ~ram.on
    /\ UNCHANGED <<flash, mode, ram, client, spared, crashes, faults>>

-----------------------------------------------------------------------------
(* Resets.                                                                 *)

Off ==
    /\ mode' = "boot" /\ todo' = << >> /\ ram' = Quiet /\ next' = None
    /\ started' = FALSE
    /\ UNCHANGED <<flash, spared, faults>>

\* REBOOT_CMD, or the end of a BLE connection during an update; the watchdog.
Reboot ==
    /\ Idle \/ (mode = "stuck" /\ todo = << >>)
    /\ Off
    /\ UNCHANGED <<saved, calm, crashes>>

InSave == \E i \in DOMAIN todo : todo[i].op = "env"

\* The power goes.  What was just being saved may be lost with it.
Crash ==
    /\ todo # << >> /\ crashes < MaxCrashes
    /\ Off
    /\ crashes' = crashes + 1
    /\ saved' = IF InSave THEN Reads ELSE saved
    /\ UNCHANGED calm

-----------------------------------------------------------------------------
Init ==
    /\ area = Empty /\ dest = Whole(Old)
    /\ info = [mark |-> INIT, body |-> Blank, seal |-> Blank]
    /\ env = [b \in 1 .. EnvBlocks |-> Blank]
    /\ locked = TRUE /\ mode = "boot" /\ todo = << >> /\ ram = Quiet /\ next = None
    /\ started = FALSE /\ spared = {} /\ saved = Blank /\ calm = TRUE
    /\ crashes = 0 /\ faults = 0

Next ==
    \/ Boot \/ BootWork \/ Verify \/ Booted \/ Start
    \/ Work \/ WriteFlash \/ Inquiry \/ EndReq \/ Finish \/ Hang
    \/ \E m \in Images : StartReq(m)
    \/ \E i \in Unit : Data(i)
    \/ \E v \in EnvValues : WriteEnv(v)
    \/ Reboot \/ Crash

Spec == Init /\ [][Next]_vars

\* The boot loader and the calls of the application run to their end.
FairSpec ==
    /\ Spec
    /\ WF_vars(Boot \/ BootWork \/ Verify \/ Booted \/ Start \/ Work \/ Finish)

-----------------------------------------------------------------------------
\* Whatever lies in the area is known to the info, also after a power loss in the middle
\* of the update or of the erasing, else START_REQ would write over it or refuse for ever:
\* with the exception of units that driver_ota_erase_flash passes over, the last one of an
\* image whose length is no multiple of a sector, and any when the headers of two images
\* lie over each other (beken_ota.c takes a second START).
DirtyIsMarked == info.mark = INIT => \A u \in Unit \ spared : area[u] = Blank

\* What the boot loader takes for complete is one image from its first unit to its
\* last, in spite of units that were lost, repeated or written while protected.
SealedIsWhole == \A m \in Images : Wanted(m) => area = Whole(m)

\* The firmware that runs is complete, wherever the power was lost.
RunsWholeImage ==
    mode \in {"start", "app", "end", "stuck"} => \E m \in Images \union {Old} : dest = Whole(m)

\* What app_flash_write_env_data has written while no update was on is what the next start
\* will read, whatever update, erasing, reset or power loss follows.  The save that a power
\* loss interrupts is not promised anything: what is found after it counts.
EnvIsKept == Idle /\ calm => Reads = saved

\* "write env data to the i block" (app_env.c): what was written is read.
EnvIsWritten == Idle => Reads = saved

\* An image that was complete at a reset is what the application runs from in the end, in
\* spite of power losses and copies that go wrong.
BootInstalls ==
    mode = "boot" /\ (\E m \in Images : Wanted(m)) ~> mode = "app" /\ dest = area
=============================================================================
