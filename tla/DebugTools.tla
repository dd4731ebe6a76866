----------------------------- MODULE DebugTools -----------------------------
(***************************************************************************)
(* The three front ends of the hardware debugger and what each of their    *)
(* commands does with src/tools/reg_debugger.py's RegDebugger:             *)
(*   "cli"    reg_debugger.py itself, a process for every command,         *)
(*   "shell"  reg_debugger_shell.py, one process for many commands,        *)
(*   "web"    the WebSocket commands of webdbg/server.py, and its polls.   *)
(*                                                                         *)
(* A command of the user is a record with its name in `cmd` and what it is *)
(* given; it becomes the sequence of calls it makes.  A call writes one    *)
(* command to the wire and may read words back; or it raises an exception, *)
(* after which the rest of the sequence is not run.                        *)
(***************************************************************************)
EXTENDS ProgramImage

CONSTANT NumRegs   \* 32

CMD == [HALT |-> 1, RESUME |-> 2, STEP |-> 3, READ_REG |-> 4, READ_PC |-> 5,
        READ_ALL |-> 6, WRITE_MEM |-> 7, READ_MEM |-> 8, READ_CSR |-> 9,
        READ_MMIO |-> 10]

Sends(op, arg) == [op |-> op, arg |-> arg, err |-> "none"]
Raises(e)      == [op |-> 0, arg |-> <<>>, err |-> e]

-----------------------------------------------------------------------------
(* RegDebugger.  Numbers that do not fit their field raise struct.error     *)
(* before anything is written.                                             *)
halt    == <<Sends(CMD.HALT, <<>>)>>
resume  == <<Sends(CMD.RESUME, <<>>)>>
step(n) == [i \in 1..n |-> Sends(CMD.STEP, <<>>)]

read_reg(idx) == IF idx \in 0 .. NumRegs - 1 THEN <<Sends(CMD.READ_REG, <<idx>>)>>
                 ELSE <<Raises("ValueError")>>
read_pc  == <<Sends(CMD.READ_PC, <<>>)>>
read_all == <<Sends(CMD.READ_ALL, <<>>)>>

\* One address of n bytes.
AtAddr(op, addr, n) == IF Fits(addr, n) THEN <<Sends(op, Pack(addr, n))>>
                       ELSE <<Raises("struct.error")>>
read_mem(addr)  == AtAddr(CMD.READ_MEM, addr, WordBytes)
read_csr(addr)  == AtAddr(CMD.READ_CSR, addr, 2)
read_mmio(addr) == AtAddr(CMD.READ_MMIO, addr, WordBytes)

write_mem(addr, data) ==
  IF Fits(addr, WordBytes) /\ Fits(data, WordBytes)
  THEN <<Sends(CMD.WRITE_MEM, Pack(addr, WordBytes) \o Pack(data, WordBytes))>>
  ELSE <<Raises("struct.error")>>

read_mem_range(addr, n) ==
  FlattenSeq([i \in 1..n |-> read_mem(addr + WordBytes * (i - 1))])

load_program(words, base) ==
  halt \o FlattenSeq([i \in DOMAIN words |-> write_mem(base + WordBytes * (i - 1), words[i])])

\* A file is read before anything is sent.
Load(image, base) == IF image.err # "none" THEN <<Raises(image.err)>>
                     ELSE load_program(image.words, base)

-----------------------------------------------------------------------------
(* The front ends. *)
Then(go) == IF go THEN resume ELSE <<>>

cli(u) ==
  CASE u.cmd = "halt"      -> halt
    [] u.cmd = "resume"    -> resume
    [] u.cmd = "step"      -> step(u.n)
    [] u.cmd = "read-reg"  -> read_reg(u.idx)
    [] u.cmd = "read-pc"   -> read_pc
    [] u.cmd = "dump"      -> read_all
    [] u.cmd = "write-mem" -> write_mem(u.addr, u.data)
    [] u.cmd = "read-mem"  -> read_mem(u.addr)
    [] u.cmd = "read-csr"  -> read_csr(u.addr)
    [] u.cmd = "read-mmio" -> read_mmio(u.addr)
    [] u.cmd = "hexdump"   -> read_mem_range(u.addr, u.n)
    [] u.cmd = "load"      -> Load(load_words_from_file(u.file, ~u.no_trim), u.addr)
                                \o Then(u.resume)

shell(u) ==
  CASE u.cmd = "halt"    -> halt
    [] u.cmd = "resume"  -> resume
    [] u.cmd = "step"    -> step(u.n)
    [] u.cmd = "reg"     -> read_reg(u.idx)
    [] u.cmd = "pc"      -> read_pc
    [] u.cmd = "dump"    -> read_all
    [] u.cmd = "wmem"    -> write_mem(u.addr, u.data)
    [] u.cmd = "rmem"    -> read_mem(u.addr)
    [] u.cmd = "hexdump" -> read_mem_range(u.addr, u.n)
    [] u.cmd = "load"    -> Load(load_words_from_file(u.file, ~u.no_trim), u.addr)

\* "build" flashes what it assembled; "poll" is a turn of poll_loop.
web(u) ==
  CASE u.cmd = "halt"      -> halt
    [] u.cmd = "resume"    -> resume
    [] u.cmd = "step"      -> step(u.n)
    [] u.cmd = "read_mem"  -> read_mem_range(u.addr, u.n)
    [] u.cmd = "read_csr"  -> read_csr(u.addr)
    [] u.cmd = "read_mmio" -> read_mmio(u.addr)
    [] u.cmd = "write_mem" -> write_mem(u.addr, u.data)
    [] u.cmd = "flash"     -> Load(IF u.file.kind = "mif" THEN _mif_bytes_to_words(u.file.lines)
                                   ELSE _bytes_to_words(u.file.bytes), u.addr) \o Then(u.resume)
    [] u.cmd = "build"     -> Load(_bytes_to_words(u.file.bytes), u.addr) \o Then(u.resume)
    [] u.cmd = "poll"      -> read_all

Calls(tool, u) == CASE tool = "cli" -> cli(u) [] tool = "shell" -> shell(u) [] tool = "web" -> web(u)

\* The command line is a process per command, which opens the port; pyserial
\* empties the driver's input buffer when it does.
OwnProcess(tool) == tool = "cli"

\* _guard catches IOError and ValueError, anything else ends the shell.  A
\* thread of the server that dies is replaced when the page connects again,
\* and the port it used stays open.
EndsSession(tool, err) == tool = "shell" /\ err = "struct.error"
=============================================================================
