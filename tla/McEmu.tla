---- MODULE McEmu ----
(***************************************************************************)
(* The virtual memory card: mcemu.c behind the hooked calls of sio2man.    *)
(* The memory card driver hands over a packet of commands with the port    *)
(* taken; Sio2McEmu gives the port back, carries the commands out on the   *)
(* card's file and takes the port again.  A page is PageBytes long, moved  *)
(* in pieces of 128 bytes and followed by a spare area of 16.              *)
(***************************************************************************)
EXTENDS Fragments

CONSTANTS
    BlockSize,  \* the pages of an erase block
    Pages,      \* the pages that are used
    Trailer     \* whether the driver ends a packet with a dummy command

ASSUME McEmuAssumption ==
    BlockSize \in Nat \ {0} /\ Pages \subseteq Nat /\ Trailer \in BOOLEAN

VARIABLES
    mc,     \* the emulator and the packet it works on
    shadow  \* the driver's view: what each page holds, <<>> when not known

PieceBytes == 128
SpareBytes == 16
PageBytes == SectorUnits * PieceBytes
Erased == [i \in 1 .. SectorUnits |-> <<"erased">>]
ECC(page) == <<"ecc", page>>

\* What the driver asks for, with the size of the data.
Read(size) == [do |-> "Read", size |-> size, data |-> <<>>, page |-> 0]
Write(size, data) == [do |-> "Write", size |-> size, data |-> data, page |-> 0]
Do(what, page) == [do |-> what, size |-> 0, data |-> <<>>, page |-> page]

PageData(page, n) == [i \in 1 .. SectorUnits |-> <<"page", page, i, n>>]

ReadPacket(page) ==
    <<Do("StartRead", page)>> \o [i \in 1 .. SectorUnits |-> Read(PieceBytes)]
        \o <<Read(SpareBytes)>>
WritePacket(page, n) ==
    <<Do("StartWrite", page)>>
        \o [i \in 1 .. SectorUnits |-> Write(PieceBytes, <<PageData(page, n)[i]>>)]
        \o <<Write(SpareBytes, <<ECC(PageData(page, n))>>)>>
Packet81(packet) == IF Trailer THEN packet \o <<Do("Other", 0)>> ELSE packet

Requests ==
    [kind : {"read", "write"}, page : Pages]
        \union [kind : {"erase"}, page : {p \in Pages : p % BlockSize = 0}]
        \union [kind : {"status", "auth"}, page : {0}]
Commands81(request, n) ==
    CASE request.kind = "read" -> Packet81(ReadPacket(request.page))
      [] request.kind = "write" -> Packet81(WritePacket(request.page, n))
      [] request.kind = "erase" -> Packet81(<<Do("Erase", request.page)>>)
      [] request.kind = "status" -> <<Do("Other", 0)>>
      [] request.kind = "auth" -> <<Do("MagicGate", 0)>>

NoRequest == [kind |-> "none", page |-> 0]

McEmuInit ==
    /\ mc = [pc |-> "idle", request |-> NoRequest, packet |-> <<>>, result |-> 1, answer |-> <<>>,
             size |-> 0, tot |-> 0, nth |-> 0,
             rpage |-> 0, rdoff |-> 0, rcoff |-> 0, wpage |-> 0, wroff |-> 0, wcoff |-> 0,
             dbuf |-> Erased, cbuf |-> ECC(Erased)]
    /\ shadow = [p \in Pages |-> Units("vmc", p * SectorUnits, SectorUnits)]

-----------------------------------------------------------------------------
(* The file of the card: fhi_read and fhi_write of one page.  Over a card  *)
(* emulator that is a seek and a read or write of its driver.              *)

VmcFd == 2

FhiPage(op, page) ==
    IF left.via = "bd" THEN Fhi(op, "vmc", page, 1, mc.dbuf)
    ELSE Mmce("mmcedrv_lseek", 0, VmcFd, "vmc", page * SectorUnits, 0, 0, <<>>)
CallFhi(op, page) == call' = [call EXCEPT !["card"] = FhiPage(op, page)]

CardWaits(pc) == mc.pc = pc /\ call["card"].pc = "done"
Seeked == call["card"].op = "mmcedrv_lseek" /\ call["card"].res >= 0

\* The seek of a page is followed by its transfer.
PageTransfer ==
    /\ mc.pc \in {"reading", "writing", "erasing"}
    /\ call["card"].pc = "done" /\ Seeked
    /\ call' = [call EXCEPT !["card"] =
            Mmce(IF mc.pc = "reading" THEN "mmcedrv_read" ELSE "mmcedrv_write", 0, VmcFd, "vmc",
                 call["card"].arg, SectorUnits, 0, mc.dbuf)]
    /\ UNCHANGED <<mc, shadow, sio2Vars, pad, left, mmceVars, driveVars>>

PageMoved == call["card"].res = call["card"].size
Hangs == UNCHANGED <<sio2Vars, pad, mmceVars, driveVars>>
Ends == call' = [call EXCEPT !["card"] = NoCall]

-----------------------------------------------------------------------------
(* The commands.                                                           *)

\* The next command of the packet, or the end of it.
Result(m, r) == [m EXCEPT !.pc = "commands", !.packet = Tail(@), !.result = r]

\* "skipping ... command after I/O error"
\* A mutant: not after an error either.
GoesOnAnyway(m) == TRUE
GoesOn(m) == m.result > 0

MceStartRead(m, page) ==
    Result([m EXCEPT !.rpage = page, !.rdoff = 0, !.rcoff = 0], 1)
MceStartWrite(m, page) ==
    Result([m EXCEPT !.wpage = page, !.wroff = 0, !.wcoff = 0], 1)

\* The part of a request that is for the spare area.
SpareRead(m) ==
    LET csize == Lesser(m.size, SpareBytes) IN
    IF m.rcoff # 0 /\ m.rdoff = 0
    THEN [m EXCEPT !.answer = Append(@, m.cbuf), !.size = @ - csize,
                   !.rcoff = IF csize > 12 THEN 0 ELSE @ - csize]
    ELSE m
SpareWrite(m) ==
    LET csize == Lesser(m.size, SpareBytes) IN
    IF m.wcoff # 0 /\ m.wroff = 0
    THEN [m EXCEPT !.size = @ - csize, !.wcoff = IF csize > 12 THEN 0 ELSE @ - csize]
    ELSE m

\* The part that is in the page buffer; at its end the next page is due.
PageRead(m) ==
    LET n == Lesser(m.size, PageBytes - m.rdoff)
        end == m.rdoff + n
        copied == [m EXCEPT !.answer = @ \o SubSeq(m.dbuf, m.rdoff \div PieceBytes + 1,
                                                   end \div PieceBytes),
                            !.rdoff = end % PageBytes, !.rcoff = @ + 3]
    IN IF end < PageBytes THEN Result(copied, 1)
       ELSE LET over == [copied EXCEPT !.rpage = @ + 1, !.size = m.tot - n]
            IN IF over.size > 0 THEN [over EXCEPT !.pc = "read"] ELSE Result(over, 1)

MceRead ==
    /\ mc.pc = "read"
    /\ LET m == SpareRead(mc) IN
       \/ m.size = 0 /\ mc' = Result(m, 1) /\ UNCHANGED call
       \/ m.size > 0 /\ m.rdoff > 0 /\ mc' = PageRead(m) /\ UNCHANGED call
       \/ m.size > 0 /\ m.rdoff = 0 /\ mc' = [m EXCEPT !.pc = "reading"]
          /\ CallFhi("fhi_read", m.rpage)
    /\ UNCHANGED <<shadow, left>> /\ Hangs

do_read ==
    /\ CardWaits("reading") /\ ~Seeked
    /\ mc' = IF PageMoved
             THEN PageRead([mc EXCEPT !.dbuf = call["card"].buf, !.cbuf = ECC(call["card"].buf)])
             ELSE Result([mc EXCEPT !.answer = Append(@, Garbage)], 0)
    /\ Ends /\ UNCHANGED <<shadow, left>> /\ Hangs

MceWrite ==
    /\ mc.pc = "write"
    /\ LET m == SpareWrite(mc)
           n == Lesser(m.size, PageBytes - m.wroff)
           end == m.wroff + n
           data == Head(m.packet).data
           copied == [m EXCEPT
                        !.dbuf = [i \in DOMAIN @ |->
                            IF i - m.wroff \div PieceBytes \in DOMAIN data
                            THEN data[i - m.wroff \div PieceBytes] ELSE @[i]],
                        !.wroff = end % PageBytes, !.wcoff = @ + 3]
       IN \/ m.size = 0 /\ mc' = Result(m, 1) /\ UNCHANGED call
          \/ m.size > 0 /\ end < PageBytes /\ mc' = Result(copied, 1) /\ UNCHANGED call
          \/ /\ m.size > 0 /\ end = PageBytes
             /\ mc' = [copied EXCEPT !.pc = "writing", !.size = m.tot - n]
             /\ call' = [call EXCEPT !["card"] =
                    IF left.via = "bd" THEN Fhi("fhi_write", "vmc", m.wpage, 1, copied.dbuf)
                    ELSE FhiPage("fhi_write", m.wpage)]
    /\ UNCHANGED <<shadow, left>> /\ Hangs

PageWritten ==
    /\ CardWaits("writing") /\ ~Seeked
    /\ mc' = IF ~PageMoved THEN Result(mc, 0)
             ELSE LET m == [mc EXCEPT !.wpage = @ + 1]
                  IN IF m.size > 0 THEN [m EXCEPT !.pc = "write"] ELSE Result(m, 1)
    /\ Ends /\ UNCHANGED <<shadow, left>> /\ Hangs

MceEraseBlock ==
    /\ mc.pc = "erase"
    /\ mc' = [mc EXCEPT !.pc = "erasing"]
    /\ CallFhi("fhi_write", Head(mc.packet).page + mc.nth)
    /\ UNCHANGED <<shadow, left>> /\ Hangs

PageErased ==
    /\ CardWaits("erasing") /\ ~Seeked
    /\ mc' = IF ~PageMoved THEN Result(mc, 0)
             ELSE IF mc.nth = BlockSize - 1 THEN Result(mc, 1)
             ELSE [mc EXCEPT !.pc = "erase", !.nth = @ + 1]
    /\ Ends /\ UNCHANGED <<shadow, left>> /\ Hangs

-----------------------------------------------------------------------------
(* The driver and the packet.                                              *)

\* sio2_mc_transfer_init and sio2_transfer.  Sio2McEmu gives the port back.
DriverAsks ==
    /\ mc.pc = "idle" /\ left.sessions > 0 /\ sema.lock_sema > 0
    /\ \E request \in Requests :
          mc' = [mc EXCEPT !.pc = "asked", !.request = request,
                           !.packet = Commands81(request, left.sessions),
                           !.result = 1, !.answer = <<>>]
    /\ sema' = Taken("lock_sema")
    /\ Spent("sessions")
    /\ UNCHANGED <<shadow, handler, flagVars, port, pad, call, mmceVars, driveVars>>

PortGivenBack ==
    /\ mc.pc = "asked"
    /\ mc' = [mc EXCEPT !.pc = "commands"]
    /\ sema' = Given("lock_sema")
    /\ UNCHANGED <<shadow, handler, flagVars, port, pad, call, left, mmceVars, driveVars>>

Sio2McEmu ==
    /\ mc.pc = "commands" /\ mc.packet # <<>>
    /\ LET c == Head(mc.packet)
           sized == [mc EXCEPT !.size = c.size, !.tot = c.size]
       IN mc' = CASE c.do = "StartRead" -> MceStartRead(mc, c.page)
                  [] c.do = "StartWrite" -> MceStartWrite(mc, c.page)
                  [] c.do = "Erase" ->
                        [mc EXCEPT !.pc = "erase", !.dbuf = Erased, !.nth = 0]
                  [] c.do = "Read" ->
                        IF GoesOn(mc) THEN [sized EXCEPT !.pc = "read"]
                        ELSE Result([mc EXCEPT !.answer = Append(@, Garbage)], 0)
                  [] c.do = "Write" ->
                        IF GoesOn(mc) THEN [sized EXCEPT !.pc = "write"] ELSE Result(mc, 0)
                  [] c.do = "MagicGate" -> Result(mc, 0)
                  [] OTHER -> Result(mc, 1)
    /\ UNCHANGED <<shadow, call, left>> /\ Hangs

PortTakenAgain ==
    /\ mc.pc = "commands" /\ mc.packet = <<>> /\ sema.lock_sema > 0
    /\ mc' = [mc EXCEPT !.pc = "answered"]
    /\ sema' = Taken("lock_sema")
    /\ UNCHANGED <<shadow, handler, flagVars, port, pad, call, left, mmceVars, driveVars>>

\* The driver gives the port back and believes what iostatus says.
DriverTold ==
    /\ mc.pc = "answered"
    /\ sema' = Given("lock_sema")
    /\ shadow' = [p \in Pages |->
            IF mc.request.kind = "write" /\ p = mc.request.page
            THEN IF mc.result > 0 THEN PageData(p, left.sessions + 1) ELSE <<>>
            ELSE IF mc.request.kind = "erase" /\ p \div BlockSize = mc.request.page \div BlockSize
            THEN IF mc.result > 0 THEN Erased ELSE <<>>
            ELSE shadow[p]]
    /\ mc' = [mc EXCEPT !.pc = "idle", !.request = NoRequest, !.answer = <<>>]
    /\ UNCHANGED <<handler, flagVars, port, pad, call, left, mmceVars, driveVars>>

CardStep ==
    \/ PageTransfer \/ MceRead \/ do_read \/ MceWrite \/ PageWritten
    \/ MceEraseBlock \/ PageErased
    \/ DriverAsks \/ PortGivenBack \/ Sio2McEmu \/ PortTakenAgain \/ DriverTold
====
