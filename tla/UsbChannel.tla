----------------------------- MODULE UsbChannel -----------------------------
(***************************************************************************)
(* The pair of bulk pipes between odin4 and a device in Download Mode, at  *)
(* the level of whole requests and replies.  UsbDevice sends one request   *)
(* (send_packet, odin_command, bulk_write_all) and then reads its reply    *)
(* (receive_packet, bulk_read_once) with a timeout.  The pipes are FIFO    *)
(* and are never flushed: a reply that arrives after the host has stopped  *)
(* waiting for it stays queued and is what the next read returns.          *)
(*                                                                         *)
(* The retries inside one write or one read are below this level: here a   *)
(* request is written completely or the write fails, and a read returns a  *)
(* reply or times out.                                                     *)
(***************************************************************************)
EXTENDS Naturals, Sequences

VARIABLES
    phase,    \* "send": the host runs; "recv": it waits for a reply
    sent,     \* number of requests written so far
    outq,     \* requests the device has not handled yet
    inq       \* replies the host has not read yet

chan == <<phase, sent, outq, inq>>

Codes == {"ok", "fail", "progress"}

Kinds == {"LOKE", "RESPONSE", "DEVICE_TYPE", "PIT_SIZE", "PIT_DATA", "RSP8"}

(***************************************************************************)
(* A request carries the operation and its operands (numbers); a reply     *)
(* names the request it answers (`to', which is not on the wire and which  *)
(* no operation of the host looks at), the packet it is, whether the host's*)
(* checks of its contents succeed, and the number it carries.              *)
(***************************************************************************)
Request(ops) == [n : Nat, op : ops, arg : Seq(Nat)]
Reply == [to : Nat, kind : Kinds, code : Codes, val : Nat]

ChannelTypeOK(ops) ==
    /\ phase \in {"send", "recv"}
    /\ sent \in Nat
    /\ outq \in Seq(Request(ops))
    /\ inq \in Seq(Reply)

ChannelInit ==
    /\ phase = "send"
    /\ sent = 0
    /\ outq = <<>>
    /\ inq = <<>>

-----------------------------------------------------------------------------
(* The host's side.                                                        *)

\* send_packet / the write of odin_command: the request is handed over whole.
Send(op, arg) ==
    /\ phase = "send"
    /\ phase' = "recv"
    /\ sent' = sent + 1
    /\ outq' = Append(outq, [n |-> sent + 1, op |-> op, arg |-> arg])
    /\ UNCHANGED inq

\* The reply the next read returns has the expected type and a zero code.
IsOk(kind) == Head(inq).kind = kind /\ Head(inq).code = "ok"

\* receive_packet / bulk_read_once returned a reply that passes the check
\* `good'; the host then runs on ("send") or reads a further packet ("recv").
Receive(good, next) ==
    /\ phase = "recv"
    /\ inq # <<>>
    /\ good
    /\ inq' = Tail(inq)
    /\ phase' = next
    /\ UNCHANGED <<sent, outq>>

\* The operation fails: the write failed, the read timed out, or the reply
\* that was read does not pass the check `good'.
Fails(good) ==
    /\ \/ phase = "send" /\ UNCHANGED inq
       \/ phase = "recv" /\ inq = <<>> /\ UNCHANGED inq
       \/ phase = "recv" /\ inq # <<>> /\ ~good /\ inq' = Tail(inq)
    /\ phase' = "send"
    /\ UNCHANGED <<sent, outq>>

-----------------------------------------------------------------------------
(* The device's side.                                                      *)

\* The device takes the oldest request off the pipe and answers it.
Serve(replies) ==
    /\ outq' = Tail(outq)
    /\ inq' = inq \o replies
    /\ UNCHANGED <<phase, sent>>

Answer(kind, code, val) ==
    [to |-> Head(outq).n, kind |-> kind, code |-> code, val |-> val]
=============================================================================
