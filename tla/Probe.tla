-------------------------------- MODULE Probe --------------------------------
(***************************************************************************)
(* One GET of `tc connectivity probe` (connectivity/probe.py), from the    *)
(* validated URL to the state in the payload.  Connectivity models the     *)
(* files that are written from it.                                         *)
(*                                                                         *)
(* The timeout given to urlopen limits each wait on a socket and nothing   *)
(* else.  urlopen follows redirections, to http, https or ftp: each starts *)
(* another exchange, a hop, with another host and timeouts of its own.     *)
(* Looking up a host name is no wait on a socket and has no limit here.    *)
(* No proxy is set in the environment.                                     *)
(***************************************************************************)
EXTENDS Naturals

CONSTANTS
    Timeout,        \* --timeout-ms, in ticks
    SystemTimeout,  \* the least time after which the system itself gives up a connection
    Addresses,      \* bound: how many a host has ("localhost" has two)
    Pieces,         \* bound: pieces of an answer, or waits on an ftp server
    Redirects       \* how many redirections urllib follows: 37 (10 URLs, 4 times each)

ASSUME ProbeAssumption ==
    /\ Timeout \in Nat \ {0} /\ SystemTimeout \in Nat
    /\ Addresses \in Nat \ {0}
    /\ Pieces \in Nat \ {0}
    /\ Redirects \in Nat

States == {"probe_ok", "probe_http_error", "probe_timeout", "probe_unreachable",
           "probe_unknown"}
None == "none"

VARIABLES
    phase,      \* "request", "connect", "handshake", "send", "head", "body", "ftp", "done"
    hops,       \* redirections followed
    addresses,  \* of this hop's host, still to be tried; 0 when none is known
    pieces,     \* pieces that may still arrive in this hop
    reached,    \* history: how far this hop came
    waited,     \* time spent waiting on sockets since perf_counter() was started
    state       \* payload["state"]; "none" until the GET is over

probeVars == <<phase, hops, addresses, pieces, reached, waited, state>>

Wait == 0..Timeout

\* The waits that end in a TimeoutError, from the socket's timeout or the system's.
LongWait == {t \in Wait : t = Timeout \/ t >= SystemTimeout}

ProbeInit ==
    /\ phase = "request" /\ hops = 0
    /\ addresses = 0 /\ pieces = Pieces
    /\ reached = "nobody"
    /\ waited = 0
    /\ state = None

\* One of the return statements, after a wait of t.
Return(s, t) ==
    /\ phase' = "done"
    /\ state' = s
    /\ waited' = waited + t
    /\ UNCHANGED <<hops, addresses, pieces, reached>>

\* The next phase of a hop, after a wait of t.
GoOn(p, t) ==
    /\ phase' = p
    /\ waited' = waited + t
    /\ UNCHANGED <<hops, state>>

-----------------------------------------------------------------------------
(* Mutated forms: slips that the code could contain. *)

\* An attempt that timed out is made again.
ConnectTimesOutRetried ==
    /\ phase = "connect"
    /\ GoOn("connect", Timeout)
    /\ UNCHANGED <<addresses, pieces, reached>>

\* A connection that breaks off counts as none.
BreaksOffUnreachable ==
    /\ phase \in {"head", "body"} /\ pieces > 0
    /\ \E t \in Wait : Return("probe_unreachable", t)

\* urlopen without a timeout: a silent endpoint is waited for.
ReadWaits ==
    /\ phase \in {"head", "body"}
    /\ UNCHANGED probeVars

-----------------------------------------------------------------------------
(* HTTPConnection.request, whose OSErrors urlopen wraps in an URLError *)

\* except Exception, before anybody is contacted: the path is not ASCII or has a space,
\* the timeout is too long for a socket, or a redirection names no proper host and port.
NotARequest == phase = "request" /\ Return("probe_unknown", 0)

LookUp ==
    /\ phase = "request"
    /\ GoOn("connect", 0)
    /\ addresses' \in 1..Addresses
    /\ UNCHANGED <<pieces, reached>>

NoAddress == phase = "request" /\ Return("probe_unreachable", 0)

\* Only a redirection leads to https, whose handshake follows.
Connect ==
    /\ phase = "connect"
    /\ \E t \in Wait, p \in {"send"} \cup (IF hops = 0 THEN {} ELSE {"handshake"}) : GoOn(p, t)
    /\ reached' = "accepted"
    /\ UNCHANGED <<addresses, pieces>>

\* The next address, or the URLError of the last one.
NextAddress(s, t) ==
    /\ phase = "connect"
    /\ IF addresses = 1 THEN Return(s, t)
       ELSE /\ GoOn("connect", t)
            /\ addresses' = addresses - 1
            /\ UNCHANGED <<pieces, reached>>

ConnectRefused == \E t \in Wait : NextAddress("probe_unreachable", t)
ConnectTimesOut == \E t \in LongWait : NextAddress("probe_timeout", t)

Handshake ==
    /\ phase = "handshake"
    /\ \E t \in Wait : GoOn("send", t)
    /\ UNCHANGED <<addresses, pieces, reached>>

Send ==
    /\ phase = "send"
    /\ \E t \in Wait : GoOn("head", t)
    /\ reached' = "sent"
    /\ UNCHANGED <<addresses, pieces>>

\* The host hung up, or has no proper certificate.
SendFails ==
    /\ phase \in {"handshake", "send"}
    /\ \E t \in Wait : Return("probe_unreachable", t)

SendTimesOut ==
    /\ phase \in {"handshake", "send"}
    /\ \E t \in LongWait : Return("probe_timeout", t)

-----------------------------------------------------------------------------
(* HTTPConnection.getresponse and HTTPRedirectHandler, whose exceptions urlopen *)
(* does not wrap                                                                *)

\* A piece of the head, not the last one, or of the body of a redirection, which is
\* read before it is followed.
ReadPiece ==
    /\ \/ phase = "head" /\ pieces > 1
       \/ phase = "body" /\ pieces > 0
    /\ \E t \in Wait : GoOn(phase, t)
    /\ pieces' = pieces - 1
    /\ UNCHANGED <<addresses, reached>>

\* The head is complete (a connection that is closed among the headers ends it too):
\* a 2xx code, or an HTTPError, also for a redirection that is not followed.
ReadHead ==
    /\ phase = "head"
    /\ \E t \in Wait, s \in {"probe_ok", "probe_http_error"} : Return(s, t)

ReadRedirection ==
    /\ phase = "head" /\ hops < Redirects
    /\ \E t \in Wait : GoOn("body", t)
    /\ pieces' = pieces - 1
    /\ UNCHANGED <<addresses, reached>>

Follow ==
    /\ phase = "body"
    /\ hops' = hops + 1
    /\ addresses' = 0 /\ pieces' = Pieces
    /\ \/ phase' = "request" /\ reached' = "nobody"
       \/ phase' = "ftp" /\ reached' = "ftp"
    /\ UNCHANGED <<waited, state>>

\* except socket.timeout
ReadTimesOut ==
    /\ phase \in {"head", "body"} /\ pieces > 0
    /\ \E t \in LongWait : Return("probe_timeout", t)

\* except Exception: no or no proper status line, a reset connection, half a body.
BreaksOff ==
    /\ phase \in {"head", "body"} /\ pieces > 0
    /\ \E t \in Wait : Return("probe_unknown", t)

-----------------------------------------------------------------------------
(* FTPHandler, whose errors are URLErrors too *)

FtpWaits ==
    /\ phase = "ftp" /\ pieces > 1
    /\ \E t \in Wait : GoOn("ftp", t)
    /\ pieces' = pieces - 1
    /\ UNCHANGED <<addresses, reached>>

\* An ftp answer has no status, and int(None) ends in except Exception.
FtpEnds ==
    /\ phase = "ftp"
    /\ \E t \in Wait, s \in {"probe_unknown", "probe_unreachable"} : Return(s, t)

FtpTimesOut ==
    /\ phase = "ftp"
    /\ \E t \in LongWait : Return("probe_timeout", t)

ProbeNext ==
    \/ NotARequest \/ LookUp \/ NoAddress
    \/ Connect \/ ConnectRefused \/ ConnectTimesOut
    \/ Handshake \/ Send \/ SendFails \/ SendTimesOut
    \/ ReadPiece \/ ReadHead \/ ReadRedirection \/ Follow \/ ReadTimesOut \/ BreaksOff
    \/ FtpWaits \/ FtpEnds \/ FtpTimesOut

\* Nothing is assumed of the hosts: only that a wait which lasts long enough is ended
\* by its timeout, that a look-up ends, and that the probe itself keeps running.
ProbeFairness ==
    WF_probeVars(\/ LookUp \/ NoAddress \/ ConnectTimesOut \/ SendTimesOut
                 \/ ReadTimesOut \/ Follow \/ FtpTimesOut)

ProbeSpec == ProbeInit /\ [][ProbeNext]_probeVars /\ ProbeFairness

-----------------------------------------------------------------------------
(* Properties *)

ProbeTypeOK ==
    /\ phase \in {"request", "connect", "handshake", "send", "head", "body", "ftp", "done"}
    /\ hops \in 0..Redirects
    /\ addresses \in 0..Addresses
    /\ pieces \in 0..Pieces
    /\ reached \in {"nobody", "accepted", "sent", "ftp"}
    /\ waited \in Nat
    /\ state \in States \cup {None}
    /\ phase = "done" <=> state # None

\* The states tell what became of the last request, the one that a redirection led to
\* if any was followed: "unreachable" only when it was not sent, because the host has
\* no address, every address was tried in vain or the host hung up at once; "timeout"
\* only after waiting as long as --timeout-ms or the system allows; "ok" and "http_error"
\* only when a host had it; "unknown" also when nobody was contacted for it, but never
\* when a connection failed.  A request by ftp can be unreachable or unknown at any
\* point.
StateTellsExchange ==
    /\ state = "probe_timeout" => waited >= Timeout \/ waited >= SystemTimeout
    /\ state = "probe_unreachable" =>
          reached \in {"accepted", "ftp"} \/ (reached = "nobody" /\ addresses \in {0, 1})
    /\ state \in {"probe_ok", "probe_http_error"} => reached = "sent"
    /\ state = "probe_unknown" =>
          reached \in {"sent", "ftp"} \/ (reached = "nobody" /\ addresses = 0)

\* The waits of a hop: one per address, one to send, one per piece.
PerHop == Addresses + 1 + Pieces

\* However the hosts spread their answers and wherever they redirect, a probe waits on
\* sockets no longer than PerHop timeouts, and as many again and one, for a handshake,
\* for each redirection that it followed.
ProbeBounded ==
    waited <= (hops * (PerHop + 1) + PerHop) * Timeout

\* The GET ends, also when nobody ever answers.
ProbeEnds == <>(phase = "done")
=============================================================================
