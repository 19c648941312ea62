---------------------------- MODULE HaproxyConfig ----------------------------
(***************************************************************************)
(* The amphora agent's config introspector                                 *)
(* (src/octavia/amphorae/backends/agent/api_server/util.py):               *)
(* parse_haproxy_file, get_haproxy_vip_addresses, get_lvs_vip_addresses.    *)
(*                                                                         *)
(* A file is a sequence of lines; a line is its indentation and its words  *)
(* (what line.strip().split(' ') returns); a word is a sequence of         *)
(* symbols.  Keywords, ids and paths are single symbols; addresses and     *)
(* ports are spelt out with the separators ":" and "," so that the         *)
(* scanners' `':' in`, rstrip(',') and rpartition(':') act on them as in   *)
(* Python.  Every line ends with a newline.                                *)
(***************************************************************************)
EXTENDS Naturals, Sequences, SequencesExt

CONSTANTS
  Vips,        \* VIP addresses, as words (IPv4 and IPv6 spellings)
  Modes,       \* declared listener modes
  MaxTargets,  \* bind targets per listener
  MaxGroups    \* virtual_server_groups per LVS listener

Line(indent, words) == [indent |-> indent, words |-> words]
W(sym) == <<sym>>

FirstWord(l) == IF l.words = <<>> THEN <<>> ELSE l.words[1]

\* line.strip().startswith(sym)
StartsWith(l, sym) == FirstWord(l) /= <<>> /\ FirstWord(l)[1] = sym

\* str.rstrip(c)
RECURSIVE RStrip(_, _)
RStrip(w, c) == IF w /= <<>> /\ Last(w) = c THEN RStrip(Front(w), c) ELSE w

\* Mutant: str.partition (the first c) instead of str.rpartition.
MutPartitionFirst(w, c) ==
  LET i == SelectInSeq(w, LAMBDA x : x = c)
  IN  IF i = 0 THEN <<>> ELSE SubSeq(w, 1, i - 1)

\* str.rpartition(c)[0]: everything before the last c ('' if none).
RPartitionHead(w, c) ==
  LET i == SelectLastInSeq(w, LAMBDA x : x = c)
  IN  IF i = 0 THEN <<>> ELSE SubSeq(w, 1, i - 1)

(***************************************************************************)
(* get_haproxy_vip_addresses                                               *)
(***************************************************************************)

\* The loop over the words of one bind line: a word with ':' and ',' gives
\* an address and the scan goes on; a word with ':' only gives an address
\* and ends the line.
RECURSIVE BindSections(_)
BindSections(ws) ==
  IF ws = <<>> THEN <<>>
  ELSE LET s == Head(ws) IN
       IF ~Contains(s, ":") THEN BindSections(Tail(ws))
       ELSE IF Contains(s, ",")
         THEN <<RPartitionHead(RStrip(s, ","), ":")>> \o BindSections(Tail(ws))
       ELSE <<RPartitionHead(s, ":")>>

get_haproxy_vip_addresses(lines) ==
  FlattenSeq([i \in 1..Len(lines) |->
                IF StartsWith(lines[i], "bind")
                THEN BindSections(lines[i].words) ELSE <<>>])

(***************************************************************************)
(* get_lvs_vip_addresses                                                   *)
(***************************************************************************)

\* line.startswith('virtual_server_group '): tested on the raw line.
IsVsgHeader(l) ==
  ~l.indent /\ Len(l.words) >= 2 /\ l.words[1] = W("virtual_server_group")

\* Mutant: the '}' that closes a group is not recognised.
MutLvsStepNoClose(st, l) ==
  IF st.vsg THEN [st EXCEPT !.vips = Append(@, FirstWord(l))]
  ELSE IF IsVsgHeader(l) THEN [st EXCEPT !.vsg = TRUE] ELSE st

\* One iteration of the loop over the file's lines.
LvsStep(st, l) ==
  IF st.vsg
    THEN IF StartsWith(l, "}") THEN [st EXCEPT !.vsg = FALSE]
         ELSE [st EXCEPT !.vips = Append(@, FirstWord(l))]
  ELSE IF IsVsgHeader(l) THEN [st EXCEPT !.vsg = TRUE]
  ELSE st

get_lvs_vip_addresses(lines) ==
  FoldLeft(LvsStep, [vsg |-> FALSE, vips |-> <<>>], lines).vips

(***************************************************************************)
(* parse_haproxy_file                                                      *)
(***************************************************************************)
NoCrt == <<>>
NoId == <<>>

\* The text of FRONTEND_BACKEND_PATTERN = '\n(frontend|backend)\s+(\S+)\n'
\* on one line: unindented, the keyword and one id.
IsSectionHeader(l) ==
  /\ ~l.indent /\ Len(l.words) = 2
  /\ l.words[1] \in {W("frontend"), W("backend")}

\* re.split matches line i only if the newline before it was not consumed
\* by a match of line i-1 (matches do not overlap); the first line has no
\* newline before it.
RECURSIVE SplitAt(_, _)
SplitAt(lines, i) ==
  /\ i >= 2
  /\ IsSectionHeader(lines[i])
  /\ ~SplitAt(lines, i - 1)

\* The pieces re.split returns, each a text of lines: the text before the
\* first match, then the keyword, the id and the body of every match.
Pieces(lines) ==
  LET at == SelectSeq([i \in 1..Len(lines) |-> i], LAMBDA i : SplitAt(lines, i))
      k == Len(at)
      Body(from, to) == SubSeq(lines, from, to)
      Word(w) == <<Line(FALSE, <<w>>)>>
      Match(j) ==
        << Word(lines[at[j]].words[1]), Word(lines[at[j]].words[2]),
           Body(at[j] + 1, IF j = k THEN Len(lines) ELSE at[j + 1] - 1) >>
  IN  <<Body(1, IF k = 0 THEN Len(lines) ELSE at[1] - 1)>>
        \o FlattenSeq([j \in 1..k |-> Match(j)])

\* A piece equal to the string 'frontend'.
IsFrontendText(p) == p = <<Line(FALSE, <<W("frontend")>>)>>

\* LISTENER_MODE_PATTERN.search: the first indented `mode` line; the
\* captured rest of the line is upper-cased.
UpperOf == [http |-> "HTTP", tcp |-> "TCP"]

ModeOf(p) ==
  LET i == SelectInSeq(p, LAMBDA l : l.indent /\ Len(l.words) >= 2
                                      /\ l.words[1] = W("mode"))
  IN  IF i = 0 THEN NoId
      ELSE [j \in 1..(Len(p[i].words) - 1) |->
              [k \in DOMAIN p[i].words[j + 1] |-> UpperOf[p[i].words[j + 1][k]]]]

\* TLS_CERT_PATTERN.search: the first indented `bind <target> ssl crt-list
\* <path>` line gives the path.
CrtOf(p) ==
  LET i == SelectInSeq(p, LAMBDA l : /\ l.indent /\ Len(l.words) >= 5
                                      /\ l.words[1] = W("bind")
                                      /\ l.words[3] = W("ssl")
                                      /\ l.words[4] = W("crt-list"))
  IN  IF i = 0 THEN NoCrt ELSE p[i].words[5]

\* Mutant: a TLS frontend keeps its declared mode.
MutFrontendEntryNoTls(p) == [mode |-> ModeOf(p), crt |-> CrtOf(p)]

\* listeners[last_id]: the mode, overridden by TERMINATED_HTTPS for a TLS
\* frontend, which also records ssl_crt.
FrontendEntry(p) ==
  IF CrtOf(p) = NoCrt THEN [mode |-> ModeOf(p), crt |-> NoCrt]
  ELSE [mode |-> <<W("TERMINATED_HTTPS")>>, crt |-> CrtOf(p)]

\* One iteration of the loop over the pieces; ParsingError ends the scan.
ParseStep(st, p) ==
  IF st.err THEN st
  ELSE CASE st.tok = "none" ->
              IF IsFrontendText(p) THEN [st EXCEPT !.tok = "frontend"] ELSE st
         [] st.tok = "frontend" ->
              [st EXCEPT !.tok = "frontend_id", !.id = p]
         [] st.tok = "frontend_id" /\ ModeOf(p) = NoId ->
              [st EXCEPT !.err = TRUE]
         [] st.tok = "frontend_id" ->
              [st EXCEPT !.tok = "none", !.id = NoId,
                         !.listeners = (st.id :> FrontendEntry(p)) @@ @]

\* STATS_SOCKET_PATTERN.search over the whole file: the word after the
\* first `stats socket`.
StatsSocketOf(lines) ==
  LET At(l, j) == j + 2 <= Len(l.words) /\ l.words[j] = W("stats")
                  /\ l.words[j + 1] = W("socket")
      i == SelectInSeq(lines, LAMBDA l : \E j \in DOMAIN l.words : At(l, j))
      j == IF i = 0 THEN 0 ELSE CHOOSE j \in DOMAIN lines[i].words :
                                  /\ At(lines[i], j)
                                  /\ \A j2 \in 1..(j - 1) : ~At(lines[i], j2)
  IN  IF i = 0 THEN NoId ELSE lines[i].words[j + 2]

\* The result: ParsingError, or (stats_socket, listeners).
parse_haproxy_file(lines) ==
  LET st == FoldLeft(ParseStep,
                     [err |-> FALSE, tok |-> "none", id |-> NoId,
                      listeners |-> <<>>],
                     Pieces(lines))
      sock == StatsSocketOf(lines)
  IN  IF st.err \/ sock = NoId THEN [err |-> TRUE]
      ELSE [err |-> FALSE, socket |-> sock, listeners |-> st.listeners]

(***************************************************************************)
(* Reference: the files the config renderer writes (spec 4.4, 6), and what *)
(* the introspector must recover from them (spec 4.5, 8).  A listener has  *)
(* an id, a mode, its bind targets (addresses, all on one port) and        *)
(* whether it terminates TLS; an LVS listener has one virtual_server_group *)
(* per address family.                                                     *)
(***************************************************************************)
Port == <<"p">>
Target(v) == v \o <<":">> \o Port

\* `addr:port[,addr:port...]`
TargetsWord(vs) ==
  FlattenSeq([i \in 1..Len(vs) |->
                Target(vs[i]) \o (IF i < Len(vs) THEN <<",">> ELSE <<>>)])

PoolOf(id) == id \o "-pool"

FrontendText(l) ==
  << Line(FALSE, <<W("frontend"), W(l.id)>>),
     Line(TRUE, <<W("maxconn"), W("50000")>>),
     Line(TRUE, <<W("bind"), TargetsWord(l.vips)>>
                \o (IF l.tls THEN <<W("ssl"), W("crt-list"), W("/crt")>> ELSE <<>>)),
     Line(TRUE, <<W("mode"), W(l.mode)>>),
     Line(TRUE, <<W("default_backend"), W(PoolOf(l.id))>>) >>

BackendText(l) ==
  << Line(FALSE, <<W("backend"), W(PoolOf(l.id))>>),
     Line(TRUE, <<W("mode"), W(l.mode)>>),
     Line(TRUE, <<W("server"), W("m1"), <<"m", ":">> \o Port>>) >>

\* `stats` is FALSE for a file whose stats socket line is missing.
HaproxyText(ls, stats) ==
  << Line(FALSE, <<W("global")>>) >>
  \o (IF stats
      THEN <<Line(TRUE, <<W("stats"), W("socket"), W("/sock"), W("mode"), W("0666")>>)>>
      ELSE <<>>)
  \o << Line(FALSE, <<W("defaults")>>), Line(TRUE, <<W("retries"), W("3")>>) >>
  \o FlattenSeq([i \in 1..Len(ls) |-> FrontendText(ls[i])])
  \o FlattenSeq([i \in 1..Len(ls) |-> BackendText(ls[i])])

GroupName(v) == IF Contains(v, ":") THEN "ipv6-group" ELSE "ipv4-group"

LvsText(vs) ==
  FlattenSeq([i \in 1..Len(vs) |->
    << Line(FALSE, <<W("virtual_server_group"), W(GroupName(vs[i])), W("{")>>),
       Line(TRUE, <<vs[i], W("80")>>),
       Line(FALSE, <<W("}")>>) >>])
  \o FlattenSeq([i \in 1..Len(vs) |->
    << Line(FALSE, <<W("virtual_server"), W("group"), W(GroupName(vs[i])), W("{")>>),
       Line(TRUE, <<W("lb_algo"), W("rr")>>),
       Line(TRUE, <<W("real_server"), <<"m">>, W("80"), W("{")>>),
       Line(TRUE, <<W("weight"), W("1")>>),
       Line(TRUE, <<W("}")>>),
       Line(FALSE, <<W("}")>>) >>])

Key(id) == <<Line(FALSE, <<W(id)>>)>>

ExpectedEntry(l) ==
  IF l.tls THEN [mode |-> <<W("TERMINATED_HTTPS")>>, crt |-> W("/crt")]
  ELSE [mode |-> <<W(UpperOf[l.mode])>>, crt |-> NoCrt]

ExpectedParse(ls, stats) ==
  IF ~stats THEN [err |-> TRUE] ELSE
  [err |-> FALSE, socket |-> W("/sock"),
   listeners |-> [k \in {Key(ls[i].id) : i \in 1..Len(ls)} |->
                    ExpectedEntry(ls[CHOOSE i \in 1..Len(ls) : Key(ls[i].id) = k])]]

ExpectedVips(ls) == FlattenSeq([i \in 1..Len(ls) |-> ls[i].vips])

(***************************************************************************)
(* The agent reading its files back (after a restart): the files on disk   *)
(* are what the renderer wrote for some listeners; each scanner reads them *)
(* once.                                                                   *)
(***************************************************************************)
VARIABLES
  listeners,  \* the listeners the haproxy config was rendered from
  stats,      \* whether the haproxy config declares its stats socket
  groups,     \* the VIPs the LVS config was rendered from, one per group
  hap,        \* what parse_haproxy_file returned
  vips,       \* what get_haproxy_vip_addresses returned
  lvsVips     \* what get_lvs_vip_addresses returned

icVars == <<listeners, stats, groups, hap, vips, lvsVips>>

NotRead == [done |-> FALSE]
Read(out) == [done |-> TRUE, out |-> out]

ListenerOf(id) ==
  [id : {id}, mode : Modes, vips : BoundedSeq(Vips, MaxTargets) \ {<<>>},
   tls : BOOLEAN]

HaproxyInputs ==
  {<<a>> : a \in ListenerOf("L1")} \cup
  {<<a, b>> : a \in ListenerOf("L1"), b \in ListenerOf("L2")}

LvsInputs == BoundedSeq(Vips, MaxGroups) \ {<<>>}

ICInit ==
  /\ listeners \in HaproxyInputs
  /\ stats \in BOOLEAN
  /\ groups \in LvsInputs
  /\ hap = NotRead /\ vips = NotRead /\ lvsVips = NotRead

ReadHaproxyConfig ==
  /\ hap = NotRead
  /\ hap' = Read(parse_haproxy_file(HaproxyText(listeners, stats)))
  /\ UNCHANGED <<listeners, stats, groups, vips, lvsVips>>

ReadHaproxyVips ==
  /\ vips = NotRead
  /\ vips' = Read(get_haproxy_vip_addresses(HaproxyText(listeners, stats)))
  /\ UNCHANGED <<listeners, stats, groups, hap, lvsVips>>

ReadLvsVips ==
  /\ lvsVips = NotRead
  /\ lvsVips' = Read(get_lvs_vip_addresses(LvsText(groups)))
  /\ UNCHANGED <<listeners, stats, groups, hap, vips>>

ICNext == ReadHaproxyConfig \/ ReadHaproxyVips \/ ReadLvsVips

ICSpec == ICInit /\ [][ICNext]_icVars

(***************************************************************************)
(* Properties.                                                             *)
(***************************************************************************)

(* parse_haproxy_file recovers every rendered frontend with its mode, TLS  *)
(* frontends as TERMINATED_HTTPS with their crt-list, and the stats socket;*)
(* a file without a stats socket is a ParsingError (spec 8, round trip,    *)
(* TLS and missing stats socket scenarios).                                 *)
ParseRoundTrip ==
  hap /= NotRead => hap.out = ExpectedParse(listeners, stats)

(* get_haproxy_vip_addresses returns the address of every bind target, in *)
(* order, IPv6 addresses included (spec 4.5, 8).                            *)
VipRoundTrip ==
  vips /= NotRead => vips.out = ExpectedVips(listeners)

(* get_lvs_vip_addresses returns one VIP per virtual_server_group, both    *)
(* for a dual-stack listener, and nothing from the virtual_server blocks   *)
(* (spec 8, dual-stack scenario).                                           *)
LvsRoundTrip ==
  lvsVips /= NotRead => lvsVips.out = groups
=============================================================================
