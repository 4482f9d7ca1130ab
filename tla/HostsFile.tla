------------------------------ MODULE HostsFile ------------------------------
(***************************************************************************)
(* The block in /etc/hosts that sends Steam's names to the gateway.  Two   *)
(* tools write it: `python -m gateway hosts` (src/gateway/hosts.py and     *)
(* _cmd_hosts() in src/gateway/main.py) and scripts/install_hosts.sh.      *)
(* Their header lines differ, their footers are the same.  A user who does *)
(* not have the script on the client pastes the block that it prints.      *)
(*                                                                         *)
(* A block is a header, one entry (for all the names) and the footer; its  *)
(* comments and blank lines are left out.                                  *)
(***************************************************************************)
EXTENDS LocalFiles, SequencesExt

CONSTANT UserLines   \* lines of the user's own

VARIABLES
  own,    \* the user's lines, in the order the user gave them
  mixed,  \* history: the Python tool met a block with the script's header, or the
          \* user pasted one behind another block
  saved   \* history: what the script was to copy when it found no copy

hostsVars == <<own, mixed, saved>>

\* hosts.py knows its own header only.  One that was pasted reads like the script's
\* and is another here, to tell who put it there.
PyHeader     == [is |-> "py"]
ShHeader     == [is |-> "sh"]
PastedHeader == [is |-> "pasted"]
HeaderLines  == {PyHeader, ShHeader, PastedHeader}
Footer   == [is |-> "end"]
Entry(ip) == [is |-> "entry", ip |-> ip]
UserLine(u) == [is |-> "user", line |-> u]
Lines == HeaderLines \cup {Footer} \cup {Entry(ip) : ip \in Gateways}
         \cup {UserLine(u) : u \in UserLines}
OwnLines(users) == [n \in DOMAIN users |-> UserLine(users[n])]

Block(header, ip) == <<header, Entry(ip), Footer>>

HostsInit ==
  /\ \E u \in UserLines : own = <<u>> /\ files["hosts"] = <<UserLine(u)>>
  /\ files["hosts.bak"] = Absent
  /\ mixed = FALSE /\ saved = <<>>

Places(text, line) == {i \in DOMAIN text : text[i] = line}
Headers(text) == {i \in DOMAIN text : text[i] \in HeaderLines}
Least(S) == CHOOSE i \in S : \A j \in S : i <= j

\* Slip: what follows the block goes with it.
StripToTheEnd(text) ==
  IF Places(text, PyHeader) = {} THEN text
  ELSE SubSeq(text, 1, Least(Places(text, PyHeader)) - 1)

\* strip_block(): from the first header to the first footer, which may belong to
\* another block and come first.
StripBlock(text) ==
  IF Places(text, PyHeader) = {} \/ Places(text, Footer) = {} THEN text
  ELSE SubSeq(text, 1, Least(Places(text, PyHeader)) - 1) \o
       SubSeq(text, Least(Places(text, Footer)) + 1, Len(text))

\* The lines at some places, in their order: the n-th is where there are n of the
\* places up to it.
LinesAt(text, places) ==
  [n \in 1..Cardinality(places) |->
     text[CHOOSE i \in places : Cardinality(places \cap (1..i)) = n]]

\* sed's /header/,/footer/d: a range without a footer goes on to the last line.
WithoutRanges(text, headers) ==
  LET inRange(i) == \E h \in headers \cap (1..i) : \A j \in h .. i - 1 : text[j] # Footer
  IN LinesAt(text, {i \in DOMAIN text : ~inRange(i)})

\* Slip: the pattern has the script's own header line in full.
SedOwnBlocks(text) ==
  WithoutRanges(text, Places(text, ShHeader))

\* The pattern, '^# --- steam-legacy-gateway', matches every header.
SedBlocks(text) ==
  WithoutRanges(text, Headers(text))

\* hosts --apply, hosts --remove: the file is rewritten in place, without a copy.
PyRewrites(new) ==
  /\ Begin(<<InPlace("hosts", new)>>)
  /\ mixed' = (mixed \/ Headers(files["hosts"]) # Places(files["hosts"], PyHeader))
  /\ UNCHANGED <<own, saved>>

HostsApply(ip) == PyRewrites(StripBlock(files["hosts"]) \o Block(PyHeader, ip))
HostsRemove == PyRewrites(StripBlock(files["hosts"]))

\* Slip: the copy is made each time.
CopyAlways(text) == <<InPlace("hosts.bak", text)>>

CopyOnce(text) ==
  IF Exists("hosts.bak") THEN <<>> ELSE <<InPlace("hosts.bak", text)>>

\* install_hosts.sh <ip>: cp once, sed -i, >>.
ShInstall(ip) ==
  LET text == files["hosts"]  stripped == SedBlocks(text)
  IN /\ Begin(CopyOnce(text) \o
              <<AtOnce("hosts", stripped),
                AtTheEnd("hosts", stripped, Block(ShHeader, ip))>>)
     /\ saved' = IF Exists("hosts.bak") THEN saved ELSE text
     /\ UNCHANGED <<own, mixed>>

ShRemove ==
  /\ Begin(<<AtOnce("hosts", SedBlocks(files["hosts"]))>>)
  /\ UNCHANGED hostsVars

\* The last block has no footer.
Unfinished(text) ==
  \E h \in Headers(text) : \A j \in h .. Len(text) : text[j] # Footer

\* The user edits the file.  A line put behind an unfinished block is the
\* user's loss at the next sed.
UserAdds(u) ==
  /\ Idle /\ ~Contains(own, u)
  /\ \/ /\ files' = [files EXCEPT !["hosts"] = Append(@, UserLine(u))]
        /\ own' = Append(own, u)
        /\ harmed' = IF Unfinished(files["hosts"]) THEN harmed \cup {"hosts"} ELSE harmed
     \/ /\ files' = [files EXCEPT !["hosts"] = <<UserLine(u)>> \o @]
        /\ own' = <<u>> \o own
        /\ UNCHANGED harmed
  /\ UNCHANGED <<job, kills, mixed, saved>>

\* install_hosts.sh --print <ip>, and the user pastes what it printed at the end of
\* the file, by hand: no copy is made and no old block taken out.
UserPastes(ip) ==
  /\ Idle
  /\ files' = [files EXCEPT !["hosts"] = @ \o Block(PastedHeader, ip)]
  /\ mixed' = (mixed \/ Headers(files["hosts"]) # {})
  /\ UNCHANGED <<job, kills, harmed, own, saved>>

HostsCommand ==
  \/ \E ip \in Gateways : HostsApply(ip) \/ ShInstall(ip) \/ UserPastes(ip)
  \/ HostsRemove \/ ShRemove
  \/ \E u \in UserLines : UserAdds(u)

(***************************************************************************)
(* Properties.  InOrder leaves out what the tools do not cope with: the    *)
(* Python tool used on a block with the script's header, a block pasted    *)
(* behind another, and a file cut by a kill where it is rewritten in place.*)
(***************************************************************************)

InOrder == ~mixed /\ "hosts" \notin harmed

\* The user's own lines survive, in their order, before, after and between any
\* installations and removals by either tool, or by hand, the script's being
\* interrupted at any point.
UserLinesKept ==
  InOrder =>
    LET text == files["hosts"]
    IN LinesAt(text, {i \in DOMAIN text : text[i].is = "user"}) = OwnLines(own)

\* There is one block at most, so no entry of an address the gateway once had
\* precedes, and hides, that of the latest.
OneBlock ==
  InOrder => LET text == files["hosts"]
             IN /\ Cardinality(Headers(text)) <= 1
                /\ Cardinality({i \in DOMAIN text : text[i].is = "entry"}) <= 1

\* The script's copy is what the file held before the script wrote to it for the
\* first time: never a block that the script put there, and all of what it was to
\* copy unless the cp was interrupted, which the script never makes good.  A block
\* that the Python tool wrote, or the user pasted, before that may well be in it.
CopyIsFromBefore ==
  Exists("hosts.bak") =>
    /\ Places(files["hosts.bak"], ShHeader) = {}
    /\ IsPrefix(files["hosts.bak"], saved)
    /\ "hosts.bak" \notin harmed => files["hosts.bak"] = saved
===============================================================================
