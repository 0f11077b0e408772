---------------------------- MODULE ResponseFrame -----------------------------
(* How responses reach the client as bytes: the server's messages follow each *)
(* other on the TCP stream, DoReadLength and DoReadBody cut the stream into   *)
(* messages again, and IResponse takes them apart, by a list of items that    *)
(* depends on command and status and that the message itself, or an earlier   *)
(* one, may make longer. One byte of the first may change on the way, and the *)
(* server then sends no more.                                                 *)
EXTENDS Mc3Codec

CONSTANTS
  Words,     \* the numbers a server puts in 16-bit items
  Floats,    \* ... in 32-bit items
  Texts,     \* ... and its strings of bytes
  Counts,    \* how many entries it puts in its lists
  MaxSent    \* bound on the messages it sends

ASSUME ServerAssumption ==
  /\ Radix > 3  \* the codes of the commands fit into words
  /\ Words \subseteq 0..(Word - 1) /\ Floats \subseteq 0..(Word * Word - 1)
  /\ \A t \in Texts : t \in Seq(Bytes)
  /\ Counts \subseteq 0..(Word - 1) /\ MaxSent \in Nat

VARIABLES
  wire,     \* the bytes sent and not read yet
  phase,    \* waiting for a length, for a body, or the connection is closed
  length,   \* the length of the message whose body is read
  read,     \* the IResponse objects, in order
  user,     \* user_defined_list_ of the client
  sent,     \* the messages the server has sent
  damaged   \* a byte was changed: none, one of a body or one of a length

vars == <<wire, phase, length, read, user, sent, damaged>>

-----------------------------------------------------------------------------
(* Commands, status codes and the items of their responses.                  *)

Cmds == <<"INIT", "IDENTIFY", "DEFINE_DESC", "SELECT_DESC", "GET_CALPAGE_INFO",
          "GET_USER_DEFINED_VALUE", "GET_USER_DEFINED_VALUE_LIST",
          "QUERY_AVAILABLE_SERVICE", "EXECUTE_SERVICE">>
Stats == <<"OK", "ACK", "ERROR">>
CodeOf(names, name) == SelectInSeq(names, LAMBDA n : n = name)
NameOf(names, code) == IF code \in DOMAIN names THEN names[code] ELSE "other"

Default(type) == [type |-> type, value |-> IF type = "text" THEN <<>> ELSE 0]
ErrorResponse == <<"u16", "text">>
OkResponse == [INIT |-> <<>>, IDENTIFY |-> <<"u16", "text">>,
               DEFINE_DESC |-> <<"u16", "text", "text", "text">>,
               SELECT_DESC |-> <<"u16">>, EXECUTE_SERVICE |-> <<"text">>]
\* The lists start with the number of their entries.
Entry == [GET_CALPAGE_INFO |-> <<"u16", "text", "u16">>,
          GET_USER_DEFINED_VALUE_LIST |-> <<"u16", "text">>,
          QUERY_AVAILABLE_SERVICE |-> <<"text">>]
Repeated(types, n) ==
  [i \in 1..(n * Len(types)) |-> types[((i - 1) % Len(types)) + 1]]

-----------------------------------------------------------------------------
(* The client: IResponse::BodyToDataList, and DefineUserDefinedData and       *)
(* SetUserDefinedData of IClient, which it calls.                             *)

\* GetUserDefineListToDataList and QueryAvailableServicesToDataList read entry
\* after entry, a name with or without a LUN before it, as long as `least` bytes
\* remain before the checksum.
EntriesToDataList(body, cmd, least) ==
  LET values == ToWord(body, 4)
      Done[n \in 0..values] ==
        IF n = 0 THEN [at |-> 6, list |-> <<[type |-> "u16", value |-> values]>>]
        ELSE LET before == Done[n - 1]
                 luns == IF Entry[cmd][1] = "u16"
                         THEN <<[type |-> "u16", value |-> ToWord(body, before.at)]>>
                         ELSE <<>>
                 name == ToText(body, before.at + 2 * Len(luns))
             IN  IF before.at + least > Len(body) - 2 THEN before
                 ELSE [at |-> before.at + 2 * Len(luns) + name.size,
                       list |-> before.list \o luns \o <<[type |-> "text", value |-> name.value]>>]
  IN  Done[values].list

ToDataList(body, cmd, status) ==
  LET Filled(types) ==
        BodyToDataList(body, 4, [i \in DOMAIN types |-> Default(types[i])])
  IN  CASE status = "ACK" -> <<>>
        [] status \in {"ERROR", "other"} -> Filled(ErrorResponse)
        [] status = "OK" ->
             CASE cmd = "GET_CALPAGE_INFO" ->
                    Filled(<<"u16">> \o Repeated(Entry[cmd], ToWord(body, 4)))
               [] cmd = "GET_USER_DEFINED_VALUE_LIST" -> EntriesToDataList(body, cmd, 6)
               [] cmd = "QUERY_AVAILABLE_SERVICE" -> EntriesToDataList(body, cmd, 2)
               [] cmd \in DOMAIN OkResponse -> Filled(OkResponse[cmd])
               [] OTHER -> <<>>

\* Mutant: the number of values has the width of a value.
DefineUserWide(list) ==
  <<[name |-> <<>>, type |-> "f32", value |-> list[1].value]>>
  \o [i \in 1..((Len(list) - 1) \div 2) |->
        [name |-> list[2 * i + 1].value, type |-> "f32", value |-> 0]]

\* "Values" and then a float of each name; they hold no number until one is set.
DefineUser(list) ==
  <<[name |-> <<>>, type |-> "u16", value |-> list[1].value]>>
  \o [i \in 1..((Len(list) - 1) \div 2) |->
        [name |-> list[2 * i + 1].value, type |-> "f32", value |-> 0]]

UserAfter(body, cmd, status) ==
  CASE status = "OK" /\ cmd = "GET_USER_DEFINED_VALUE_LIST" ->
         DefineUser(ToDataList(body, cmd, status))
    [] status = "OK" /\ cmd = "GET_USER_DEFINED_VALUE" -> BodyToDataList(body, 4, user)
    [] OTHER -> user

\* Mutant: the length word, which is not in the body, is left out of the sum.
WithoutLength(body, size) ==
  Checksum(body) # ToWord(body, Len(body) - 2)

\* The sum of two uint16_t is an int: it is not cut to a word.
InvalidChecksum(body, size) ==
  size + Checksum(body) # ToWord(body, Len(body) - 2)

-----------------------------------------------------------------------------
(* The server, which composes its messages as IResponse::CreateBody does.     *)

ServerItems == [type : {"u16"}, value : Words] \cup [type : {"f32"}, value : Floats]
               \cup [type : {"text"}, value : Texts]
Items(types) == {list \in [DOMAIN types -> ServerItems] :
                   \A i \in DOMAIN types : list[i].type = types[i]}
Lists(types) == UNION {{<<[type |-> "u16", value |-> n]>> \o list :
                          list \in Items(Repeated(types, n))} : n \in Counts}
Payloads(cmd, status) ==
  CASE status = "ACK" -> {<<>>}
    [] status = "ERROR" -> Items(ErrorResponse)
    [] status = "OK" -> CASE cmd \in DOMAIN Entry -> Lists(Entry[cmd])
                          [] cmd = "GET_USER_DEFINED_VALUE" -> Lists(<<"f32">>)
                          [] OTHER -> Items(OkResponse[cmd])
Messages == UNION {UNION {{[cmd |-> c, status |-> s, items |-> p] : p \in Payloads(c, s)} :
                            c \in ToSet(Cmds)} : s \in ToSet(Stats)}

Frame(m) == CreateBody(<<CodeOf(Cmds, m.cmd), CodeOf(Stats, m.status)>>, m.items)
Fits(m) == 8 + DataListSize(m.items) < Word

-----------------------------------------------------------------------------
Init ==
  /\ wire = <<>> /\ phase = "length" /\ length = 0
  /\ read = <<>> /\ user = <<>> /\ sent = <<>> /\ damaged = "none"

Respond ==
  /\ phase # "closed" /\ damaged = "none" /\ Len(sent) < MaxSent
  /\ \E m \in Messages : Fits(m) /\ wire' = wire \o Frame(m) /\ sent' = Append(sent, m)
  /\ UNCHANGED <<phase, length, read, user, damaged>>

Damage ==
  /\ damaged = "none" /\ Len(sent) = 1
  /\ \E i \in DOMAIN wire, b \in Bytes :
       /\ b # wire[i] /\ wire' = [wire EXCEPT ![i] = b]
       /\ damaged' = IF phase = "length" /\ i <= 2 THEN "length" ELSE "body"
  /\ UNCHANGED <<phase, length, read, user, sent>>

\* Mutant: any length is taken.
ReadLengthUnchecked ==
  /\ phase = "length" /\ Len(wire) >= 2
  /\ wire' = SubSeq(wire, 3, Len(wire))
  /\ phase' = "body" /\ length' = ToWord(wire, 0)
  /\ UNCHANGED <<read, user, sent, damaged>>

ReadLength ==
  /\ phase = "length" /\ Len(wire) >= 2
  /\ wire' = SubSeq(wire, 3, Len(wire))
  /\ IF ToWord(wire, 0) >= 8
     THEN phase' = "body" /\ length' = ToWord(wire, 0)
     ELSE phase' = "closed" /\ length' = 0
  /\ UNCHANGED <<read, user, sent, damaged>>

ReadBody ==
  /\ phase = "body" /\ Len(wire) >= length - 2
  /\ LET body == SubSeq(wire, 1, length - 2)
         cmd == NameOf(Cmds, ToWord(body, 0))
         status == NameOf(Stats, ToWord(body, 2))
     IN  /\ read' = Append(read, [cmd |-> cmd, status |-> status,
                                  list |-> ToDataList(body, cmd, status),
                                  invalid |-> InvalidChecksum(body, length)])
         /\ user' = UserAfter(body, cmd, status)
  /\ wire' = SubSeq(wire, length - 1, Len(wire))
  /\ phase' = "length" /\ length' = 0
  /\ UNCHANGED <<sent, damaged>>

BodyTimeout ==  \* the handler of deadlock_timer_: DoRetryWait
  /\ phase = "body" /\ Len(wire) < length - 2
  /\ phase' = "closed" /\ length' = 0
  /\ UNCHANGED <<wire, read, user, sent, damaged>>

Next == Respond \/ Damage \/ ReadLength \/ ReadBody \/ BodyTimeout
Spec == Init /\ [][Next]_vars

-----------------------------------------------------------------------------
(* Properties.                                                               *)

\* The types of the variables; messages are awaited with a legal length.
TypeOK ==
  /\ wire \in Seq(Bytes) /\ phase \in {"length", "body", "closed"}
  /\ length \in {0} \cup 8..(Word - 1) /\ (phase = "body" <=> length # 0)
  /\ \A i \in DOMAIN user : user[i].type = (IF i = 1 THEN "u16" ELSE "f32")
  /\ damaged \in {"none", "body", "length"}

UserList(m) == m.cmd = "GET_USER_DEFINED_VALUE_LIST" /\ m.status = "OK"
UserValues(m) == m.cmd = "GET_USER_DEFINED_VALUE" /\ m.status = "OK"
\* A list of user defined values loses a last name that is empty: its four
\* bytes are fewer than the six GetUserDefineListToDataList wants.
Kept(m) == IF UserList(m) /\ Len(m.items) > 1 /\ Last(m.items).value = <<>>
           THEN SubSeq(m.items, 1, Len(m.items) - 2) ELSE m.items

\* Whatever responses follow each other on the stream, the client never loses
\* its place in it, and reads each with the items the server gave it.
ReadsWhatWasSent == damaged = "none" =>
  /\ phase # "closed"
  /\ \A i \in DOMAIN read :
       /\ read[i].cmd = sent[i].cmd /\ read[i].status = sent[i].status
       /\ ~UserValues(sent[i]) => read[i].list = Kept(sent[i])

\* When the values of a list of names are read, each is stored under the name
\* that has its place in the list last received.
ValuesFindTheirNames == damaged = "none" =>
  \A i \in DOMAIN read \ {1} :
    UserList(sent[i - 1]) /\ UserValues(sent[i]) /\ i = Len(read) =>
      \A j \in 1..((Len(Kept(sent[i - 1])) - 1) \div 2) :
        LET of == sent[i].items
        IN  /\ user[j + 1].name = sent[i - 1].items[2 * j + 1].value
            /\ user[j + 1].value = IF j < Len(of) THEN of[j + 1].value ELSE 0

\* A response of which one byte has changed is marked as invalid.
DamageShows == damaged = "body" => \A i \in DOMAIN read : read[i].invalid

SumOf(m) == LET frame == Frame(m)
            IN  SumFunction([i \in 1..(Len(frame) \div 2 - 1) |-> ToWord(frame, 2 * i - 2)])
\* A response whose words add up to less than a word can hold is not: this is
\* said of the one just read.
SmallSumsAccepted == (damaged = "none" /\ phase = "length" /\ read # <<>>) =>
  (SumOf(sent[Len(read)]) < Word => ~Last(read).invalid)
===============================================================================
