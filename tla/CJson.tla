------------------------------- MODULE CJson -------------------------------
(***************************************************************************)
(* cJSON, as modbusd uses it (json/cJSON.c): the items of a text on the    *)
(* heap while it is parsed, the answer built beside the request it answers *)
(* and printed, and the printed text parsed in its turn, as an answer is   *)
(* by a client and the rewritten configuration at the next start.  Any     *)
(* allocation may fail.                                                    *)
(*                                                                         *)
(* A text is a sequence of tokens: blanks, escapes and digits are below    *)
(* this module.  Memory other than items is not followed.                  *)
(***************************************************************************)
EXTENDS Naturals, FiniteSets, SequencesExt

CONSTANTS
    Number, String,  \* the scalar tokens; "0" is a Number, "" a String
    Text,            \* the texts that arrive
    Registers,       \* what a slave's registers hold when they are read
    MaxItems,        \* bound: items on the heap
    MaxFails         \* bound: allocations that fail

Literal == {"null", "false", "true"}   \* tokens without quotes
Scalar  == Number \cup String \cup Literal
Kind(tok) ==
    IF tok \in Number THEN "number" ELSE IF tok \in String THEN "string" ELSE "literal"

Null == 0
Ref  == 1 .. MaxItems
NoText == ""          \* a NULL string or name, printed as ""

VARIABLES
    heap,        \* Ref -> item
    text, pos,   \* what is parsed, and where the parser is
    root,        \* the item cJSON_Parse made for it
    item,        \* the item parse_value fills
    stack,       \* the arrays and objects around it, innermost first
    pc,
    arr, resp,   \* json_arr and resp_root of the answer
    tid, regs,   \* what it is to report
    round,       \* 1: the text that arrived, 2: the text that was printed
    fails        \* allocations that failed

parser == <<text, pos, root, item, stack, round>>
answer == <<arr, resp, tid, regs>>
vars   == <<heap, parser, pc, answer, fails>>

\* value: valuedouble of a number, valuestring of a string, which literal
Unused   == [type |-> "free", name |-> NoText, value |-> NoText,
             child |-> Null, next |-> Null, prev |-> Null]
Zeroed   == [Unused EXCEPT !.type = "zero"]
IsFree(r) == heap[r].type = "free"

----------------------------------------------------------------------------
\* The heap.

\* cJSON_New_Item
Malloc == \E r \in Ref : IsFree(r)
New == CHOOSE r \in Ref : IsFree(r)
Fails == fails < MaxFails /\ fails' = fails + 1

Link == Ref \cup {Null}

Siblings(h, r) ==
    LET from[s \in Link] == IF s = Null THEN <<>> ELSE <<s>> \o from[h[s].next]
    IN  from[r]
Children(h, r) == Siblings(h, h[r].child)

\* What cJSON_Delete(c) frees: c, what is below it and what comes after it.
Below(h, r) ==
    LET from[s \in Link] ==
          IF s = Null THEN {} ELSE {s} \cup from[h[s].child] \cup from[h[s].next]
    IN  from[r]

cJSON_Delete(h, c) == [r \in Ref |-> IF r \in Below(h, c) THEN Unused ELSE h[r]]

suffix_object(h, prev, new) == [h EXCEPT ![prev].next = new, ![new].prev = prev]

\* Mutant: at the front.
AddInFront(h, array, new) ==
    LET old == h[array].child IN
    IF old = Null THEN [h EXCEPT ![array].child = new]
    ELSE suffix_object([h EXCEPT ![array].child = new], new, old)

\* while (c && c->next) c=c->next
LastFrom(h, r) ==
    LET from[s \in Link] == IF s = Null THEN {} ELSE {s} \cup from[h[s].next]
    IN  CHOOSE c \in from[r] : h[c].next = Null

cJSON_AddItemToArray(h, array, new) ==
    IF h[array].child = Null THEN [h EXCEPT ![array].child = new]
    ELSE suffix_object(h, LastFrom(h, h[array].child), new)

\* Names are compared without regard to case; the first item wins.
Lower(name) == IF name = "TID" THEN "tid" ELSE name
Named(h, object, name) ==
    {i \in DOMAIN Children(h, object) : Lower(h[Children(h, object)[i]].name) = name}
cJSON_GetObjectItem(h, object, name) ==
    LET found == Named(h, object, name) IN
    IF found = {} THEN Null
    ELSE Children(h, object)[CHOOSE i \in found : \A j \in found : i <= j]

\* Zero where the item is neither a number nor true.
valueint(h, r) ==
    IF h[r].type = "number" THEN h[r].value
    ELSE IF h[r].type = "literal" /\ h[r].value = "true" THEN "1" ELSE "0"

Separated(entries) ==
    FlattenSeq([i \in DOMAIN entries |-> IF i = 1 THEN entries[1] ELSE <<",">> \o entries[i]])
print_array(entries) == <<"[">> \o Separated(entries) \o <<"]">>
print_object(names, entries) ==
    <<"{">> \o Separated([i \in DOMAIN names |-> <<names[i], ":">> \o entries[i]]) \o <<"}">>
cJSON_Print(h, r) ==
    LET print[s \in Ref] ==
          LET kids    == Children(h, s)
              entries == [i \in DOMAIN kids |-> print[kids[i]]]
          IN  CASE h[s].type = "array"  -> print_array(entries)
                [] h[s].type = "object" ->
                     print_object([i \in DOMAIN kids |-> h[kids[i]].name], entries)
                [] OTHER -> <<h[s].value>>
    IN  print[r]

----------------------------------------------------------------------------
\* The parser.

Tok(i) == IF i <= Len(text) THEN text[i] ELSE "end"
Container(tok) == IF tok = "[" THEN "array" ELSE "object"
Closing(type) == IF type = "array" THEN "]" ELSE "}"
Content(type) == IF type = "array" THEN "value" ELSE "name"

Init ==
    /\ text \in Text /\ pos = 1 /\ round = 1
    /\ heap = [r \in Ref |-> Unused]
    /\ root = Null /\ item = Null /\ stack = <<>>
    /\ pc = "parse"
    /\ arr = Null /\ resp = Null /\ tid = "0" /\ regs = <<>>
    /\ fails = 0

\* cJSON_ParseWithOpts up to its call of parse_value
cJSON_Parse ==
    /\ pc = "parse"
    /\ \/ /\ Malloc
          /\ heap' = [heap EXCEPT ![New] = Zeroed]
          /\ root' = New /\ item' = New
          /\ pc' = "value"
          /\ UNCHANGED fails
       \/ Fails /\ pc' = "null" /\ UNCHANGED <<heap, root, item>>
    /\ UNCHANGED <<text, pos, stack, round, answer>>

\* A literal, parse_number, and parse_string, which allocates the string.
ParseScalar ==
    /\ pc = "value" /\ Tok(pos) \in Scalar
    /\ \/ /\ heap' = [heap EXCEPT ![item].value = Tok(pos), ![item].type = Kind(Tok(pos))]
          /\ pos' = pos + 1
          /\ pc' = "after"
          /\ UNCHANGED fails
       \/ Tok(pos) \in String /\ Fails /\ pc' = "fail" /\ UNCHANGED <<heap, pos>>
    /\ UNCHANGED <<text, root, item, stack, round, answer>>

\* parse_array and parse_object up to the first child
ParseContainer ==
    /\ pc = "value" /\ Tok(pos) \in {"[", "{"}
    /\ LET type == Container(Tok(pos)) IN
       \/ /\ Tok(pos + 1) = Closing(type)
          /\ heap' = [heap EXCEPT ![item].type = type]
          /\ pos' = pos + 2
          /\ pc' = "after"
          /\ UNCHANGED <<item, stack, fails>>
       \/ /\ Tok(pos + 1) # Closing(type)
          /\ Malloc
          /\ heap' = [heap EXCEPT ![New] = Zeroed, ![item].type = type, ![item].child = New]
          /\ stack' = <<item>> \o stack
          /\ item' = New
          /\ pos' = pos + 1
          /\ pc' = Content(type)
          /\ UNCHANGED fails
       \/ /\ Tok(pos + 1) # Closing(type)
          /\ Fails
          /\ heap' = [heap EXCEPT ![item].type = type]
          /\ pc' = "fail"
          /\ UNCHANGED <<pos, item, stack>>
    /\ UNCHANGED <<text, root, round, answer>>

\* The name of a member, and the colon.
ParseName ==
    /\ pc = "name" /\ Tok(pos) \in String
    /\ \/ /\ heap' = [heap EXCEPT ![item].name = Tok(pos), ![item].type = "string"]
          /\ pc' = IF Tok(pos + 1) = ":" THEN "value" ELSE "fail"
          /\ pos' = pos + 2
          /\ UNCHANGED fails
       \/ Fails /\ pc' = "fail" /\ UNCHANGED <<heap, pos>>
    /\ UNCHANGED <<text, root, item, stack, round, answer>>

\* Mutant: a comma may be followed by the closing bracket.
CommaThenClose ==
    /\ pc = "after" /\ stack # <<>> /\ Tok(pos) = ","
    /\ IF Tok(pos + 1) = Closing(heap[Head(stack)].type)
       THEN pos' = pos + 1 /\ UNCHANGED <<heap, item, pc, fails>>
       ELSE \/ /\ Malloc
               /\ heap' = suffix_object([heap EXCEPT ![New] = Zeroed], item, New)
               /\ item' = New
               /\ pos' = pos + 1
               /\ pc' = Content(heap[Head(stack)].type)
               /\ UNCHANGED fails
            \/ Fails /\ pc' = "fail" /\ UNCHANGED <<heap, item, pos>>
    /\ UNCHANGED <<text, root, stack, round, answer>>

\* while (*value==',')
Comma ==
    /\ pc = "after" /\ stack # <<>> /\ Tok(pos) = ","
    /\ \/ /\ Malloc
          /\ heap' = suffix_object([heap EXCEPT ![New] = Zeroed], item, New)
          /\ item' = New
          /\ pos' = pos + 1
          /\ pc' = Content(heap[Head(stack)].type)
          /\ UNCHANGED fails
       \/ Fails /\ pc' = "fail" /\ UNCHANGED <<heap, item, pos>>
    /\ UNCHANGED <<text, root, stack, round, answer>>

\* The end of an array or object, which is now the item that was parsed.
Close ==
    /\ pc = "after" /\ stack # <<>>
    /\ Tok(pos) = Closing(heap[Head(stack)].type)
    /\ item' = Head(stack) /\ stack' = Tail(stack)
    /\ pos' = pos + 1
    /\ UNCHANGED <<heap, text, root, round, pc, answer, fails>>

\* What follows the outermost value is not looked at.
Parsed ==
    /\ pc = "after" /\ stack = <<>>
    /\ pc' = "done"
    /\ UNCHANGED <<heap, parser, answer, fails>>

Malformed ==
    /\ \/ pc = "value" /\ Tok(pos) \notin Scalar \cup {"[", "{"}
       \/ pc = "name" /\ Tok(pos) \notin String
       \/ /\ pc = "after" /\ stack # <<>>
          /\ Tok(pos) \notin {",", Closing(heap[Head(stack)].type)}
    /\ pc' = "fail"
    /\ UNCHANGED <<heap, parser, answer, fails>>

ParseFailed ==
    /\ pc = "fail"
    /\ heap' = cJSON_Delete(heap, root)
    /\ root' = Null /\ item' = Null /\ stack' = <<>>
    /\ pc' = "null"
    /\ UNCHANGED <<text, pos, round, answer, fails>>

----------------------------------------------------------------------------
\* The answer to a read request: set_modbus_with_data_ok_resp.

\* main reads "tid", NULL or not; the slave is asked in between.
Request ==
    /\ pc = "done" /\ round = 1
    /\ LET found == cJSON_GetObjectItem(heap, root, "tid") IN
       IF found = Null
       THEN pc' = "crashed" /\ UNCHANGED <<tid, regs>>
       ELSE /\ tid' = valueint(heap, found)
            /\ regs' \in Registers
            /\ pc' = "array"
    /\ UNCHANGED <<heap, parser, arr, resp, fails>>

\* cJSON_CreateUInt16Array: the array ...
CreateArray ==
    /\ pc = "array"
    /\ \/ /\ Malloc
          /\ heap' = [heap EXCEPT ![New] = [Zeroed EXCEPT !.type = "array"]]
          /\ arr' = New
          /\ pc' = "fill"
          /\ UNCHANGED fails
       \/ Fails /\ pc' = "object" /\ UNCHANGED <<heap, arr>>
    /\ UNCHANGED <<parser, resp, tid, regs>>

\* ... and its items; when one cannot be made the array is deleted.
Filled == Len(Children(heap, arr))
\* Mutant: it is not.
FillOrLeak ==
    /\ pc = "fill" /\ Filled < Len(regs)
    /\ \/ /\ Malloc
          /\ heap' = cJSON_AddItemToArray(
                [heap EXCEPT ![New] = [Zeroed EXCEPT !.type = "number", !.value = regs[Filled + 1]]],
                arr, New)
          /\ UNCHANGED <<arr, pc, fails>>
       \/ Fails /\ arr' = Null /\ pc' = "object" /\ UNCHANGED heap
    /\ UNCHANGED <<parser, resp, tid, regs>>
Fill ==
    /\ pc = "fill" /\ Filled < Len(regs)
    /\ \/ /\ Malloc
          /\ heap' = cJSON_AddItemToArray(
                [heap EXCEPT ![New] = [Zeroed EXCEPT !.type = "number", !.value = regs[Filled + 1]]],
                arr, New)
          /\ UNCHANGED <<arr, pc, fails>>
       \/ /\ Fails
          /\ heap' = cJSON_Delete(heap, arr)
          /\ arr' = Null
          /\ pc' = "object"
    /\ UNCHANGED <<parser, resp, tid, regs>>

CreateObject ==
    /\ \/ pc = "object"
       \/ pc = "fill" /\ Filled = Len(regs)
    /\ \/ /\ Malloc
          /\ heap' = [heap EXCEPT ![New] = [Zeroed EXCEPT !.type = "object"]]
          /\ resp' = New
          /\ UNCHANGED fails
       \/ Fails /\ UNCHANGED <<heap, resp>>
    /\ pc' = "tid"
    /\ UNCHANGED <<parser, arr, tid, regs>>

\* cJSON_AddItemToObject: a NULL item is left out, a NULL object is
\* dereferenced; the copy of the name may fail, and the item is added all the same.
AddMember(h, name, new, then) ==
    IF resp = Null
    THEN pc' = "crashed" /\ heap' = h /\ UNCHANGED fails
    ELSE /\ pc' = then
         /\ \/ /\ heap' = cJSON_AddItemToArray([h EXCEPT ![new].name = name], resp, new)
               /\ UNCHANGED fails
            \/ Fails /\ heap' = cJSON_AddItemToArray(h, resp, new)

\* cJSON_AddNumberToObject, cJSON_AddStringToObject
AddScalar(here, name, type, value, then) ==
    /\ pc = here
    /\ \/ /\ Malloc
          /\ AddMember([heap EXCEPT ![New] = [Zeroed EXCEPT !.type = type, !.value = value]],
                       name, New, then)
       \/ Fails /\ pc' = then /\ UNCHANGED heap
    /\ UNCHANGED <<parser, answer>>

AddTid == AddScalar("tid", "tid", "number", tid, "data")
AddStatus == AddScalar("status", "status", "string", "ok", "print")

AddData ==
    /\ pc = "data"
    /\ IF arr = Null THEN pc' = "status" /\ UNCHANGED <<heap, fails>>
                     ELSE AddMember(heap, "data", arr, "status")
    /\ arr' = Null
    /\ UNCHANGED <<parser, resp, tid, regs>>

\* The text is sent, then the request deleted.
PrintAnswer ==
    /\ pc = "print"
    /\ \/ /\ resp # Null
          /\ text' = cJSON_Print(heap, resp)
          /\ heap' = cJSON_Delete(heap, resp)
          /\ pc' = "sent"
          /\ UNCHANGED fails
       \/ /\ \/ Fails
             \/ resp = Null /\ UNCHANGED fails
          /\ heap' = (IF resp = Null THEN heap ELSE cJSON_Delete(heap, resp))
          /\ pc' = "crashed"
          /\ UNCHANGED text
    /\ resp' = Null
    /\ UNCHANGED <<pos, root, item, stack, round, arr, tid, regs>>

DeleteRequest ==
    /\ pc = "sent"
    /\ heap' = cJSON_Delete(heap, root)
    /\ root' = Null /\ item' = Null
    /\ pc' = "parse" /\ pos' = 1 /\ round' = 2
    /\ UNCHANGED <<text, stack, answer, fails>>

\* save_config at the end of a daemon, whose memory is gone; load_config of the
\* next.  (Which members a configuration has is not looked at.)
SaveConfig ==
    /\ pc = "done" /\ round = 1
    /\ \/ text' = cJSON_Print(heap, root) /\ UNCHANGED fails
       \/ Fails /\ text' = <<"(null)">>
    /\ heap' = [r \in Ref |-> Unused]
    /\ root' = Null /\ item' = Null
    /\ pc' = "parse" /\ pos' = 1 /\ round' = 2
    /\ UNCHANGED <<stack, answer>>

----------------------------------------------------------------------------
Next ==
    \/ cJSON_Parse \/ ParseScalar \/ ParseContainer \/ ParseName \/ Comma \/ Close
    \/ Parsed \/ Malformed \/ ParseFailed
    \/ Request \/ CreateArray \/ Fill \/ CreateObject \/ AddTid \/ AddData \/ AddStatus
    \/ PrintAnswer \/ DeleteRequest \/ SaveConfig

Spec == Init /\ [][Next]_vars

----------------------------------------------------------------------------
\* Properties.

Roots == {root, arr, resp} \ {Null}

\* Every item on the heap belongs to one place: it is the request, the array or
\* the answer, or the child or the next of one other item, which is its prev; and
\* from these three all are reached.  So nothing is freed twice, and when they are
\* gone, after a failed allocation anywhere too, nothing is left.
OwnedOnce ==
    LET Used == {r \in Ref : ~IsFree(r)}
        Holders(r) == {h \in Used : heap[h].child = r} \cup {h \in Used : heap[h].next = r}
    IN  pc # "crashed" =>
        /\ UNION {Below(heap, r) : r \in Roots} = Used
        /\ \A r \in Used :
             /\ Cardinality(Holders(r)) = IF r \in Roots THEN 0 ELSE 1
             /\ heap[r].prev = (IF \E h \in Used : heap[h].next = r
                                THEN CHOOSE h \in Used : heap[h].next = r ELSE Null)

\* The grammar of JSON over these tokens: tokens i to j of s are a value, a member of
\* an object, or a list of the one or the other.
IsValue(s) ==
    LET is[kind \in {"value", "member", "values", "members"},
           i \in 1 .. Len(s) + 1, j \in 0 .. Len(s)] ==
          CASE kind = "value" ->
                 \/ i = j /\ s[i] \in Scalar
                 \/ /\ i < j
                    /\ \/ s[i] = "[" /\ s[j] = "]" /\ (i + 1 = j \/ is["values", i + 1, j - 1])
                       \/ s[i] = "{" /\ s[j] = "}" /\ (i + 1 = j \/ is["members", i + 1, j - 1])
            [] kind = "member" ->
                 i + 2 <= j /\ s[i] \in String /\ s[i + 1] = ":" /\ is["value", i + 2, j]
            [] OTHER ->
                 LET one == IF kind = "values" THEN "value" ELSE "member" IN
                 \/ is[one, i, j]
                 \/ \E k \in i + 1 .. j - 1 : s[k] = "," /\ is[kind, i, k - 1] /\ is[one, k + 1, j]
    IN  is["value", 1, Len(s)]

\* cJSON_Parse accepts the texts that begin with a JSON value, and those only; the
\* items it makes print as that value.  It refuses no other unless memory runs out.
ParsesJson ==
    /\ pc = "done" =>
         /\ IsValue(SubSeq(text, 1, pos - 1))
         /\ cJSON_Print(heap, root) = SubSeq(text, 1, pos - 1)
    /\ pc = "null" /\ fails = 0 => \A n \in 1 .. Len(text) : ~IsValue(SubSeq(text, 1, n))

\* What is printed is parsed again whole, and an answer gives by name what was put
\* in it: the tid of the request, the registers in order, "ok".  Where memory ran
\* out a member may be missing, but what is found is right.
AnswerByName ==
    round = 2 /\ pc = "done" =>
        /\ pos = Len(text) + 1
        /\ Len(regs) > 0 =>
             LET At(name) == cJSON_GetObjectItem(heap, root, name)
                 data == Children(heap, At("data"))
             IN  /\ fails = 0 => Null \notin {At("tid"), At("data"), At("status")}
                 /\ At("tid") # Null => heap[At("tid")].value = tid
                 /\ At("data") # Null => [i \in DOMAIN data |-> heap[data[i]].value] = regs
                 /\ At("status") # Null => heap[At("status")].value = "ok"
=============================================================================
