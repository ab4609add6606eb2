----------------------------- MODULE LinkedList -----------------------------
(***************************************************************************)
(* modules/m2/double_link/linked_list: a program that calls the list's      *)
(* functions one after the other.  heap holds the nodes, a freed one with   *)
(* the next it held last; list is what the calls should have made of it.    *)
(*                                                                         *)
(* insert_last does not set next in a node it appends, which holds whatever *)
(* the memory held before: NULL if it is new, or the next of the node freed *)
(* there.  From a wrong next on the program is undefined, and stops here.   *)
(* A value is what insert_last copies of an element, all but its last byte. *)
(***************************************************************************)
EXTENDS Integers, Sequences, FiniteSets, SequencesExt

CONSTANTS Nodes, Values     \* Nodes: a set of positive numbers

NULL == 0

VARIABLES
    heap, live, head_list,
    curr, placeholder,  \* of reverse_helper, while status is "reversing"
    status,             \* "ready", "reversing", "crashed", "hung", "undefined"
    returned,           \* by the last call, if it was get_first or get_last
    list

vars == <<heap, live, head_list, curr, placeholder, status, returned, list>>
locals == <<curr, placeholder>>

Init ==
    /\ heap = [n \in Nodes |-> [data |-> NULL, next |-> NULL, prev |-> NULL]]
    /\ live = {} /\ head_list = NULL /\ curr = NULL /\ placeholder = NULL
    /\ status = "ready" /\ returned = <<"none", NULL>> /\ list = <<>>

(* The nodes from head_list on, and the last of them. *)
Chain[k \in 1 .. Cardinality(Nodes)] ==
    IF k = 1 THEN head_list
    ELSE IF Chain[k - 1] = NULL THEN NULL ELSE heap[Chain[k - 1]].next
Reachable == {Chain[k] : k \in DOMAIN Chain} \ {NULL}
LastNode == CHOOSE n \in Reachable : heap[n].next = NULL

Call(name, value) ==
    /\ status = "ready"
    /\ returned' = IF name \in {"get_first", "get_last"} THEN <<name, value>> ELSE <<"none", NULL>>
Fails(name, how) ==
    Call(name, NULL) /\ status' = how /\ UNCHANGED <<heap, live, head_list, locals, list>>
Looks(name, value) ==
    Call(name, value) /\ UNCHANGED <<heap, live, head_list, locals, status, list>>

(* current is never advanced. *)
length_list == IF head_list = NULL THEN Looks("length_list", 0) ELSE Fails("length_list", "hung")

get_first ==
    IF head_list = NULL THEN Fails("get_first", "crashed")
    ELSE Looks("get_first", heap[head_list].data)

GetLast == IF head_list = NULL THEN NULL ELSE heap[LastNode].data
get_last == Looks("get_last", GetLast)

(* insert_first, get and remove_last are yet to be written. *)
Unwritten == \E name \in {"insert_first", "get", "remove_last"} : Looks(name, NULL)

insert_last ==
    /\ Call("insert_last", NULL)
    /\ \E n \in Nodes \ live, v \in Values :
         /\ live' = live \union {n} /\ list' = Append(list, v)
         /\ IF head_list = NULL
            THEN /\ head_list' = n /\ status' = "ready"
                 /\ heap' = [heap EXCEPT ![n] = [data |-> v, next |-> NULL, prev |-> NULL]]
            ELSE /\ UNCHANGED head_list
                 /\ \E next \in {NULL, heap[n].next} :
                      /\ heap' = [heap EXCEPT ![LastNode].next = n,
                                    ![n] = [data |-> v, next |-> next, prev |-> LastNode]]
                      /\ status' = IF next = NULL THEN "ready" ELSE "undefined"
    /\ UNCHANGED locals

Unlinked(n) ==
    [m \in Nodes |->
       IF m = n THEN [data |-> NULL, next |-> heap[n].next, prev |-> NULL]
       ELSE [heap[m] EXCEPT !.prev = IF m = heap[n].next THEN heap[n].prev ELSE @,
                            !.next = IF m = heap[n].prev THEN heap[n].next ELSE @]]

(* memcmp also reads the byte that was not copied: the first node with the  *)
(* value may be passed over, and another one found, or none.                *)
remove_element ==
    \/ Looks("remove_element", 0)
    \/ /\ Call("remove_element", 1)
       /\ \E k \in DOMAIN list :
            /\ heap' = Unlinked(Chain[k])
            /\ head_list' = (IF Chain[k] = head_list THEN heap[head_list].next ELSE head_list)
            /\ live' = live \ {Chain[k]} /\ list' = RemoveAt(list, k)
       /\ UNCHANGED <<locals, status>>

(* The pointer returned is read from the node that has been freed. *)
remove_first ==
    IF head_list = NULL THEN Looks("remove_first", NULL)
    ELSE /\ Call("remove_first", NULL)
         /\ heap' = Unlinked(head_list) /\ head_list' = heap[head_list].next
         /\ live' = live \ {head_list} /\ list' = Tail(list)
         /\ UNCHANGED <<locals, status>>

(* reverse and reverse_helper, which does not expect an empty list. *)
reverse ==
    IF head_list = NULL THEN Fails("reverse", "crashed")
    ELSE IF heap[head_list].next = NULL THEN Looks("reverse", NULL)
    ELSE /\ Call("reverse", NULL) /\ status' = "reversing"
         /\ curr' = head_list /\ placeholder' = NULL /\ list' = Reverse(list)
         /\ UNCHANGED <<heap, live, head_list>>

Turned == [heap EXCEPT ![curr].prev = heap[curr].next, ![curr].next = placeholder]

NewHead_early == IF heap[curr].next = NULL THEN placeholder ELSE head_list
NewHead == IF heap[curr].next = NULL THEN curr ELSE head_list

reverse_helper ==
    /\ status = "reversing"
    /\ IF curr = NULL
       THEN status' = "ready" /\ placeholder' = NULL /\ UNCHANGED <<heap, head_list, curr>>
       ELSE /\ head_list' = NewHead
            /\ heap' = Turned
            /\ placeholder' = curr /\ curr' = heap'[curr].prev
            /\ UNCHANGED status
    /\ UNCHANGED <<live, returned, list>>

Next ==
    \/ length_list \/ get_first \/ get_last \/ Unwritten \/ insert_last \/ remove_element
    \/ remove_first \/ reverse \/ reverse_helper

Spec == Init /\ [][Next]_vars

-----------------------------------------------------------------------------
From(n) ==
    LET Step[k \in 1 .. Cardinality(Nodes)] ==
          IF k = 1 THEN n ELSE IF Step[k - 1] = NULL THEN NULL ELSE heap[Step[k - 1]].next
    IN {Step[k] : k \in DOMAIN Step} \ {NULL}

=============================================================================
