------------------------------ MODULE Requests ------------------------------
(***************************************************************************)
(* Requests from the client's command line to the database file and back:  *)
(* clients that send a request each, the server that carries it out option *)
(* by option and saves after each (deserialize_request_options), a server  *)
(* that ends and starts again, and the cli on the same file.               *)
(*                                                                         *)
(* A message arrives whole, and of an answer that never comes Session has  *)
(* what client.c makes; the requests of two clients do not mix (PollLoop); *)
(* write_db() is one step (DbFile has its writes).  Of the file's bytes    *)
(* only their number is kept, which read_dbhdr() compares with the         *)
(* header's.                                                               *)
(***************************************************************************)
EXTENDS Options, FiniteSets

CONSTANTS
  Clients, NoClient,
  Typed,      \* what may be typed: sequences of options, in their order
  ToolTyped,  \* what is typed at the cli
  Files,      \* employees in the file at first
  MaxTool     \* bound: runs of the cli

\* client.c and cli.c look at each of their options once, add first.
InOrder(opts) ==
  \A j, k \in DOMAIN opts : j < k => Letter[opts[j].op] < Letter[opts[k].op]

ASSUME RequestsAssumption ==
  /\ NoClient \notin Clients /\ MaxTool \in Nat
  /\ \A es \in Files : es \in Seq(Employees) /\ Sound(es)
  /\ \A opts \in Typed \cup ToolTyped : opts \in Seq(TypedOptions) /\ InOrder(opts)

VARIABLES
  state,    \* per client: "start", "sent" or "done"
  typed,    \* per client: the options of its request
  buffer,   \* per client: its request; then the listing it was sent
  answer,   \* per client: what the server answered
  shown,    \* per client: the rows it displays of the listing it was sent
  up,       \* is the server running
  memory,   \* employees, in the server
  cur,      \* the client it serves
  pos,      \* conn->buf_cursor
  stage,    \* the first option not yet looked for
  saved,    \* options of this request that are saved
  dirty,    \* memory has changed and is not saved
  disk,     \* employees in the file
  length,   \* st_size, without the header
  tool,     \* "off" or "loaded"
  toolMemory, toolRuns,
  trusted   \* FALSE once the cli and the server have the file open together,
            \* or a string that does not fit its field is added

clientVars == <<state, typed, buffer, answer, shown>>
requestVars == <<cur, pos, stage, saved>>
fileVars == <<disk, length>>
toolVars == <<tool, toolMemory, toolRuns>>
vars == <<clientVars, up, memory, requestVars, dirty, fileVars, toolVars, trusted>>

Init ==
  /\ state = [c \in Clients |-> "start"]
  /\ typed = [c \in Clients |-> <<>>]
  /\ buffer = [c \in Clients |-> Empty]
  /\ answer = [c \in Clients |-> "none"]
  /\ shown = [c \in Clients |-> <<>>]
  /\ up = FALSE /\ memory = <<>> /\ dirty = FALSE
  /\ cur = NoClient /\ pos = 1 /\ stage = 1 /\ saved = 0
  /\ disk \in Files /\ length = CellsOf(disk)
  /\ tool = "off" /\ toolMemory = <<>> /\ toolRuns = 0
  /\ trusted = TRUE

-----------------------------------------------------------------------------
(* The client. *)

Gives(c, r) ==
  /\ state' = [state EXCEPT ![c] = "done"]
  /\ answer' = [answer EXCEPT ![c] = r]
  /\ typed' = [typed EXCEPT ![c] = <<>>]

\* Nothing is sent unless every option fits; nobody listens when ~up.
Send(c) ==
  /\ state[c] = "start"
  /\ \E opts \in Typed :
       IF up /\ ~ \E k \in DOMAIN opts : Rejected(opts[k])
       THEN /\ state' = [state EXCEPT ![c] = "sent"]
            /\ typed' = [typed EXCEPT ![c] = opts]
            /\ buffer' = [buffer EXCEPT ![c] = Body(opts)]
            /\ UNCHANGED answer
       ELSE Gives(c, "unanswered") /\ UNCHANGED buffer
  /\ UNCHANGED <<shown, up, memory, requestVars, dirty, fileVars, toolVars, trusted>>

-----------------------------------------------------------------------------
(* The server. *)

Take(c) ==
  /\ up /\ cur = NoClient
  /\ state[c] = "sent"
  /\ cur' = c /\ pos' = 1 /\ stage' = 1 /\ saved' = 0
  /\ UNCHANGED <<clientVars, up, memory, dirty, fileVars, toolVars, trusted>>

Cells == buffer[cur].cells

Reads(op) ==
  /\ stage <= Letter[op]
  /\ pos <= Len(Cells) /\ Cells[pos] = Letter[op]

Serving == up /\ cur # NoClient /\ ~dirty

Unsaved(es) == memory' = es /\ UNCHANGED dirty
Changed(es) == memory' = es /\ dirty' = TRUE

Moves(op, next) == pos' = next /\ stage' = Letter[op] + 1

AddOption ==
  /\ Serving /\ Reads("add")
  /\ LET o == deserialize_add_employee_option(Cells, pos)
     IN  /\ Changed(Append(memory, o.employee))
         /\ Moves("add", o.next)
         /\ trusted' = (trusted /\ Sound(<<o.employee>>))
  /\ UNCHANGED <<clientVars, up, cur, saved, fileVars, toolVars>>

UpdateOption ==
  /\ Serving /\ Reads("update")
  /\ LET o == deserialize_update_employee_option(Cells, pos)
     IN  /\ Present(memory, o.name)
         /\ Changed(update_employee(memory, o.name, o.hours))
         /\ Moves("update", o.next)
  /\ UNCHANGED <<clientVars, up, cur, saved, fileVars, toolVars, trusted>>

DeleteOption ==
  /\ Serving /\ Reads("delete")
  /\ LET o == deserialize_delete_employee_option(Cells, pos)
     IN  /\ Present(memory, o.name)
         /\ Changed(delete_employee(memory, o.name))
         /\ Moves("delete", o.next)
  /\ UNCHANGED <<clientVars, up, cur, saved, fileVars, toolVars, trusted>>

\* The file is written in place and never cut.
Writes(es) ==
  /\ disk' = es
  /\ length' = IF CellsOf(es) > length THEN CellsOf(es) ELSE length

write_db ==
  /\ up /\ dirty
  /\ Writes(memory)
  /\ dirty' = FALSE
  /\ saved' = saved + 1
  /\ UNCHANGED <<clientVars, up, memory, cur, pos, stage, toolVars, trusted>>

Answers(r) ==
  /\ Gives(cur, r)
  /\ cur' = NoClient /\ pos' = 1 /\ stage' = 1 /\ saved' = 0
  /\ UNCHANGED <<up, memory, dirty, fileVars, toolVars, trusted>>

\* What came before in the request stays saved.
NotPresent ==
  /\ Serving
  /\ \/ /\ Reads("update")
        /\ ~Present(memory, deserialize_update_employee_option(Cells, pos).name)
     \/ /\ ~Reads("update") /\ Reads("delete")
        /\ ~Present(memory, deserialize_delete_employee_option(Cells, pos).name)
  /\ Answers("not present")
  /\ UNCHANGED <<buffer, shown>>

ListOption ==
  /\ Serving /\ Reads("list")
  /\ LET b == serialize_list_employee_response(memory)
     IN  /\ buffer' = [buffer EXCEPT ![cur] = b]
         /\ \E u \in Uninit :
              shown' = [shown EXCEPT ![cur] = deserialize_list_employee_response(b.cells, u)]
  /\ Answers("ok")

\* No option of the request is left, or it had none (send_empty_response).
Finish ==
  /\ Serving
  /\ \A op \in DOMAIN Letter : ~Reads(op)
  /\ Answers("ok")
  /\ UNCHANGED <<buffer, shown>>

-----------------------------------------------------------------------------
(* Processes that start and end. *)

Opens == CellsOf(disk) = length

\* Clients that wait for the server see its connection end.
Crash ==
  /\ up
  /\ up' = FALSE /\ memory' = <<>> /\ dirty' = FALSE
  /\ cur' = NoClient /\ pos' = 1 /\ stage' = 1 /\ saved' = 0
  /\ state' = [c \in Clients |-> IF state[c] = "sent" THEN "done" ELSE state[c]]
  /\ answer' = [c \in Clients |-> IF state[c] = "sent" THEN "unanswered" ELSE answer[c]]
  /\ typed' = [c \in Clients |-> <<>>]
  /\ UNCHANGED <<buffer, shown, fileVars, toolVars, trusted>>

Start ==
  /\ ~up /\ Opens
  /\ up' = TRUE
  /\ \E u \in Uninit : memory' = Reloaded(disk, u)
  /\ trusted' = (trusted /\ tool = "off")
  /\ UNCHANGED <<clientVars, requestVars, dirty, fileVars, toolVars>>

\* What the cli makes of the employees it loaded, and whether it went well.
Apply(es, o) ==
  IF o.op \in {"update", "delete"} /\ ~Present(es, o.name) THEN [ok |-> FALSE, es |-> es]
  ELSE [ok |-> TRUE,
        es |-> CASE o.op = "add" ->
                      Append(es, [name |-> o.name, address |-> o.address,
                                  hours |-> parse_employee_hours(o.hours)])
                 [] o.op = "update" ->
                      update_employee(es, o.name, parse_employee_hours(o.hours))
                 [] o.op = "delete" -> delete_employee(es, o.name)
                 [] o.op = "list" -> es]

\* main() looks at each kind of option once.
Step(r, opts, k) ==
  IF k \in DOMAIN opts /\ r.ok THEN Apply(r.es, opts[k]) ELSE r

Applied(es, opts) ==
  Step(Step(Step(Step([ok |-> TRUE, es |-> es], opts, 1), opts, 2), opts, 3), opts, 4)

\* The strings of an employee just added are arguments of the cli: free() may
\* abort on them, and need not.
FreesArgument(es, opts) ==
  \E j, k \in DOMAIN opts :
    /\ opts[j].op = "add" /\ opts[k].op = "delete"
    /\ opts[j].name = opts[k].name /\ ~Present(es, opts[k].name)

\* A cli that does not find its employee exits here, and writes nothing.
ToolLoads ==
  /\ tool = "off" /\ Opens /\ toolRuns < MaxTool
  /\ toolRuns' = toolRuns + 1
  /\ \E opts \in ToolTyped, u \in Uninit :
       LET es == Reloaded(disk, u)
           r == Applied(es, opts)
       IN  \/ r.ok /\ tool' = "loaded" /\ toolMemory' = r.es
           \/ (~r.ok \/ FreesArgument(es, opts)) /\ UNCHANGED <<tool, toolMemory>>
  /\ trusted' = (trusted /\ ~up)
  /\ UNCHANGED <<clientVars, up, memory, requestVars, dirty, fileVars>>

ToolSaves ==
  /\ tool = "loaded"
  /\ Writes(toolMemory)
  /\ tool' = "off" /\ toolMemory' = <<>>
  /\ trusted' = (trusted /\ Sound(toolMemory))
  /\ UNCHANGED <<clientVars, up, memory, requestVars, dirty, toolRuns>>

Serve ==
  \/ AddOption \/ UpdateOption \/ DeleteOption \/ write_db
  \/ NotPresent \/ ListOption \/ Finish

Next ==
  \/ \E c \in Clients : Send(c) \/ Take(c)
  \/ Serve \/ Crash \/ Start \/ ToolLoads \/ ToolSaves

Spec == Init /\ [][Next]_vars

-----------------------------------------------------------------------------
(* What is checked. *)

Buffers == [cells : Seq(Nat), capacity : Nat]

\* Every variable has its type; in particular hours have 32 bits wherever
\* they are, and the cursor stays inside the request or just after it.
TypeOK ==
  /\ state \in [Clients -> {"start", "sent", "done"}]
  /\ answer \in [Clients -> {"none", "ok", "not present", "unanswered"}]
  /\ buffer \in [Clients -> Buffers]
  /\ typed \in [Clients -> Typed \cup {<<>>}]
  /\ shown \in [Clients -> Seq(Employees)]
  /\ {memory, disk, toolMemory} \subseteq Seq(Employees)
  /\ {up, dirty, trusted} \subseteq BOOLEAN
  /\ cur \in Clients \cup {NoClient}
  /\ pos \in 1 .. (IF cur = NoClient THEN 1 ELSE Len(Cells) + 1)
  /\ stage \in 1 .. 5 /\ saved \in 0 .. 3
  /\ length \in Nat /\ tool \in {"off", "loaded"} /\ toolRuns \in 0 .. MaxTool

\* Nothing is written past the end of the memory a request or a listing was
\* given: data_len in the serialize functions is never too small (proto.c).
BuffersHold == \A c \in Clients : Len(buffer[c].cells) <= buffer[c].capacity

\* Between two options, and after it was started again, the server holds
\* exactly what the file holds, in the same order: no change is answered that
\* a crash would undo, as long as the cli was kept away (proto.c, cli.c).
MemoryIsDisk == (up /\ ~dirty /\ trusted) => memory = disk

BagOf(es) ==
  [e \in {es[k] : k \in DOMAIN es} |-> Cardinality({k \in DOMAIN es : es[k] = e})]

Left(c) ==
  IF state[c] # "sent" THEN <<>>
  ELSE IF cur = c THEN SubSeq(typed[c], saved + 1, Len(typed[c])) ELSE typed[c]

S == INSTANCE Store WITH
       MaxRows <- InitRows,
       db <- BagOf(disk),
       left <- [c \in Clients |-> Left(c)],
       answer <- [c \in Clients |-> IF state[c] = "sent" THEN "asked" ELSE answer[c]],
       current <- cur

\* The program keeps the promises of Store: every option of every request is
\* carried out once, in its order, on the file, before the answer that says
\* so, and a listing of at most InitRows rows is complete, whatever the other
\* clients send and whenever the server ends and starts.
Implements == S!Spec

\* A listing shows every employee the server has: "-l : list all employees in
\* the database" (client.c:278).
ListingIsWhole ==
  [][\A c \in Clients : shown'[c] # shown[c] => shown'[c] = memory]_vars
=============================================================================
