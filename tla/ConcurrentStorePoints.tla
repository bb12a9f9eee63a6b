----------------------- MODULE ConcurrentStorePoints -----------------------
(***************************************************************************)
(* Where the threads of ConcurrentStore are in their calls, and the        *)
(* inductive invariant that this lets ConcurrentStoreProofs state.         *)
(*                                                                         *)
(* A thread's list of instructions says where it is in its call, but not   *)
(* by name: here the points of the calls have numbers, by hundreds.  1 is  *)
(* set, 2 set_batch, 3 update, 4 delete, 5 get, 6 search, 7 compact, 8 the *)
(* checkpoint and 9 the ends of calls; 0 is an idle thread.  The function  *)
(* at gives the point of each thread, and the invariant says that there is *)
(* one such that the threads hold the locks, have the local variables and  *)
(* left the store the way their points say.                                *)
(*                                                                         *)
(* The lemmas follow the threads: the program of every call is the list of *)
(* its first point; a step leads from the list of a point to that of       *)
(* another, and takes and leaves the locks that are between them; and of   *)
(* each part of the invariant, which steps cannot disturb it.              *)
(***************************************************************************)
EXTENDS ConcurrentStore, Recursion, SequenceTheorems, FiniteSetTheorems

-----------------------------------------------------------------------------
\* The instructions that are left at each point, from the end of each call on.  A
\* branch that Rest inserts is on the way of its call: 106 and 107 are `carry', and so
\* are 215, 216, 245 and 246; 118 to 121 are Moved; 211 on and 241 on are what `split'
\* chooses; 903 is Abandon.

Name == {"nothing", "look", "find", "carry", "bury", "push", "insert", "moved", "unindex",
         "remap", "index", "log", "checkpoint?", "split", "full?", "known?", "live?", "dead?",
         "vector", "rewrite", "delete", "drop", "unlog", "buried?", "record", "view", "id", "pack",
         "replace", "clear", "fill", "exhume", "renumber", "rebuild", "forget", "collect",
         "restore", "save"}

Instruction == ({"read", "claim"} \X Lock) \cup ({"do"} \X Name \X (Lock \cup {"none"}))

Then(i, s) == <<i>> \o s

C0 == << >>

\* The ends of calls: the guard of write_lock is dropped; 903 is the end of one that found
\* nothing.
C903 == Then(<<"do", "nothing", "gate">>, C0)
C902 == Then(<<"do", "checkpoint?", "none">>, C0)
C901 == Then(<<"do", "nothing", "gate">>, C902)

\* CheckpointCall.
C810 == Then(<<"do", "nothing", "gate">>, C0)
C809 == Then(<<"do", "nothing", "storage">>, C810)
C808 == Then(<<"do", "save", "slots">>, C809)
C807 == Then(<<"read", "slots">>, C808)
C806 == Then(<<"claim", "storage">>, C807)
C805 == Then(<<"do", "nothing", "sparse">>, C806)
C804 == Then(<<"read", "sparse">>, C805)
C803 == Then(<<"do", "nothing", "storage">>, C804)
C802 == Then(<<"read", "storage">>, C803)
C801 == Then(<<"claim", "gate">>, IF persistent THEN C802 ELSE C810)

\* CompactCall.
C724 == Then(<<"do", "nothing", "gate">>, C0)
C723 == Then(<<"do", "restore", "meta">>, C724)
C722 == Then(<<"claim", "meta">>, C723)
C721 == Then(<<"do", "collect", "slots">>, C722)
C720 == Then(<<"read", "slots">>, C721)
C719 == Then(<<"do", "forget", "meta">>, C720)
C718 == Then(<<"claim", "meta">>, C719)
C717 == Then(<<"do", "nothing", "slots">>, C718)
C716 == Then(<<"do", "rebuild", "engine">>, C717)
C715 == Then(<<"claim", "engine">>, C716)
C714 == Then(<<"read", "slots">>, C715)
C713 == Then(<<"do", "renumber", "sparse">>, C714)
C712 == Then(<<"claim", "sparse">>, C713)
C711 == Then(<<"do", "exhume", "deleted">>, C712)
C710 == Then(<<"claim", "deleted">>, C711)
C709 == Then(<<"do", "fill", "none">>, C710)
C708 == Then(<<"do", "clear", "none">>, C709)
C707 == Then(<<"do", "replace", "slots">>, C708)
C706 == Then(<<"claim", "slots">>, C707)
C705 == Then(<<"do", "nothing", "slots">>, C706)
C704 == Then(<<"do", "pack", "deleted">>, C705)
C703 == Then(<<"read", "deleted">>, C704)
C702 == Then(<<"read", "slots">>, C703)
C701 == Then(<<"claim", "gate">>, C702)

\* SearchCall.
C607 == Then(<<"do", "id", "slots">>, C0)
C606 == Then(<<"read", "slots">>, C607)
C605 == Then(<<"do", "dead?", "none">>, C606)
C604 == Then(<<"do", "buried?", "deleted">>, C605)
C603 == Then(<<"read", "deleted">>, C604)
C602 == Then(<<"do", "known?", "none">>, C603)
C601 == Then(<<"do", "view", "none">>, C602)

\* GetCall.
C507 == Then(<<"do", "record", "slots">>, C0)
C506 == Then(<<"read", "slots">>, C507)
C505 == Then(<<"do", "dead?", "none">>, C506)
C504 == Then(<<"do", "buried?", "deleted">>, C505)
C503 == Then(<<"read", "deleted">>, C504)
C502 == Then(<<"do", "known?", "none">>, C503)
C501 == Then(<<"do", "look", "none">>, C502)

\* DeleteCall.
C413 == Then(<<"do", "unlog", "storage">>, C901)
C412 == Then(<<"claim", "storage">>, C413)
C411 == Then(<<"do", "drop", "sparse">>, IF persistent THEN C412 ELSE C901)
C410 == Then(<<"claim", "sparse">>, C411)
C409 == Then(<<"do", "unindex", "meta">>, C410)
C408 == Then(<<"claim", "meta">>, C409)
C407 == Then(<<"do", "dead?", "none">>, C408)
C406 == Then(<<"do", "nothing", "deleted">>, C407)
C405 == Then(<<"do", "delete", "none">>, C406)
C404 == Then(<<"claim", "deleted">>, C405)
C403 == Then(<<"do", "known?", "none">>, C404)
C402 == Then(<<"do", "look", "none">>, C403)
C401 == Then(<<"read", "gate">>, C402)

\* UpdateCall.
C323 == Then(<<"do", "rewrite", "slots">>, C901)
C322 == Then(<<"claim", "slots">>, C323)
C321 == Then(<<"do", "index", "meta">>, C322)
C320 == Then(<<"claim", "meta">>, C321)
C319 == Then(<<"do", "unindex", "meta">>, C320)
C318 == Then(<<"claim", "meta">>, C319)
C317 == Then(<<"do", "nothing", "storage">>, C318)
C316 == Then(<<"do", "log", "none">>, C317)
C315 == Then(<<"do", "nothing", "slots">>, C316)
C314 == Then(<<"read", "slots">>, C315)
C313 == Then(<<"do", "nothing", "slots">>, C314)
C312 == Then(<<"read", "slots">>, C313)
C311 == Then(<<"claim", "storage">>, C312)
C310 == Then(<<"do", "vector", "slots">>, IF persistent THEN C311 ELSE C318)
C309 == Then(<<"read", "slots">>, C310)
C308 == Then(<<"do", "dead?", "none">>, C309)
C307 == Then(<<"do", "nothing", "deleted">>, C308)
C306 == Then(<<"do", "live?", "slots">>, C307)
C305 == Then(<<"read", "slots">>, C306)
C304 == Then(<<"read", "deleted">>, C305)
C303 == Then(<<"do", "known?", "none">>, C304)
C302 == Then(<<"do", "look", "none">>, C303)
C301 == Then(<<"read", "gate">>, C302)

\* The end of SetBatchCall.
C205 == Then(<<"do", "full?", "storage">>, C901)
C204 == Then(<<"read", "storage">>, C205)

\* BatchInsert.
C257 == Then(<<"do", "nothing", "meta">>, IF persistent THEN C204 ELSE C901)
C256 == Then(<<"do", "nothing", "slots">>, C257)
C255 == Then(<<"do", "insert", "engine">>, C256)
C254 == Then(<<"claim", "engine">>, C255)
C253 == Then(<<"read", "slots">>, C254)
C252 == Then(<<"do", "index", "none">>, C253)
C251 == Then(<<"do", "nothing", "deleted">>, C252)
C250 == Then(<<"do", "push", "slots">>, C251)
C249 == Then(<<"claim", "slots">>, C250)
C248 == Then(<<"do", "bury", "none">>, C249)
C247 == Then(<<"claim", "deleted">>, C248)
C246 == Then(<<"do", "carry", "slots">>, C247)
C245 == Then(<<"read", "slots">>, C246)
C244 == Then(<<"do", "find", "none">>, C247)
C243 == Then(<<"claim", "meta">>, C244)
C242 == Then(<<"do", "nothing", "engine">>, C243)
C241 == Then(<<"read", "engine">>, C242)

\* BatchUpdate.
C229 == Then(<<"do", "nothing", "meta">>, IF persistent THEN C204 ELSE C901)
C228 == Then(<<"do", "nothing", "sparse">>, C229)
C227 == Then(<<"do", "nothing", "engine">>, C228)
C226 == Then(<<"do", "index", "none">>, C227)
C225 == Then(<<"do", "remap", "none">>, C226)
C224 == Then(<<"do", "unindex", "none">>, C225)
C223 == Then(<<"do", "insert", "slots">>, C224)
C222 == Then(<<"read", "slots">>, C223)
C221 == Then(<<"do", "nothing", "deleted">>, C222)
C220 == Then(<<"do", "push", "slots">>, C221)
C219 == Then(<<"claim", "slots">>, C220)
C218 == Then(<<"do", "bury", "none">>, C219)
C217 == Then(<<"claim", "deleted">>, C218)
C216 == Then(<<"do", "carry", "slots">>, C217)
C215 == Then(<<"read", "slots">>, C216)
C214 == Then(<<"do", "find", "none">>, C217)
C213 == Then(<<"claim", "engine">>, C214)
C212 == Then(<<"claim", "sparse">>, C213)
C211 == Then(<<"claim", "meta">>, C212)

\* The start of SetBatchCall.
C203 == Then(<<"do", "split", "none">>, IF persistent THEN C204 ELSE C901)
C202 == Then(<<"do", "look", "none">>, C203)
C201 == Then(<<"read", "gate">>, C202)

\* SetCall.
C132 == Then(<<"do", "nothing", "slots">>, C901)
C131 == Then(<<"do", "nothing", "storage">>, C132)
C130 == Then(<<"do", "log", "none">>, C131)
C129 == Then(<<"do", "nothing", "slots">>, C130)
C128 == Then(<<"read", "slots">>, C129)
C127 == Then(<<"do", "nothing", "slots">>, C128)
C126 == Then(<<"read", "slots">>, C127)
C125 == Then(<<"claim", "storage">>, C126)
C124 == Then(<<"read", "slots">>, C125)
C123 == Then(<<"do", "index", "meta">>, IF persistent THEN C124 ELSE C901)
C122 == Then(<<"claim", "meta">>, C123)
C121 == Then(<<"do", "remap", "sparse">>, C122)
C120 == Then(<<"claim", "sparse">>, C121)
C119 == Then(<<"do", "unindex", "meta">>, C120)
C118 == Then(<<"claim", "meta">>, C119)
C117 == Then(<<"do", "moved", "none">>, C122)
C116 == Then(<<"do", "nothing", "slots">>, C117)
C115 == Then(<<"do", "insert", "engine">>, C116)
C114 == Then(<<"claim", "engine">>, C115)
C113 == Then(<<"read", "slots">>, C114)
C112 == Then(<<"do", "nothing", "deleted">>, C113)
C111 == Then(<<"do", "push", "slots">>, C112)
C110 == Then(<<"claim", "slots">>, C111)
C109 == Then(<<"do", "bury", "none">>, C110)
C108 == Then(<<"claim", "deleted">>, C109)
C107 == Then(<<"do", "carry", "slots">>, C108)
C106 == Then(<<"read", "slots">>, C107)
C105 == Then(<<"do", "find", "none">>, C108)
C104 == Then(<<"do", "look", "none">>, C105)
C103 == Then(<<"do", "nothing", "engine">>, C104)
C102 == Then(<<"claim", "engine">>, C103)
C101 == Then(<<"read", "gate">>, C102)
CodeAt(n) ==
  CASE n = 0 -> C0 [] n = 101 -> C101 [] n = 102 -> C102 [] n = 103 -> C103
    [] n = 104 -> C104 [] n = 105 -> C105 [] n = 106 -> C106 [] n = 107 -> C107
    [] n = 108 -> C108 [] n = 109 -> C109 [] n = 110 -> C110 [] n = 111 -> C111
    [] n = 112 -> C112 [] n = 113 -> C113 [] n = 114 -> C114 [] n = 115 -> C115
    [] n = 116 -> C116 [] n = 117 -> C117 [] n = 118 -> C118 [] n = 119 -> C119
    [] n = 120 -> C120 [] n = 121 -> C121 [] n = 122 -> C122 [] n = 123 -> C123
    [] n = 124 -> C124 [] n = 125 -> C125 [] n = 126 -> C126 [] n = 127 -> C127
    [] n = 128 -> C128 [] n = 129 -> C129 [] n = 130 -> C130 [] n = 131 -> C131
    [] n = 132 -> C132 [] n = 201 -> C201 [] n = 202 -> C202 [] n = 203 -> C203
    [] n = 204 -> C204 [] n = 205 -> C205 [] n = 211 -> C211 [] n = 212 -> C212
    [] n = 213 -> C213 [] n = 214 -> C214 [] n = 215 -> C215 [] n = 216 -> C216
    [] n = 217 -> C217 [] n = 218 -> C218 [] n = 219 -> C219 [] n = 220 -> C220
    [] n = 221 -> C221 [] n = 222 -> C222 [] n = 223 -> C223 [] n = 224 -> C224
    [] n = 225 -> C225 [] n = 226 -> C226 [] n = 227 -> C227 [] n = 228 -> C228
    [] n = 229 -> C229 [] n = 241 -> C241 [] n = 242 -> C242 [] n = 243 -> C243
    [] n = 244 -> C244 [] n = 245 -> C245 [] n = 246 -> C246 [] n = 247 -> C247
    [] n = 248 -> C248 [] n = 249 -> C249 [] n = 250 -> C250 [] n = 251 -> C251
    [] n = 252 -> C252 [] n = 253 -> C253 [] n = 254 -> C254 [] n = 255 -> C255
    [] n = 256 -> C256 [] n = 257 -> C257 [] n = 301 -> C301 [] n = 302 -> C302
    [] n = 303 -> C303 [] n = 304 -> C304 [] n = 305 -> C305 [] n = 306 -> C306
    [] n = 307 -> C307 [] n = 308 -> C308 [] n = 309 -> C309 [] n = 310 -> C310
    [] n = 311 -> C311 [] n = 312 -> C312 [] n = 313 -> C313 [] n = 314 -> C314
    [] n = 315 -> C315 [] n = 316 -> C316 [] n = 317 -> C317 [] n = 318 -> C318
    [] n = 319 -> C319 [] n = 320 -> C320 [] n = 321 -> C321 [] n = 322 -> C322
    [] n = 323 -> C323 [] n = 401 -> C401 [] n = 402 -> C402 [] n = 403 -> C403
    [] n = 404 -> C404 [] n = 405 -> C405 [] n = 406 -> C406 [] n = 407 -> C407
    [] n = 408 -> C408 [] n = 409 -> C409 [] n = 410 -> C410 [] n = 411 -> C411
    [] n = 412 -> C412 [] n = 413 -> C413 [] n = 501 -> C501 [] n = 502 -> C502
    [] n = 503 -> C503 [] n = 504 -> C504 [] n = 505 -> C505 [] n = 506 -> C506
    [] n = 507 -> C507 [] n = 601 -> C601 [] n = 602 -> C602 [] n = 603 -> C603
    [] n = 604 -> C604 [] n = 605 -> C605 [] n = 606 -> C606 [] n = 607 -> C607
    [] n = 701 -> C701 [] n = 702 -> C702 [] n = 703 -> C703 [] n = 704 -> C704
    [] n = 705 -> C705 [] n = 706 -> C706 [] n = 707 -> C707 [] n = 708 -> C708
    [] n = 709 -> C709 [] n = 710 -> C710 [] n = 711 -> C711 [] n = 712 -> C712
    [] n = 713 -> C713 [] n = 714 -> C714 [] n = 715 -> C715 [] n = 716 -> C716
    [] n = 717 -> C717 [] n = 718 -> C718 [] n = 719 -> C719 [] n = 720 -> C720
    [] n = 721 -> C721 [] n = 722 -> C722 [] n = 723 -> C723 [] n = 724 -> C724
    [] n = 801 -> C801 [] n = 802 -> C802 [] n = 803 -> C803 [] n = 804 -> C804
    [] n = 805 -> C805 [] n = 806 -> C806 [] n = 807 -> C807 [] n = 808 -> C808
    [] n = 809 -> C809 [] n = 810 -> C810 [] n = 901 -> C901 [] n = 902 -> C902
    [] n = 903 -> C903

Instr(n) ==
  CASE n \in {101, 201, 301, 401} -> <<"read", "gate">>
    [] n \in {102, 114, 213, 254, 715} -> <<"claim", "engine">>
    [] n \in {103, 227, 242} -> <<"do", "nothing", "engine">>
    [] n \in {104, 202, 302, 402, 501} -> <<"do", "look", "none">>
    [] n \in {105, 214, 244} -> <<"do", "find", "none">>
    [] n \in {106, 113, 124, 126, 128, 215, 222, 245, 253, 305, 309, 312, 314, 506, 606, 702, 714, 720, 807} -> <<"read", "slots">>
    [] n \in {107, 216, 246} -> <<"do", "carry", "slots">>
    [] n \in {108, 217, 247, 404, 710} -> <<"claim", "deleted">>
    [] n \in {109, 218, 248} -> <<"do", "bury", "none">>
    [] n \in {110, 219, 249, 322, 706} -> <<"claim", "slots">>
    [] n \in {111, 220, 250} -> <<"do", "push", "slots">>
    [] n \in {112, 221, 251, 307, 406} -> <<"do", "nothing", "deleted">>
    [] n \in {115, 255} -> <<"do", "insert", "engine">>
    [] n \in {116, 127, 129, 132, 256, 313, 315, 705, 717} -> <<"do", "nothing", "slots">>
    [] n = 117 -> <<"do", "moved", "none">>
    [] n \in {118, 122, 211, 243, 318, 320, 408, 718, 722} -> <<"claim", "meta">>
    [] n \in {119, 319, 409} -> <<"do", "unindex", "meta">>
    [] n \in {120, 212, 410, 712} -> <<"claim", "sparse">>
    [] n = 121 -> <<"do", "remap", "sparse">>
    [] n \in {123, 321} -> <<"do", "index", "meta">>
    [] n \in {125, 311, 412, 806} -> <<"claim", "storage">>
    [] n \in {130, 316} -> <<"do", "log", "none">>
    [] n \in {131, 317, 803, 809} -> <<"do", "nothing", "storage">>
    [] n = 203 -> <<"do", "split", "none">>
    [] n \in {204, 802} -> <<"read", "storage">>
    [] n = 205 -> <<"do", "full?", "storage">>
    [] n = 223 -> <<"do", "insert", "slots">>
    [] n = 224 -> <<"do", "unindex", "none">>
    [] n = 225 -> <<"do", "remap", "none">>
    [] n \in {226, 252} -> <<"do", "index", "none">>
    [] n \in {228, 805} -> <<"do", "nothing", "sparse">>
    [] n \in {229, 257} -> <<"do", "nothing", "meta">>
    [] n = 241 -> <<"read", "engine">>
    [] n \in {303, 403, 502, 602} -> <<"do", "known?", "none">>
    [] n \in {304, 503, 603, 703} -> <<"read", "deleted">>
    [] n = 306 -> <<"do", "live?", "slots">>
    [] n \in {308, 407, 505, 605} -> <<"do", "dead?", "none">>
    [] n = 310 -> <<"do", "vector", "slots">>
    [] n = 323 -> <<"do", "rewrite", "slots">>
    [] n = 405 -> <<"do", "delete", "none">>
    [] n = 411 -> <<"do", "drop", "sparse">>
    [] n = 413 -> <<"do", "unlog", "storage">>
    [] n \in {504, 604} -> <<"do", "buried?", "deleted">>
    [] n = 507 -> <<"do", "record", "slots">>
    [] n = 601 -> <<"do", "view", "none">>
    [] n = 607 -> <<"do", "id", "slots">>
    [] n \in {701, 801} -> <<"claim", "gate">>
    [] n = 704 -> <<"do", "pack", "deleted">>
    [] n = 707 -> <<"do", "replace", "slots">>
    [] n = 708 -> <<"do", "clear", "none">>
    [] n = 709 -> <<"do", "fill", "none">>
    [] n = 711 -> <<"do", "exhume", "deleted">>
    [] n = 713 -> <<"do", "renumber", "sparse">>
    [] n = 716 -> <<"do", "rebuild", "engine">>
    [] n = 719 -> <<"do", "forget", "meta">>
    [] n = 721 -> <<"do", "collect", "slots">>
    [] n = 723 -> <<"do", "restore", "meta">>
    [] n \in {724, 810, 901, 903} -> <<"do", "nothing", "gate">>
    [] n = 804 -> <<"read", "sparse">>
    [] n = 808 -> <<"do", "save", "slots">>
    [] n = 902 -> <<"do", "checkpoint?", "none">>

Follow(n) ==
  CASE n = 105 -> 108
    [] n = 117 -> 122
    [] n = 123 -> (IF persistent THEN 124 ELSE 901)
    [] n \in {132, 205, 323, 413} -> 901
    [] n \in {203, 229, 257} -> (IF persistent THEN 204 ELSE 901)
    [] n = 214 -> 217
    [] n = 244 -> 247
    [] n = 310 -> (IF persistent THEN 311 ELSE 318)
    [] n = 411 -> (IF persistent THEN 412 ELSE 901)
    [] n \in {507, 607, 724, 810, 902, 903} -> 0
    [] n = 801 -> (IF persistent THEN 802 ELSE 810)
    [] OTHER -> n + 1
Point == {0} \cup 101..132 \cup 201..205 \cup 211..229 \cup 241..257 \cup 301..323
           \cup 401..413 \cup 501..507 \cup 601..607 \cup 701..724 \cup 801..810 \cup 901..903

-----------------------------------------------------------------------------
\* The locks a thread holds at a point.

GateReading == 102..132 \cup 202..205 \cup 211..229 \cup 241..257 \cup 302..323 \cup 402..413
                 \cup {901, 903}

Shares(n, l) ==
  CASE l = "gate"    -> IF n \in GateReading THEN 1 ELSE 0
    [] l = "deleted" -> IF n \in 305..307 \cup {504, 604, 704} THEN 1 ELSE 0
    [] l = "slots"   -> IF n \in {127, 129} THEN 2
                        ELSE IF n \in {107, 128, 216, 223, 246, 306, 310, 313, 315, 507, 607,
                                       721, 808}
                                      \cup 114..116 \cup 125..126 \cup 130..132 \cup 254..256
                                      \cup 703..705 \cup 715..717
                             THEN 1 ELSE 0
    [] l = "engine"  -> IF n = 242 THEN 1 ELSE 0
    [] l = "meta"    -> 0
    [] l = "sparse"  -> IF n = 805 THEN 1 ELSE 0
    [] l = "storage" -> IF n \in {205, 803} THEN 1 ELSE 0

Owned(l) ==
  CASE l = "gate"    -> 702..724 \cup 802..810
    [] l = "deleted" -> 109..112 \cup 218..221 \cup 248..251 \cup 405..406 \cup {711}
    [] l = "slots"   -> {111, 220, 250, 323, 707}
    [] l = "engine"  -> {103, 115, 255, 716} \cup 214..227
    [] l = "meta"    -> {119, 123, 319, 321, 409, 719, 723} \cup 212..229 \cup 244..257
    [] l = "sparse"  -> {121, 411, 713} \cup 213..228
    [] l = "storage" -> {413} \cup 126..131 \cup 312..317 \cup 807..809

Held(at) ==
  \A t \in Thread, l \in Lock : /\ locks[l].readers[t] = Shares(at[t], l)
                                /\ (locks[l].writer = t <=> at[t] \in Owned(l))

\* A call that rewrites the whole store, or saves it, runs when no other holds the gate.
Excluding == 703..724 \cup 803..809

Alone(at) ==
  \A t, u \in Thread : at[t] \in Excluding => at[u] \notin GateReading

\* Nobody reads the tombstones while a slot is replaced.
Burying == {110, 111, 219, 220, 249, 250}

DeadReading == 305..307 \cup {504, 604, 704}

Sealed(at) ==
  \A t, u \in Thread : at[t] \in Burying => at[u] \notin DeadReading

\* A store in memory has nothing to log or to save.
Persisting == 124..132 \cup 204..205 \cup 311..317 \cup 412..413 \cup 802..809

InMemory(at) == ~persistent => \A t \in Thread : at[t] \notin Persisting

Located(at) == \A t \in Thread : todo[t] = CodeAt(at[t])

Placed(at) == Located(at) /\ Held(at) /\ Alone(at) /\ Sealed(at) /\ InMemory(at)

-----------------------------------------------------------------------------
\* Types.

Call == {"none", "set", "set_batch", "update", "delete", "get", "search", "compact"}

SlotRecord == [id : Id, val : [id : Id, by : Nat], meta : Nat, sparse : BOOLEAN]

Local == [call : Call, id : Id \cup {None}, n : Nat, old : Nat \cup {None}, cur : Nat \cup {None},
          slot : Nat \cup {None}, sparse : BOOLEAN, ok : BOOLEAN, full : BOOLEAN, order : Seq(Nat)]

Stores == [ids : [Id -> Nat \cup {None}], slots : Seq(SlotRecord), dead : SUBSET Nat,
           engine : Seq([id : Id, by : Nat]), meta : SUBSET [slot : Nat, meta : Nat],
           sparse : SUBSET Nat]

Logs == [saved : [Id -> SlotRecord \cup {None}],
         entries : Seq([id : Id, record : SlotRecord \cup {None}]), whole : BOOLEAN]

Typed ==
  /\ locks \in [Lock -> [writer : Thread \cup {None}, readers : [Thread -> Nat]]]
  /\ reg \in [Thread -> Local]
  /\ store \in Stores
  /\ log \in Logs
  /\ calls \in Nat
  /\ todo \in [Thread -> Seq(Instruction)]
  /\ persistent \in BOOLEAN
  /\ raced \in BOOLEAN

-----------------------------------------------------------------------------
\* The local variables of a thread, at its point.

\* Every call has an id, and knows which call it is while it matters.
OfSet == 101..132
OfBatch == 201..257
OfUpdate == 301..323
OfDelete == 401..413

Called(at) ==
  \A t \in Thread :
    /\ at[t] # 0 => reg[t].id \in Id
    /\ at[t] \in OfSet => reg[t].call = "set"
    /\ at[t] \in OfBatch => reg[t].call = "set_batch"
    /\ at[t] \in OfUpdate => reg[t].call = "update"
    /\ at[t] \in OfDelete => reg[t].call = "delete"

\* The slot that a call looked up is, or was, the slot of its id.  An update and a delete
\* go on only if there is one, and set_batch inserts only if there is none.
LookedUp == 105..132 \cup 203..257 \cup 303..323 \cup 403..413
Known == 304..323 \cup 404..413
Unknown == 241..257
InPlace == 303..323
Carrying == {106, 107, 215, 216, 245, 246}

OldFits(at) ==
  \A t \in Thread :
    /\ at[t] \in LookedUp /\ reg[t].old # None =>
         reg[t].old \in DOMAIN store.slots /\ store.slots[reg[t].old].id = reg[t].id
    /\ at[t] \in Known => reg[t].old # None
    /\ at[t] \in Unknown => reg[t].old = None
    /\ at[t] \in InPlace => reg[t].slot = reg[t].old
    /\ at[t] \in Carrying => reg[t].cur \in DOMAIN store.slots

\* Between bury and push the id has no live slot, and after push it has a new one.
AfterPush == 112..132 \cup 221..229 \cup 251..257

Deleted == 406..413

SlotFits(at) ==
  \A t \in Thread :
    /\ at[t] \in Burying /\ store.ids[reg[t].id] # None => store.ids[reg[t].id] \in store.dead
    /\ at[t] \in AfterPush => /\ reg[t].slot \in DOMAIN store.slots
                           /\ store.slots[reg[t].slot].id = reg[t].id
                           /\ (reg[t].old # None => reg[t].old \in store.dead)
    /\ at[t] \in Deleted => reg[t].old \in store.dead

-----------------------------------------------------------------------------
\* The store.

\* In 708 to 711 a compaction has replaced the slots, but not yet the id map and the
\* tombstones, which are gone after that; up to 723 it has not yet restored the metadata
\* index.
Packed == 705..707
Replacing == 708..711
Emptied == {709}
Refilled == 710..711
Exhumed == 712..723
Unindexed == 708..723

NoneAt(at, S) == \A t \in Thread : at[t] \notin S

IdsFit(at) ==
  NoneAt(at, Replacing) =>
    /\ store.dead \subseteq DOMAIN store.slots
    /\ \A i \in Id : store.ids[i] # None =>
         /\ store.ids[i] \in DOMAIN store.slots
         /\ store.slots[store.ids[i]].id = i
         /\ (store.ids[i] \in store.dead => \E t \in Thread : at[t] \in Burying /\ reg[t].id = i)
    /\ \A n \in LiveIn(store) : store.ids[store.slots[n].id] = n

Inserting == 112..115 \cup 221..223 \cup 251..255

InEngine(at) ==
  NoneAt(at, Replacing) =>
    \A n \in LiveIn(store) :
      \/ store.slots[n].val \in ToSet(store.engine)
      \/ \E t \in Thread : at[t] \in Inserting /\ reg[t].slot = n

Indexing == 112..123 \cup 221..226 \cup 251..252 \cup 320..321

HasMeta(n) == \E m \in store.meta : m.slot = n

Indexed(at) ==
  NoneAt(at, Unindexed) =>
    \A n \in LiveIn(store) :
      HasMeta(n) \/ \E t \in Thread : at[t] \in Indexing /\ reg[t].slot = n

\* What a compaction has to go by.
Compacting(at) ==
  \A t \in Thread :
    /\ at[t] \in Packed => reg[t].order = LiveSeq(store)
    /\ at[t] \in Replacing =>
         /\ \A m, n \in DOMAIN store.slots : store.slots[m].id = store.slots[n].id => m = n
         /\ \A n \in DOMAIN store.slots : store.slots[n].val \in ToSet(store.engine)
    /\ at[t] \in Emptied => \A i \in Id : store.ids[i] = None
    /\ at[t] \in Refilled =>
         /\ \A i \in Id : store.ids[i] # None =>
              store.ids[i] \in DOMAIN store.slots /\ store.slots[store.ids[i]].id = i
         /\ \A n \in DOMAIN store.slots : store.ids[store.slots[n].id] = n
    /\ at[t] \in Exhumed => store.dead = {}

-----------------------------------------------------------------------------
\* What holds as long as no two calls wrote one id at a time.

\* No two calls write one id now.
Apart(at) ==
  \A t, u \in Thread :
    t # u /\ at[t] # 0 /\ at[u] # 0 /\ Writes(reg[t].call) /\ Writes(reg[u].call)
      => reg[t].id # reg[u].id

\* So that the id map has for an id what the one call that writes it found or put there,
\* and a delete finds its record live.
Finding == {203} \cup 105..111 \cup 211..220 \cup 241..250 \cup 303..323 \cup 403..405

Deciding == 406..407

Sole(at) ==
  \A t \in Thread :
    /\ at[t] \in Finding =>
         store.ids[reg[t].id] = reg[t].old
    /\ at[t] \in Carrying => reg[t].cur = reg[t].old
    /\ at[t] \in AfterPush => /\ store.ids[reg[t].id] = reg[t].slot
                              /\ store.slots[reg[t].slot].meta = reg[t].n
    /\ at[t] \in Deleted => store.ids[reg[t].id] = None
    /\ at[t] \in Deciding => reg[t].ok

Plain == 101..107 \cup 201..203 \cup 211..216 \cup 241..246
Laden == 108..111 \cup 217..220 \cup 247..250
Landed == 112..121 \cup 221..225 \cup 251..257
Relocating == 110..121 \cup 219..225

CarriesSparse(r) == r.sparse = (r.old # None /\ store.slots[r.old].sparse)

\* A new slot has the sparse vector of the old one, which stays in the index until the
\* new one takes its place.
Carried(at) ==
  \A t \in Thread :
    /\ at[t] \in Plain => ~reg[t].sparse
    /\ at[t] \in Laden => CarriesSparse(reg[t])
    /\ at[t] \in Landed =>
         store.slots[reg[t].slot].sparse =
           (reg[t].old # None /\ store.slots[reg[t].old].sparse)
    /\ at[t] \in Relocating /\ reg[t].old # None =>
         (store.slots[reg[t].old].sparse => reg[t].old \in store.sparse)

\* The metadata index has what the live slots have, but for the entries of an old slot
\* that its call is about to remove, and for the entry an update has put there first.
Unindexing == 110..119 \cup 219..224 \cup 406..409
Rewriting == 322..323

MetaExact(at) ==
  NoneAt(at, Unindexed) =>
    /\ \A m \in store.meta :
         /\ m.slot \in DOMAIN store.slots
         /\ m.slot \in store.dead =>
              \E t \in Thread : at[t] \in Unindexing /\ reg[t].old = m.slot
         /\ m.slot \notin store.dead =>
              \/ m.meta = store.slots[m.slot].meta
              \/ \E t \in Thread : at[t] \in Rewriting /\ reg[t].old = m.slot /\ reg[t].n = m.meta
    /\ \A n \in LiveIn(store) :
         \/ [slot |-> n, meta |-> store.slots[n].meta] \in store.meta
         \/ \E t \in Thread : at[t] \in Indexing \cup Rewriting /\ reg[t].slot = n
    /\ \A t \in Thread : at[t] \in Rewriting =>
         [slot |-> reg[t].old, meta |-> reg[t].n] \in store.meta
    /\ \A t \in Thread : at[t] \in Rewriting =>
         \A m \in store.meta : m.slot = reg[t].old => m.meta = reg[t].n
    /\ \A t \in Thread : at[t] \in Indexing =>
         \A m \in store.meta : m.slot # reg[t].slot

Dropping == 110..121 \cup 219..225 \cup 406..411
Placing == 112..121 \cup 221..225
Renumbering == 708..713

SparseExact(at) ==
  /\ NoneAt(at, Renumbering) =>
       /\ \A n \in store.sparse :
            /\ n \in DOMAIN store.slots /\ store.slots[n].sparse
            /\ n \in store.dead => \E t \in Thread : at[t] \in Dropping /\ reg[t].old = n
       /\ \A n \in LiveIn(store) : store.slots[n].sparse =>
            \/ n \in store.sparse
            \/ \E t \in Thread : at[t] \in Placing /\ reg[t].slot = n
  /\ \A t \in Thread : at[t] \in Renumbering =>
       /\ DOMAIN reg[t].order = DOMAIN store.slots
       /\ \A n \in DOMAIN store.slots : reg[t].order[n] \in store.sparse <=> store.slots[n].sparse

\* The log gives the records of memory, but for those of calls between the change and
\* its log entry.
Unlogged == 112..130 \cup 317..323 \cup 406..413
LoggedFirst == 317..323
Cleared == 708..709

LogExact(at) ==
  persistent /\ log.whole =>
    /\ NoneAt(at, Cleared) =>
         \A i \in Id : \/ Replayed[i] = RecordAt(store, i)
                       \/ \E t \in Thread : at[t] \in Unlogged /\ reg[t].id = i
    /\ \A t \in Thread : at[t] \in LoggedFirst =>
         Replayed[reg[t].id] = [store.slots[reg[t].old] EXCEPT !.meta = reg[t].n]
    /\ \A t \in Thread : at[t] \in Cleared =>
         /\ \A n \in DOMAIN store.slots : Replayed[store.slots[n].id] = store.slots[n]
         /\ \A i \in Id : (\A n \in DOMAIN store.slots : store.slots[n].id # i) => Replayed[i] = None

Unraced(at) == Apart(at) /\ Sole(at) /\ Carried(at) /\ MetaExact(at) /\ SparseExact(at)
                 /\ LogExact(at)

-----------------------------------------------------------------------------
\* The invariant.

Consistent(at) == Called(at) /\ OldFits(at) /\ SlotFits(at) /\ IdsFit(at) /\ InEngine(at)
                    /\ Indexed(at) /\ Compacting(at)

Fits(at) == Placed(at) /\ Consistent(at) /\ (~raced => Unraced(at))

IInv == Typed /\ \E at \in [Thread -> Point] : Fits(at)

-----------------------------------------------------------------------------
(* The points of the calls: every list of instructions that a call leaves  *)
(* to do is the one of a point.                                            *)

\* The list at each point is its instruction, and the list at the point that follows.
LEMMA SetPoints ==
  /\ CodeAt(101) = C101 /\ CodeAt(102) = C102 /\ CodeAt(103) = C103
  /\ CodeAt(104) = C104 /\ CodeAt(105) = C105 /\ CodeAt(106) = C106
  /\ CodeAt(107) = C107 /\ CodeAt(108) = C108 /\ CodeAt(109) = C109
  /\ CodeAt(110) = C110 /\ CodeAt(111) = C111 /\ CodeAt(112) = C112
  /\ CodeAt(113) = C113 /\ CodeAt(114) = C114 /\ CodeAt(115) = C115
  /\ CodeAt(116) = C116 /\ CodeAt(117) = C117 /\ CodeAt(118) = C118
  /\ CodeAt(119) = C119 /\ CodeAt(120) = C120 /\ CodeAt(121) = C121
  /\ CodeAt(122) = C122 /\ CodeAt(123) = C123 /\ CodeAt(124) = C124
  /\ CodeAt(125) = C125 /\ CodeAt(126) = C126 /\ CodeAt(127) = C127
  /\ CodeAt(128) = C128 /\ CodeAt(129) = C129 /\ CodeAt(130) = C130
  /\ CodeAt(131) = C131 /\ CodeAt(132) = C132 /\ CodeAt(901) = C901
  BY DEF CodeAt

LEMMA SetFlow ==
  \A n \in 101..132 : CodeAt(n) = Then(Instr(n), CodeAt(Follow(n)))
<1>1. /\ C101 = Then(Instr(101), C102)
      /\ C102 = Then(Instr(102), C103)
      /\ C103 = Then(Instr(103), C104)
      /\ C104 = Then(Instr(104), C105)
      /\ C105 = Then(Instr(105), C108)
      /\ C106 = Then(Instr(106), C107)
      /\ C107 = Then(Instr(107), C108)
      /\ C108 = Then(Instr(108), C109)
      /\ C109 = Then(Instr(109), C110)
      /\ C110 = Then(Instr(110), C111)
      /\ C111 = Then(Instr(111), C112)
      /\ C112 = Then(Instr(112), C113)
      /\ C113 = Then(Instr(113), C114)
      /\ C114 = Then(Instr(114), C115)
      /\ C115 = Then(Instr(115), C116)
      /\ C116 = Then(Instr(116), C117)
      /\ C117 = Then(Instr(117), C122)
      /\ C118 = Then(Instr(118), C119)
      /\ C119 = Then(Instr(119), C120)
      /\ C120 = Then(Instr(120), C121)
      /\ C121 = Then(Instr(121), C122)
      /\ C122 = Then(Instr(122), C123)
      /\ C123 = Then(Instr(123), IF persistent THEN C124 ELSE C901)
      /\ C124 = Then(Instr(124), C125)
      /\ C125 = Then(Instr(125), C126)
      /\ C126 = Then(Instr(126), C127)
      /\ C127 = Then(Instr(127), C128)
      /\ C128 = Then(Instr(128), C129)
      /\ C129 = Then(Instr(129), C130)
      /\ C130 = Then(Instr(130), C131)
      /\ C131 = Then(Instr(131), C132)
      /\ C132 = Then(Instr(132), C901)
  BY DEF Instr, C101, C102, C103, C104, C105, C106, C107, C108, C109, C110, C111, C112,
         C113, C114, C115, C116, C117, C118, C119, C120, C121, C122, C123, C124, C125,
         C126, C127, C128, C129, C130, C131, C132
<1> QED
  BY SetPoints, <1>1 DEF Follow

LEMMA BatchPoints ==
  /\ CodeAt(201) = C201 /\ CodeAt(202) = C202 /\ CodeAt(203) = C203
  /\ CodeAt(204) = C204 /\ CodeAt(205) = C205 /\ CodeAt(211) = C211
  /\ CodeAt(212) = C212 /\ CodeAt(213) = C213 /\ CodeAt(214) = C214
  /\ CodeAt(215) = C215 /\ CodeAt(216) = C216 /\ CodeAt(217) = C217
  /\ CodeAt(218) = C218 /\ CodeAt(219) = C219 /\ CodeAt(220) = C220
  /\ CodeAt(221) = C221 /\ CodeAt(222) = C222 /\ CodeAt(223) = C223
  /\ CodeAt(224) = C224 /\ CodeAt(225) = C225 /\ CodeAt(226) = C226
  /\ CodeAt(227) = C227 /\ CodeAt(228) = C228 /\ CodeAt(229) = C229
  /\ CodeAt(241) = C241 /\ CodeAt(242) = C242 /\ CodeAt(243) = C243
  /\ CodeAt(244) = C244 /\ CodeAt(245) = C245 /\ CodeAt(246) = C246
  /\ CodeAt(247) = C247 /\ CodeAt(248) = C248 /\ CodeAt(249) = C249
  /\ CodeAt(250) = C250 /\ CodeAt(251) = C251 /\ CodeAt(252) = C252
  /\ CodeAt(253) = C253 /\ CodeAt(254) = C254 /\ CodeAt(255) = C255
  /\ CodeAt(256) = C256 /\ CodeAt(257) = C257 /\ CodeAt(901) = C901
  BY DEF CodeAt

LEMMA BatchFlow ==
  \A n \in 201..205 \cup 211..229 \cup 241..257 : CodeAt(n) = Then(Instr(n), CodeAt(Follow(n)))
<1>1. /\ C201 = Then(Instr(201), C202)
      /\ C202 = Then(Instr(202), C203)
      /\ C203 = Then(Instr(203), IF persistent THEN C204 ELSE C901)
      /\ C204 = Then(Instr(204), C205)
      /\ C205 = Then(Instr(205), C901)
      /\ C211 = Then(Instr(211), C212)
      /\ C212 = Then(Instr(212), C213)
      /\ C213 = Then(Instr(213), C214)
      /\ C214 = Then(Instr(214), C217)
      /\ C215 = Then(Instr(215), C216)
      /\ C216 = Then(Instr(216), C217)
      /\ C217 = Then(Instr(217), C218)
      /\ C218 = Then(Instr(218), C219)
      /\ C219 = Then(Instr(219), C220)
      /\ C220 = Then(Instr(220), C221)
      /\ C221 = Then(Instr(221), C222)
      /\ C222 = Then(Instr(222), C223)
      /\ C223 = Then(Instr(223), C224)
      /\ C224 = Then(Instr(224), C225)
      /\ C225 = Then(Instr(225), C226)
      /\ C226 = Then(Instr(226), C227)
      /\ C227 = Then(Instr(227), C228)
      /\ C228 = Then(Instr(228), C229)
      /\ C229 = Then(Instr(229), IF persistent THEN C204 ELSE C901)
      /\ C241 = Then(Instr(241), C242)
      /\ C242 = Then(Instr(242), C243)
      /\ C243 = Then(Instr(243), C244)
      /\ C244 = Then(Instr(244), C247)
      /\ C245 = Then(Instr(245), C246)
      /\ C246 = Then(Instr(246), C247)
      /\ C247 = Then(Instr(247), C248)
      /\ C248 = Then(Instr(248), C249)
      /\ C249 = Then(Instr(249), C250)
      /\ C250 = Then(Instr(250), C251)
      /\ C251 = Then(Instr(251), C252)
      /\ C252 = Then(Instr(252), C253)
      /\ C253 = Then(Instr(253), C254)
      /\ C254 = Then(Instr(254), C255)
      /\ C255 = Then(Instr(255), C256)
      /\ C256 = Then(Instr(256), C257)
      /\ C257 = Then(Instr(257), IF persistent THEN C204 ELSE C901)
  BY DEF Instr, C201, C202, C203, C204, C205, C211, C212, C213, C214, C215, C216, C217,
         C218, C219, C220, C221, C222, C223, C224, C225, C226, C227, C228, C229, C241,
         C242, C243, C244, C245, C246, C247, C248, C249, C250, C251, C252, C253, C254,
         C255, C256, C257
<1> QED
  BY BatchPoints, <1>1 DEF Follow

LEMMA UpdatePoints ==
  /\ CodeAt(301) = C301 /\ CodeAt(302) = C302 /\ CodeAt(303) = C303
  /\ CodeAt(304) = C304 /\ CodeAt(305) = C305 /\ CodeAt(306) = C306
  /\ CodeAt(307) = C307 /\ CodeAt(308) = C308 /\ CodeAt(309) = C309
  /\ CodeAt(310) = C310 /\ CodeAt(311) = C311 /\ CodeAt(312) = C312
  /\ CodeAt(313) = C313 /\ CodeAt(314) = C314 /\ CodeAt(315) = C315
  /\ CodeAt(316) = C316 /\ CodeAt(317) = C317 /\ CodeAt(318) = C318
  /\ CodeAt(319) = C319 /\ CodeAt(320) = C320 /\ CodeAt(321) = C321
  /\ CodeAt(322) = C322 /\ CodeAt(323) = C323 /\ CodeAt(901) = C901
  BY DEF CodeAt

LEMMA UpdateFlow ==
  \A n \in 301..323 : CodeAt(n) = Then(Instr(n), CodeAt(Follow(n)))
<1>1. /\ C301 = Then(Instr(301), C302)
      /\ C302 = Then(Instr(302), C303)
      /\ C303 = Then(Instr(303), C304)
      /\ C304 = Then(Instr(304), C305)
      /\ C305 = Then(Instr(305), C306)
      /\ C306 = Then(Instr(306), C307)
      /\ C307 = Then(Instr(307), C308)
      /\ C308 = Then(Instr(308), C309)
      /\ C309 = Then(Instr(309), C310)
      /\ C310 = Then(Instr(310), IF persistent THEN C311 ELSE C318)
      /\ C311 = Then(Instr(311), C312)
      /\ C312 = Then(Instr(312), C313)
      /\ C313 = Then(Instr(313), C314)
      /\ C314 = Then(Instr(314), C315)
      /\ C315 = Then(Instr(315), C316)
      /\ C316 = Then(Instr(316), C317)
      /\ C317 = Then(Instr(317), C318)
      /\ C318 = Then(Instr(318), C319)
      /\ C319 = Then(Instr(319), C320)
      /\ C320 = Then(Instr(320), C321)
      /\ C321 = Then(Instr(321), C322)
      /\ C322 = Then(Instr(322), C323)
      /\ C323 = Then(Instr(323), C901)
  BY DEF Instr, C301, C302, C303, C304, C305, C306, C307, C308, C309, C310, C311, C312,
         C313, C314, C315, C316, C317, C318, C319, C320, C321, C322, C323
<1> QED
  BY UpdatePoints, <1>1 DEF Follow

LEMMA DeletePoints ==
  /\ CodeAt(401) = C401 /\ CodeAt(402) = C402 /\ CodeAt(403) = C403
  /\ CodeAt(404) = C404 /\ CodeAt(405) = C405 /\ CodeAt(406) = C406
  /\ CodeAt(407) = C407 /\ CodeAt(408) = C408 /\ CodeAt(409) = C409
  /\ CodeAt(410) = C410 /\ CodeAt(411) = C411 /\ CodeAt(412) = C412
  /\ CodeAt(413) = C413 /\ CodeAt(901) = C901
  BY DEF CodeAt

LEMMA DeleteFlow ==
  \A n \in 401..413 : CodeAt(n) = Then(Instr(n), CodeAt(Follow(n)))
<1>1. /\ C401 = Then(Instr(401), C402)
      /\ C402 = Then(Instr(402), C403)
      /\ C403 = Then(Instr(403), C404)
      /\ C404 = Then(Instr(404), C405)
      /\ C405 = Then(Instr(405), C406)
      /\ C406 = Then(Instr(406), C407)
      /\ C407 = Then(Instr(407), C408)
      /\ C408 = Then(Instr(408), C409)
      /\ C409 = Then(Instr(409), C410)
      /\ C410 = Then(Instr(410), C411)
      /\ C411 = Then(Instr(411), IF persistent THEN C412 ELSE C901)
      /\ C412 = Then(Instr(412), C413)
      /\ C413 = Then(Instr(413), C901)
  BY DEF Instr, C401, C402, C403, C404, C405, C406, C407, C408, C409, C410, C411, C412,
         C413
<1> QED
  BY DeletePoints, <1>1 DEF Follow

LEMMA ReadsPoints ==
  /\ CodeAt(0) = C0 /\ CodeAt(501) = C501 /\ CodeAt(502) = C502
  /\ CodeAt(503) = C503 /\ CodeAt(504) = C504 /\ CodeAt(505) = C505
  /\ CodeAt(506) = C506 /\ CodeAt(507) = C507 /\ CodeAt(601) = C601
  /\ CodeAt(602) = C602 /\ CodeAt(603) = C603 /\ CodeAt(604) = C604
  /\ CodeAt(605) = C605 /\ CodeAt(606) = C606 /\ CodeAt(607) = C607
  BY DEF CodeAt

LEMMA ReadsFlow ==
  \A n \in 501..507 \cup 601..607 : CodeAt(n) = Then(Instr(n), CodeAt(Follow(n)))
<1>1. /\ C501 = Then(Instr(501), C502)
      /\ C502 = Then(Instr(502), C503)
      /\ C503 = Then(Instr(503), C504)
      /\ C504 = Then(Instr(504), C505)
      /\ C505 = Then(Instr(505), C506)
      /\ C506 = Then(Instr(506), C507)
      /\ C507 = Then(Instr(507), C0)
      /\ C601 = Then(Instr(601), C602)
      /\ C602 = Then(Instr(602), C603)
      /\ C603 = Then(Instr(603), C604)
      /\ C604 = Then(Instr(604), C605)
      /\ C605 = Then(Instr(605), C606)
      /\ C606 = Then(Instr(606), C607)
      /\ C607 = Then(Instr(607), C0)
  BY DEF Instr, C501, C502, C503, C504, C505, C506, C507, C601, C602, C603, C604, C605,
         C606, C607
<1> QED
  BY ReadsPoints, <1>1 DEF Follow

LEMMA CompactPoints ==
  /\ CodeAt(0) = C0 /\ CodeAt(701) = C701 /\ CodeAt(702) = C702
  /\ CodeAt(703) = C703 /\ CodeAt(704) = C704 /\ CodeAt(705) = C705
  /\ CodeAt(706) = C706 /\ CodeAt(707) = C707 /\ CodeAt(708) = C708
  /\ CodeAt(709) = C709 /\ CodeAt(710) = C710 /\ CodeAt(711) = C711
  /\ CodeAt(712) = C712 /\ CodeAt(713) = C713 /\ CodeAt(714) = C714
  /\ CodeAt(715) = C715 /\ CodeAt(716) = C716 /\ CodeAt(717) = C717
  /\ CodeAt(718) = C718 /\ CodeAt(719) = C719 /\ CodeAt(720) = C720
  /\ CodeAt(721) = C721 /\ CodeAt(722) = C722 /\ CodeAt(723) = C723
  /\ CodeAt(724) = C724
  BY DEF CodeAt

LEMMA CompactFlow ==
  \A n \in 701..724 : CodeAt(n) = Then(Instr(n), CodeAt(Follow(n)))
<1>1. /\ C701 = Then(Instr(701), C702)
      /\ C702 = Then(Instr(702), C703)
      /\ C703 = Then(Instr(703), C704)
      /\ C704 = Then(Instr(704), C705)
      /\ C705 = Then(Instr(705), C706)
      /\ C706 = Then(Instr(706), C707)
      /\ C707 = Then(Instr(707), C708)
      /\ C708 = Then(Instr(708), C709)
      /\ C709 = Then(Instr(709), C710)
      /\ C710 = Then(Instr(710), C711)
      /\ C711 = Then(Instr(711), C712)
      /\ C712 = Then(Instr(712), C713)
      /\ C713 = Then(Instr(713), C714)
      /\ C714 = Then(Instr(714), C715)
      /\ C715 = Then(Instr(715), C716)
      /\ C716 = Then(Instr(716), C717)
      /\ C717 = Then(Instr(717), C718)
      /\ C718 = Then(Instr(718), C719)
      /\ C719 = Then(Instr(719), C720)
      /\ C720 = Then(Instr(720), C721)
      /\ C721 = Then(Instr(721), C722)
      /\ C722 = Then(Instr(722), C723)
      /\ C723 = Then(Instr(723), C724)
      /\ C724 = Then(Instr(724), C0)
  BY DEF Instr, C701, C702, C703, C704, C705, C706, C707, C708, C709, C710, C711, C712,
         C713, C714, C715, C716, C717, C718, C719, C720, C721, C722, C723, C724
<1> QED
  BY CompactPoints, <1>1 DEF Follow

LEMMA EndsPoints ==
  /\ CodeAt(0) = C0 /\ CodeAt(801) = C801 /\ CodeAt(802) = C802
  /\ CodeAt(803) = C803 /\ CodeAt(804) = C804 /\ CodeAt(805) = C805
  /\ CodeAt(806) = C806 /\ CodeAt(807) = C807 /\ CodeAt(808) = C808
  /\ CodeAt(809) = C809 /\ CodeAt(810) = C810 /\ CodeAt(901) = C901
  /\ CodeAt(902) = C902 /\ CodeAt(903) = C903
  BY DEF CodeAt

LEMMA EndsFlow ==
  \A n \in 801..810 \cup 901..903 : CodeAt(n) = Then(Instr(n), CodeAt(Follow(n)))
<1>1. /\ C801 = Then(Instr(801), IF persistent THEN C802 ELSE C810)
      /\ C802 = Then(Instr(802), C803)
      /\ C803 = Then(Instr(803), C804)
      /\ C804 = Then(Instr(804), C805)
      /\ C805 = Then(Instr(805), C806)
      /\ C806 = Then(Instr(806), C807)
      /\ C807 = Then(Instr(807), C808)
      /\ C808 = Then(Instr(808), C809)
      /\ C809 = Then(Instr(809), C810)
      /\ C810 = Then(Instr(810), C0)
      /\ C901 = Then(Instr(901), C902)
      /\ C902 = Then(Instr(902), C0)
      /\ C903 = Then(Instr(903), C0)
  BY DEF Instr, C801, C802, C803, C804, C805, C806, C807, C808, C809, C810, C901, C902,
         C903
<1> QED
  BY EndsPoints, <1>1 DEF Follow

\* From each point it goes on at the point that follows.
LEMMA Flow ==
  ASSUME NEW n \in Point, n # 0
  PROVE  CodeAt(n) = Then(Instr(n), CodeAt(Follow(n))) /\ Follow(n) \in Point
<1>1. Follow(n) \in Point
  BY DEF Follow, Point
<1> QED
  BY <1>1, SetFlow, BatchFlow, UpdateFlow, DeleteFlow, ReadsFlow, CompactFlow, EndsFlow DEF Point

\* All are lists of instructions.
LEMMA ThenTyped ==
  ASSUME NEW i \in Instruction, NEW s \in Seq(Instruction)
  PROVE  Then(i, s) \in Seq(Instruction)
  BY DEF Then

LEMMA InstructionTypes ==
  /\ \A l \in Lock : /\ <<"read", l>> \in Instruction /\ <<"claim", l>> \in Instruction
                     /\ \A name \in Name : <<"do", name, l>> \in Instruction
  /\ \A name \in Name : <<"do", name, "none">> \in Instruction
  BY SMTT(30) DEF Instruction

LEMMA InstrTyped ==
  ASSUME NEW n \in Point, n # 0
  PROVE  Instr(n) \in Instruction
<1>1. {<<"read", "gate">>, <<"claim", "engine">>, <<"do", "nothing", "engine">>,
       <<"do", "look", "none">>, <<"do", "find", "none">>, <<"read", "slots">>,
       <<"do", "carry", "slots">>, <<"claim", "deleted">>, <<"do", "bury", "none">>,
       <<"claim", "slots">>, <<"do", "push", "slots">>, <<"do", "nothing", "deleted">>,
       <<"do", "insert", "engine">>, <<"do", "nothing", "slots">>,
       <<"do", "moved", "none">>, <<"claim", "meta">>, <<"do", "unindex", "meta">>,
       <<"claim", "sparse">>, <<"do", "remap", "sparse">>, <<"do", "index", "meta">>,
       <<"claim", "storage">>, <<"do", "log", "none">>, <<"do", "nothing", "storage">>,
       <<"do", "split", "none">>, <<"read", "storage">>, <<"do", "full?", "storage">>,
       <<"do", "insert", "slots">>, <<"do", "unindex", "none">>,
       <<"do", "remap", "none">>, <<"do", "index", "none">>,
       <<"do", "nothing", "sparse">>, <<"do", "nothing", "meta">>, <<"read", "engine">>,
       <<"do", "known?", "none">>, <<"read", "deleted">>, <<"do", "live?", "slots">>,
       <<"do", "dead?", "none">>, <<"do", "vector", "slots">>,
       <<"do", "rewrite", "slots">>, <<"do", "delete", "none">>,
       <<"do", "drop", "sparse">>, <<"do", "unlog", "storage">>,
       <<"do", "buried?", "deleted">>, <<"do", "record", "slots">>,
       <<"do", "view", "none">>, <<"do", "id", "slots">>, <<"claim", "gate">>,
       <<"do", "pack", "deleted">>, <<"do", "replace", "slots">>,
       <<"do", "clear", "none">>, <<"do", "fill", "none">>,
       <<"do", "exhume", "deleted">>, <<"do", "renumber", "sparse">>,
       <<"do", "rebuild", "engine">>, <<"do", "forget", "meta">>,
       <<"do", "collect", "slots">>, <<"do", "restore", "meta">>,
       <<"do", "nothing", "gate">>, <<"read", "sparse">>, <<"do", "save", "slots">>,
       <<"do", "checkpoint?", "none">>} \subseteq Instruction
  BY InstructionTypes DEF Name, Lock
<1> QED
  BY <1>1 DEF Instr, Point

\* A set that has every number of an interval after which it has the rest has them all.
Closed(a, b, T) == \A n \in a..b : (\A m \in n + 1..b : m \in T) => n \in T

LEMMA Backwards ==
  ASSUME NEW a \in Nat, NEW b \in Nat, a <= b, NEW T, Closed(a, b, T)
  PROVE  \A n \in a..b : n \in T
<1> DEFINE Good == {k \in 0..b - a : \A m \in b - k..b : m \in T}
<1>1. 0 \in Good
  <2>1. b \in T
    BY DEF Closed
  <2> QED
    BY <2>1
<1>2. ASSUME NEW k \in 1..b - a, k - 1 \in Good PROVE k \in Good
  <2>1. b - k \in a..b /\ \A m \in (b - k) + 1..b : m \in T
    BY <1>2
  <2>2. b - k \in T
    BY <2>1 DEF Closed
  <2> QED
    BY <2>1, <2>2
<1>3. b - a \in Nat /\ b - a \in 0..b - a
  OBVIOUS
<1>4. \A k \in 0..b - a : k \in Good
  <2> HIDE DEF Good
  <2> QED
    BY <1>1, <1>2, <1>3, IntervalInduction
<1>5. b - (b - a) = a
  OBVIOUS
<1> QED
  BY <1>3, <1>4, <1>5

LEMMA CodeTyped ==
  ASSUME NEW n \in Point
  PROVE  CodeAt(n) \in Seq(Instruction)
<1> DEFINE T == {k \in Point : CodeAt(k) \in Seq(Instruction)}
<1>1. \A k \in Point \ {0} : Follow(k) \in T => k \in T
  BY Flow, InstrTyped, ThenTyped
<1>2. 0 \in T
  <2>1. CodeAt(0) = C0
    BY DEF CodeAt
  <2> QED
    <3>1. C0 \in Seq(Instruction)
      BY DEF C0
    <3> QED
      BY <2>1, <3>1 DEF Point
<1> HIDE DEF T
<1>3. \A j \in 901..903 : j \in T
  <2>1. \A k \in 901..903 : k \in Point \ {0} /\ Follow(k) \in {0} \cup (k + 1..903)
    BY DEF Point, Follow
  <2>2. 0 \in T
    BY <1>2
  <2>3. Closed(901, 903, T)
    <3> SUFFICES ASSUME NEW k \in 901..903, \A m \in k + 1..903 : m \in T PROVE k \in T
      BY DEF Closed
    <3>1. Follow(k) \in T
      BY <2>1, <2>2
    <3> QED
      BY <1>1, <2>1, <3>1
  <2>4. 901 \in Nat /\ 903 \in Nat /\ 901 <= 903
    OBVIOUS
  <2> QED
    BY <2>3, <2>4, Backwards
<1>4. \A j \in 801..810 : j \in T
  <2>1. \A k \in 801..810 : k \in Point \ {0} /\ Follow(k) \in {0, 901} \cup (k + 1..810)
    BY DEF Point, Follow
  <2>2. 0 \in T /\ 901 \in T
    BY <1>2, <1>3
  <2>3. Closed(801, 810, T)
    <3> SUFFICES ASSUME NEW k \in 801..810, \A m \in k + 1..810 : m \in T PROVE k \in T
      BY ZenonT(60) DEF Closed
    <3>1. Follow(k) \in T
      BY <2>1, <2>2
    <3> QED
      BY <1>1, <2>1, <3>1
  <2>4. 801 \in Nat /\ 810 \in Nat /\ 801 <= 810
    OBVIOUS
  <2> QED
    BY <2>3, <2>4, Backwards
<1>5. \A j \in 101..132 : j \in T
  <2>1. \A k \in 101..132 : k \in Point \ {0} /\ Follow(k) \in {0, 901} \cup (k + 1..132)
    BY DEF Point, Follow
  <2>2. 0 \in T /\ 901 \in T
    BY <1>2, <1>3
  <2>3. Closed(101, 132, T)
    <3> SUFFICES ASSUME NEW k \in 101..132, \A m \in k + 1..132 : m \in T PROVE k \in T
      BY DEF Closed
    <3>1. Follow(k) \in T
      BY <2>1, <2>2
    <3> QED
      BY <1>1, <2>1, <3>1
  <2>4. 101 \in Nat /\ 132 \in Nat /\ 101 <= 132
    OBVIOUS
  <2> QED
    BY <2>3, <2>4, Backwards
<1>6. \A j \in 204..205 : j \in T
  <2>1. \A k \in 204..205 : k \in Point \ {0} /\ Follow(k) \in {0, 901} \cup (k + 1..205)
    BY DEF Point, Follow
  <2>2. 0 \in T /\ 901 \in T
    BY <1>2, <1>3
  <2>3. Closed(204, 205, T)
    <3> SUFFICES ASSUME NEW k \in 204..205, \A m \in k + 1..205 : m \in T PROVE k \in T
      BY DEF Closed
    <3>1. Follow(k) \in T
      BY <2>1, <2>2
    <3> QED
      BY <1>1, <2>1, <3>1
  <2>4. 204 \in Nat /\ 205 \in Nat /\ 204 <= 205
    OBVIOUS
  <2> QED
    BY <2>3, <2>4, Backwards
<1>7. \A j \in 201..203 : j \in T
  <2>1. \A k \in 201..203 : k \in Point \ {0} /\ Follow(k) \in {0, 204, 901} \cup (k + 1..203)
    BY DEF Point, Follow
  <2>2. 0 \in T /\ 901 \in T /\ 204 \in T
    BY <1>2, <1>3, <1>6
  <2>3. Closed(201, 203, T)
    <3> SUFFICES ASSUME NEW k \in 201..203, \A m \in k + 1..203 : m \in T PROVE k \in T
      BY DEF Closed
    <3>1. Follow(k) \in T
      BY <2>1, <2>2
    <3> QED
      BY <1>1, <2>1, <3>1
  <2>4. 201 \in Nat /\ 203 \in Nat /\ 201 <= 203
    OBVIOUS
  <2> QED
    BY <2>3, <2>4, Backwards
<1>8. \A j \in 211..229 : j \in T
  <2>1. \A k \in 211..229 : k \in Point \ {0} /\ Follow(k) \in {0, 204, 901} \cup (k + 1..229)
    BY DEF Point, Follow
  <2>2. 0 \in T /\ 901 \in T /\ 204 \in T
    BY <1>2, <1>3, <1>6
  <2>3. Closed(211, 229, T)
    <3> SUFFICES ASSUME NEW k \in 211..229, \A m \in k + 1..229 : m \in T PROVE k \in T
      BY DEF Closed
    <3>1. Follow(k) \in T
      BY <2>1, <2>2
    <3> QED
      BY <1>1, <2>1, <3>1
  <2>4. 211 \in Nat /\ 229 \in Nat /\ 211 <= 229
    OBVIOUS
  <2> QED
    BY <2>3, <2>4, Backwards
<1>9. \A j \in 241..257 : j \in T
  <2>1. \A k \in 241..257 : k \in Point \ {0} /\ Follow(k) \in {0, 204, 901} \cup (k + 1..257)
    BY DEF Point, Follow
  <2>2. 0 \in T /\ 901 \in T /\ 204 \in T
    BY <1>2, <1>3, <1>6
  <2>3. Closed(241, 257, T)
    <3> SUFFICES ASSUME NEW k \in 241..257, \A m \in k + 1..257 : m \in T PROVE k \in T
      BY DEF Closed
    <3>1. Follow(k) \in T
      BY <2>1, <2>2
    <3> QED
      BY <1>1, <2>1, <3>1
  <2>4. 241 \in Nat /\ 257 \in Nat /\ 241 <= 257
    OBVIOUS
  <2> QED
    BY <2>3, <2>4, Backwards
<1>10. \A j \in 301..323 : j \in T
  <2>1. \A k \in 301..323 : k \in Point \ {0} /\ Follow(k) \in {0, 901} \cup (k + 1..323)
    BY DEF Point, Follow
  <2>2. 0 \in T /\ 901 \in T
    BY <1>2, <1>3
  <2>3. Closed(301, 323, T)
    <3> SUFFICES ASSUME NEW k \in 301..323, \A m \in k + 1..323 : m \in T PROVE k \in T
      BY DEF Closed
    <3>1. Follow(k) \in T
      BY <2>1, <2>2
    <3> QED
      BY <1>1, <2>1, <3>1
  <2>4. 301 \in Nat /\ 323 \in Nat /\ 301 <= 323
    OBVIOUS
  <2> QED
    BY <2>3, <2>4, Backwards
<1>11. \A j \in 401..413 : j \in T
  <2>1. \A k \in 401..413 : k \in Point \ {0} /\ Follow(k) \in {0, 901} \cup (k + 1..413)
    BY DEF Point, Follow
  <2>2. 0 \in T /\ 901 \in T
    BY <1>2, <1>3
  <2>3. Closed(401, 413, T)
    <3> SUFFICES ASSUME NEW k \in 401..413, \A m \in k + 1..413 : m \in T PROVE k \in T
      BY DEF Closed
    <3>1. Follow(k) \in T
      BY <2>1, <2>2
    <3> QED
      BY <1>1, <2>1, <3>1
  <2>4. 401 \in Nat /\ 413 \in Nat /\ 401 <= 413
    OBVIOUS
  <2> QED
    BY <2>3, <2>4, Backwards
<1>12. \A j \in 501..507 : j \in T
  <2>1. \A k \in 501..507 : k \in Point \ {0} /\ Follow(k) \in {0, 901} \cup (k + 1..507)
    BY DEF Point, Follow
  <2>2. 0 \in T /\ 901 \in T
    BY <1>2, <1>3
  <2>3. Closed(501, 507, T)
    <3> SUFFICES ASSUME NEW k \in 501..507, \A m \in k + 1..507 : m \in T PROVE k \in T
      BY DEF Closed
    <3>1. Follow(k) \in T
      BY <2>1, <2>2
    <3> QED
      BY <1>1, <2>1, <3>1
  <2>4. 501 \in Nat /\ 507 \in Nat /\ 501 <= 507
    OBVIOUS
  <2> QED
    BY <2>3, <2>4, Backwards
<1>13. \A j \in 601..607 : j \in T
  <2>1. \A k \in 601..607 : k \in Point \ {0} /\ Follow(k) \in {0, 901} \cup (k + 1..607)
    BY DEF Point, Follow
  <2>2. 0 \in T /\ 901 \in T
    BY <1>2, <1>3
  <2>3. Closed(601, 607, T)
    <3> SUFFICES ASSUME NEW k \in 601..607, \A m \in k + 1..607 : m \in T PROVE k \in T
      BY DEF Closed
    <3>1. Follow(k) \in T
      BY <2>1, <2>2
    <3> QED
      BY <1>1, <2>1, <3>1
  <2>4. 601 \in Nat /\ 607 \in Nat /\ 601 <= 607
    OBVIOUS
  <2> QED
    BY <2>3, <2>4, Backwards
<1>14. \A j \in 701..724 : j \in T
  <2>1. \A k \in 701..724 : k \in Point \ {0} /\ Follow(k) \in {0, 901} \cup (k + 1..724)
    BY DEF Point, Follow
  <2>2. 0 \in T /\ 901 \in T
    BY <1>2, <1>3
  <2>3. Closed(701, 724, T)
    <3> SUFFICES ASSUME NEW k \in 701..724, \A m \in k + 1..724 : m \in T PROVE k \in T
      BY ZenonT(60) DEF Closed
    <3>1. Follow(k) \in T
      BY <2>1, <2>2
    <3> QED
      BY <1>1, <2>1, <3>1
  <2>4. 701 \in Nat /\ 724 \in Nat /\ 701 <= 724
    OBVIOUS
  <2> QED
    BY <2>3, <2>4, Backwards
<1>15. n \in T
  BY <1>2, <1>3, <1>4, <1>5, <1>6, <1>7, <1>8, <1>9, <1>10, <1>11, <1>12, <1>13, <1>14 DEF Point
<1> QED
  BY <1>15 DEF T

-----------------------------------------------------------------------------
(* The programs of the calls are the lists at their first points.          *)

\* Joining lists, as an operator of its own.
Join(p, s) == p \o s

LEMMA Attach ==
  ASSUME NEW a \in Seq(Instruction), NEW p \in Seq(Instruction), NEW s \in Seq(Instruction)
  PROVE  Join(Join(a, p), s) = Join(a, Join(p, s))
  BY DEF Join

LEMMA Joined ==
  ASSUME NEW a \in Seq(Instruction), NEW p \in Seq(Instruction)
  PROVE  Join(a, p) \in Seq(Instruction)
  BY DEF Join

LEMMA Names ==
  /\ "nothing" \in Name /\ "look" \in Name /\ "find" \in Name
  /\ "carry" \in Name /\ "bury" \in Name /\ "push" \in Name
  /\ "insert" \in Name /\ "moved" \in Name /\ "unindex" \in Name
  /\ "remap" \in Name /\ "index" \in Name /\ "log" \in Name
  /\ "checkpoint?" \in Name /\ "split" \in Name /\ "full?" \in Name
  /\ "known?" \in Name /\ "live?" \in Name /\ "dead?" \in Name
  /\ "vector" \in Name /\ "rewrite" \in Name /\ "delete" \in Name
  /\ "drop" \in Name /\ "unlog" \in Name /\ "buried?" \in Name
  /\ "record" \in Name /\ "view" \in Name /\ "id" \in Name
  /\ "pack" \in Name /\ "replace" \in Name /\ "clear" \in Name
  /\ "fill" \in Name /\ "exhume" \in Name /\ "renumber" \in Name
  /\ "rebuild" \in Name /\ "forget" \in Name /\ "collect" \in Name
  /\ "restore" \in Name /\ "save" \in Name
  BY DEF Name

LEMMA Locks ==
  /\ "gate" \in Lock /\ "deleted" \in Lock /\ "slots" \in Lock
  /\ "engine" \in Lock /\ "meta" \in Lock /\ "sparse" \in Lock
  /\ "storage" \in Lock
  BY DEF Lock

\* The pieces that programs are made of.
LEMMA LockPieces ==
  ASSUME NEW l \in Lock, NEW s \in Seq(Instruction)
  PROVE  /\ R(l) \in Seq(Instruction) /\ Join(R(l), s) = Then(<<"read", l>>, s)
         /\ W(l) \in Seq(Instruction) /\ Join(W(l), s) = Then(<<"claim", l>>, s)
         /\ U(l) \in Seq(Instruction) /\ Join(U(l), s) = Then(<<"do", "nothing", l>>, s)
<1>1. "nothing" \in Name
  BY DEF Name
<1>2. /\ <<"read", l>> \in Instruction /\ <<"claim", l>> \in Instruction
      /\ <<"do", "nothing", l>> \in Instruction
  BY <1>1, InstructionTypes
<1> QED
  BY <1>2 DEF R, W, U, Then, Join

LEMMA DoPiece ==
  ASSUME NEW name \in Name, NEW s \in Seq(Instruction)
  PROVE  Do(name) \in Seq(Instruction) /\ Join(Do(name), s) = Then(<<"do", name, "none">>, s)
  BY InstructionTypes DEF Do, Then, Join

LEMMA AccessPieces ==
  ASSUME NEW name \in Name, NEW l \in Lock, NEW s \in Seq(Instruction)
  PROVE  /\ Reading(l, name) \in Seq(Instruction)
         /\ Join(Reading(l, name), s) = Then(<<"read", l>>, Then(<<"do", name, l>>, s))
         /\ Writing(l, name) \in Seq(Instruction)
         /\ Join(Writing(l, name), s) = Then(<<"claim", l>>, Then(<<"do", name, l>>, s))
<1>1. /\ <<"read", l>> \in Instruction /\ <<"claim", l>> \in Instruction
      /\ <<"do", name, l>> \in Instruction
  BY InstructionTypes
<1>2. << <<"read", l>> >> \in Seq(Instruction) /\ << <<"claim", l>> >> \in Seq(Instruction)
      /\ << <<"do", name, l>> >> \in Seq(Instruction)
  BY <1>1
<1>3. Reading(l, name) = << <<"read", l>> >> \o << <<"do", name, l>> >>
      /\ Writing(l, name) = << <<"claim", l>> >> \o << <<"do", name, l>> >>
  BY DEF Reading, Writing, R, W
<1> DEFINE a == << <<"read", l>> >>
           b == << <<"claim", l>> >>
           c == << <<"do", name, l>> >>
<1>4. /\ Join(Join(a, c), s) = Join(a, Join(c, s)) /\ Join(a, c) \in Seq(Instruction)
      /\ Join(Join(b, c), s) = Join(b, Join(c, s)) /\ Join(b, c) \in Seq(Instruction)
  <2>1. a \in Seq(Instruction) /\ b \in Seq(Instruction) /\ c \in Seq(Instruction)
    BY <1>2
  <2> HIDE DEF a, b, c
  <2> QED
    BY <2>1, Attach, Joined
<1>5. /\ Join(a, c) = Reading(l, name) /\ Join(b, c) = Writing(l, name)
      /\ Join(c, s) = Then(<<"do", name, l>>, s)
      /\ \A r : Join(a, r) = Then(<<"read", l>>, r) /\ Join(b, r) = Then(<<"claim", l>>, r)
  BY <1>3 DEF Join, Then
<1> HIDE DEF a, b, c
<1> QED
  BY <1>4, <1>5

\* The rest that programs end with.
LEMMA EmptyRest ==
  C0 \in Seq(Instruction) /\ \A p \in Seq(Instruction) : Join(p, C0) = p
  BY DEF C0, Join

\* Upsert is six instructions.
LEMMA UpsertPiece ==
  ASSUME NEW s \in Seq(Instruction)
  PROVE  /\ Upsert \in Seq(Instruction)
         /\ Join(Upsert, s) = Then(<<"do", "find", "none">>, Then(<<"claim", "deleted">>, Then(<<"do", "bury", "none">>, Then(<<"claim", "slots">>, Then(<<"do", "push", "slots">>, Then(<<"do", "nothing", "deleted">>, s))))))
<1> DEFINE a1 == Do("find")
           a2 == Join(a1, W("deleted"))
           a3 == Join(a2, Do("bury"))
           a4 == Join(a3, Writing("slots", "push"))
           a5 == Join(a4, U("deleted"))
           s5 == Then(<<"do", "nothing", "deleted">>, s)
           s4 == Then(<<"claim", "slots">>, Then(<<"do", "push", "slots">>, s5))
           s3 == Then(<<"do", "bury", "none">>, s4)
           s2 == Then(<<"claim", "deleted">>, s3)
           s1 == Then(<<"do", "find", "none">>, s2)
<1>1. U("deleted") \in Seq(Instruction) /\ s5 = Join(U("deleted"), s) /\ s5 \in Seq(Instruction)
  <2>1. U("deleted") \in Seq(Instruction) /\ s5 = Join(U("deleted"), s)
    <3> HIDE DEF a1
    <3>1. "deleted" \in Lock
      BY Locks
    <3> QED
      BY <3>1, LockPieces
  <2> HIDE DEF s5
  <2> QED
    BY <2>1, Joined
<1>2. Writing("slots", "push") \in Seq(Instruction) /\ s4 = Join(Writing("slots", "push"), s5) /\ s4 \in Seq(Instruction)
  <2>1. Writing("slots", "push") \in Seq(Instruction) /\ s4 = Join(Writing("slots", "push"), s5)
    <3> HIDE DEF s5
    <3>1. "slots" \in Lock /\ "push" \in Name
      BY Locks, Names
    <3> QED
      BY <1>1, <3>1, AccessPieces
  <2> HIDE DEF s4, s5
  <2> QED
    BY <1>1, <2>1, Joined
<1>3. Do("bury") \in Seq(Instruction) /\ s3 = Join(Do("bury"), s4) /\ s3 \in Seq(Instruction)
  <2>1. Do("bury") \in Seq(Instruction) /\ s3 = Join(Do("bury"), s4)
    <3> HIDE DEF s4
    <3>1. "bury" \in Name
      BY Names
    <3> QED
      BY <1>2, <3>1, DoPiece
  <2> HIDE DEF s3, s4
  <2> QED
    BY <1>2, <2>1, Joined
<1>4. W("deleted") \in Seq(Instruction) /\ s2 = Join(W("deleted"), s3) /\ s2 \in Seq(Instruction)
  <2>1. W("deleted") \in Seq(Instruction) /\ s2 = Join(W("deleted"), s3)
    <3> HIDE DEF s3
    <3>1. "deleted" \in Lock
      BY Locks
    <3> QED
      BY <1>3, <3>1, LockPieces
  <2> HIDE DEF s2, s3
  <2> QED
    BY <1>3, <2>1, Joined
<1>5. Do("find") \in Seq(Instruction) /\ s1 = Join(Do("find"), s2) /\ s1 \in Seq(Instruction)
  <2>1. Do("find") \in Seq(Instruction) /\ s1 = Join(Do("find"), s2)
    <3> HIDE DEF s2
    <3>1. "find" \in Name
      BY Names
    <3> QED
      BY <1>4, <3>1, DoPiece
  <2> HIDE DEF s1, s2
  <2> QED
    BY <1>4, <2>1, Joined
<1> HIDE DEF s1, s2, s3, s4, s5
<1>6. a1 \in Seq(Instruction) /\ Join(a1, s2) = s1
  BY <1>5
<1>7. a2 \in Seq(Instruction) /\ Join(a2, s3) = s1
  <2> HIDE DEF a1
  <2> QED
    BY <1>3, <1>4, <1>6, Attach, Joined
<1>8. a3 \in Seq(Instruction) /\ Join(a3, s4) = s1
  <2> HIDE DEF a2
  <2> QED
    BY <1>2, <1>3, <1>7, Attach, Joined
<1>9. a4 \in Seq(Instruction) /\ Join(a4, s5) = s1
  <2> HIDE DEF a3
  <2> QED
    BY <1>1, <1>2, <1>8, Attach, Joined
<1>10. a5 \in Seq(Instruction) /\ Join(a5, s) = s1
  <2> HIDE DEF a4
  <2> QED
    BY <1>1, <1>9, Attach, Joined
<1>11. Upsert = a5
  BY DEF Upsert, Join
<1> HIDE DEF a5
<1> QED
  BY <1>10, <1>11 DEF s1, s2, s3, s4, s5

\* ToEngine is four.
LEMMA ToEnginePiece ==
  ASSUME NEW s \in Seq(Instruction)
  PROVE  /\ ToEngine \in Seq(Instruction)
         /\ Join(ToEngine, s) = Then(<<"read", "slots">>, Then(<<"claim", "engine">>, Then(<<"do", "insert", "engine">>, Then(<<"do", "nothing", "slots">>, s))))
<1> DEFINE a1 == R("slots")
           a2 == Join(a1, Writing("engine", "insert"))
           a3 == Join(a2, U("slots"))
           s3 == Then(<<"do", "nothing", "slots">>, s)
           s2 == Then(<<"claim", "engine">>, Then(<<"do", "insert", "engine">>, s3))
           s1 == Then(<<"read", "slots">>, s2)
<1>1. U("slots") \in Seq(Instruction) /\ s3 = Join(U("slots"), s) /\ s3 \in Seq(Instruction)
  <2>1. U("slots") \in Seq(Instruction) /\ s3 = Join(U("slots"), s)
    <3> HIDE DEF a1
    <3>1. "slots" \in Lock
      BY Locks
    <3> QED
      BY <3>1, LockPieces
  <2> HIDE DEF s3
  <2> QED
    BY <2>1, Joined
<1>2. Writing("engine", "insert") \in Seq(Instruction) /\ s2 = Join(Writing("engine", "insert"), s3) /\ s2 \in Seq(Instruction)
  <2>1. Writing("engine", "insert") \in Seq(Instruction) /\ s2 = Join(Writing("engine", "insert"), s3)
    <3> HIDE DEF s3
    <3>1. "engine" \in Lock /\ "insert" \in Name
      BY Locks, Names
    <3> QED
      BY <1>1, <3>1, AccessPieces
  <2> HIDE DEF s2, s3
  <2> QED
    BY <1>1, <2>1, Joined
<1>3. R("slots") \in Seq(Instruction) /\ s1 = Join(R("slots"), s2) /\ s1 \in Seq(Instruction)
  <2>1. R("slots") \in Seq(Instruction) /\ s1 = Join(R("slots"), s2)
    <3> HIDE DEF s2
    <3>1. "slots" \in Lock
      BY Locks
    <3> QED
      BY <1>2, <3>1, LockPieces
  <2> HIDE DEF s1, s2
  <2> QED
    BY <1>2, <2>1, Joined
<1> HIDE DEF s1, s2, s3
<1>4. a1 \in Seq(Instruction) /\ Join(a1, s2) = s1
  BY <1>3
<1>5. a2 \in Seq(Instruction) /\ Join(a2, s3) = s1
  <2> HIDE DEF a1
  <2> QED
    BY <1>1, <1>2, <1>4, Attach, Joined
<1>6. a3 \in Seq(Instruction) /\ Join(a3, s) = s1
  <2> HIDE DEF a2
  <2> QED
    BY <1>1, <1>5, Attach, Joined
<1>7. ToEngine = a3
  BY DEF ToEngine, Join
<1> HIDE DEF a3
<1> QED
  BY <1>6, <1>7 DEF s1, s2, s3

\* Moved is four.
LEMMA MovedPiece ==
  ASSUME NEW s \in Seq(Instruction)
  PROVE  /\ Moved \in Seq(Instruction)
         /\ Join(Moved, s) = Then(<<"claim", "meta">>, Then(<<"do", "unindex", "meta">>, Then(<<"claim", "sparse">>, Then(<<"do", "remap", "sparse">>, s))))
<1> DEFINE a1 == Writing("meta", "unindex")
           a2 == Join(a1, Writing("sparse", "remap"))
           s2 == Then(<<"claim", "sparse">>, Then(<<"do", "remap", "sparse">>, s))
           s1 == Then(<<"claim", "meta">>, Then(<<"do", "unindex", "meta">>, s2))
<1>1. Writing("sparse", "remap") \in Seq(Instruction) /\ s2 = Join(Writing("sparse", "remap"), s) /\ s2 \in Seq(Instruction)
  <2>1. Writing("sparse", "remap") \in Seq(Instruction) /\ s2 = Join(Writing("sparse", "remap"), s)
    <3> HIDE DEF a1
    <3>1. "sparse" \in Lock /\ "remap" \in Name
      BY Locks, Names
    <3> QED
      BY <3>1, AccessPieces
  <2> HIDE DEF s2
  <2> QED
    BY <2>1, Joined
<1>2. Writing("meta", "unindex") \in Seq(Instruction) /\ s1 = Join(Writing("meta", "unindex"), s2) /\ s1 \in Seq(Instruction)
  <2>1. Writing("meta", "unindex") \in Seq(Instruction) /\ s1 = Join(Writing("meta", "unindex"), s2)
    <3> HIDE DEF s2
    <3>1. "meta" \in Lock /\ "unindex" \in Name
      BY Locks, Names
    <3> QED
      BY <1>1, <3>1, AccessPieces
  <2> HIDE DEF s1, s2
  <2> QED
    BY <1>1, <2>1, Joined
<1> HIDE DEF s1, s2
<1>3. a1 \in Seq(Instruction) /\ Join(a1, s2) = s1
  BY <1>2
<1>4. a2 \in Seq(Instruction) /\ Join(a2, s) = s1
  <2> HIDE DEF a1
  <2> QED
    BY <1>1, <1>3, Attach, Joined
<1>5. Moved = a2
  BY DEF Moved, Join
<1> HIDE DEF a2
<1> QED
  BY <1>4, <1>5 DEF s1, s2

\* Logging is nine.
LEMMA LoggingPiece ==
  ASSUME NEW s \in Seq(Instruction)
  PROVE  /\ Logging("log") \in Seq(Instruction)
         /\ Join(Logging("log"), s) = Then(<<"read", "slots">>, Then(<<"claim", "storage">>, Then(<<"read", "slots">>, Then(<<"do", "nothing", "slots">>, Then(<<"read", "slots">>, Then(<<"do", "nothing", "slots">>, Then(<<"do", "log", "none">>, Then(<<"do", "nothing", "storage">>, Then(<<"do", "nothing", "slots">>, s)))))))))
<1> DEFINE a1 == R("slots")
           a2 == Join(a1, W("storage"))
           a3 == Join(a2, R("slots"))
           a4 == Join(a3, U("slots"))
           a5 == Join(a4, R("slots"))
           a6 == Join(a5, U("slots"))
           a7 == Join(a6, Do("log"))
           a8 == Join(a7, U("storage"))
           a9 == Join(a8, U("slots"))
           s9 == Then(<<"do", "nothing", "slots">>, s)
           s8 == Then(<<"do", "nothing", "storage">>, s9)
           s7 == Then(<<"do", "log", "none">>, s8)
           s6 == Then(<<"do", "nothing", "slots">>, s7)
           s5 == Then(<<"read", "slots">>, s6)
           s4 == Then(<<"do", "nothing", "slots">>, s5)
           s3 == Then(<<"read", "slots">>, s4)
           s2 == Then(<<"claim", "storage">>, s3)
           s1 == Then(<<"read", "slots">>, s2)
<1>1. U("slots") \in Seq(Instruction) /\ s9 = Join(U("slots"), s) /\ s9 \in Seq(Instruction)
  <2>1. U("slots") \in Seq(Instruction) /\ s9 = Join(U("slots"), s)
    <3> HIDE DEF a1
    <3>1. "slots" \in Lock
      BY Locks
    <3> QED
      BY <3>1, LockPieces
  <2> HIDE DEF s9
  <2> QED
    BY <2>1, Joined
<1>2. U("storage") \in Seq(Instruction) /\ s8 = Join(U("storage"), s9) /\ s8 \in Seq(Instruction)
  <2>1. U("storage") \in Seq(Instruction) /\ s8 = Join(U("storage"), s9)
    <3> HIDE DEF s9
    <3>1. "storage" \in Lock
      BY Locks
    <3> QED
      BY <1>1, <3>1, LockPieces
  <2> HIDE DEF s8, s9
  <2> QED
    BY <1>1, <2>1, Joined
<1>3. Do("log") \in Seq(Instruction) /\ s7 = Join(Do("log"), s8) /\ s7 \in Seq(Instruction)
  <2>1. Do("log") \in Seq(Instruction) /\ s7 = Join(Do("log"), s8)
    <3> HIDE DEF s8
    <3>1. "log" \in Name
      BY Names
    <3> QED
      BY <1>2, <3>1, DoPiece
  <2> HIDE DEF s7, s8
  <2> QED
    BY <1>2, <2>1, Joined
<1>4. U("slots") \in Seq(Instruction) /\ s6 = Join(U("slots"), s7) /\ s6 \in Seq(Instruction)
  <2>1. U("slots") \in Seq(Instruction) /\ s6 = Join(U("slots"), s7)
    <3> HIDE DEF s7
    <3>1. "slots" \in Lock
      BY Locks
    <3> QED
      BY <1>3, <3>1, LockPieces
  <2> HIDE DEF s6, s7
  <2> QED
    BY <1>3, <2>1, Joined
<1>5. R("slots") \in Seq(Instruction) /\ s5 = Join(R("slots"), s6) /\ s5 \in Seq(Instruction)
  <2>1. R("slots") \in Seq(Instruction) /\ s5 = Join(R("slots"), s6)
    <3> HIDE DEF s6
    <3>1. "slots" \in Lock
      BY Locks
    <3> QED
      BY <1>4, <3>1, LockPieces
  <2> HIDE DEF s5, s6
  <2> QED
    BY <1>4, <2>1, Joined
<1>6. U("slots") \in Seq(Instruction) /\ s4 = Join(U("slots"), s5) /\ s4 \in Seq(Instruction)
  <2>1. U("slots") \in Seq(Instruction) /\ s4 = Join(U("slots"), s5)
    <3> HIDE DEF s5
    <3>1. "slots" \in Lock
      BY Locks
    <3> QED
      BY <1>5, <3>1, LockPieces
  <2> HIDE DEF s4, s5
  <2> QED
    BY <1>5, <2>1, Joined
<1>7. R("slots") \in Seq(Instruction) /\ s3 = Join(R("slots"), s4) /\ s3 \in Seq(Instruction)
  <2>1. R("slots") \in Seq(Instruction) /\ s3 = Join(R("slots"), s4)
    <3> HIDE DEF s4
    <3>1. "slots" \in Lock
      BY Locks
    <3> QED
      BY <1>6, <3>1, LockPieces
  <2> HIDE DEF s3, s4
  <2> QED
    BY <1>6, <2>1, Joined
<1>8. W("storage") \in Seq(Instruction) /\ s2 = Join(W("storage"), s3) /\ s2 \in Seq(Instruction)
  <2>1. W("storage") \in Seq(Instruction) /\ s2 = Join(W("storage"), s3)
    <3> HIDE DEF s3
    <3>1. "storage" \in Lock
      BY Locks
    <3> QED
      BY <1>7, <3>1, LockPieces
  <2> HIDE DEF s2, s3
  <2> QED
    BY <1>7, <2>1, Joined
<1>9. R("slots") \in Seq(Instruction) /\ s1 = Join(R("slots"), s2) /\ s1 \in Seq(Instruction)
  <2>1. R("slots") \in Seq(Instruction) /\ s1 = Join(R("slots"), s2)
    <3> HIDE DEF s2
    <3>1. "slots" \in Lock
      BY Locks
    <3> QED
      BY <1>8, <3>1, LockPieces
  <2> HIDE DEF s1, s2
  <2> QED
    BY <1>8, <2>1, Joined
<1> HIDE DEF s1, s2, s3, s4, s5, s6, s7, s8, s9
<1>10. a1 \in Seq(Instruction) /\ Join(a1, s2) = s1
  BY <1>9
<1>11. a2 \in Seq(Instruction) /\ Join(a2, s3) = s1
  <2> HIDE DEF a1
  <2> QED
    BY <1>7, <1>8, <1>10, Attach, Joined
<1>12. a3 \in Seq(Instruction) /\ Join(a3, s4) = s1
  <2> HIDE DEF a2
  <2> QED
    BY <1>6, <1>7, <1>11, Attach, Joined
<1>13. a4 \in Seq(Instruction) /\ Join(a4, s5) = s1
  <2> HIDE DEF a3
  <2> QED
    BY <1>5, <1>6, <1>12, Attach, Joined
<1>14. a5 \in Seq(Instruction) /\ Join(a5, s6) = s1
  <2> HIDE DEF a4
  <2> QED
    BY <1>4, <1>5, <1>13, Attach, Joined
<1>15. a6 \in Seq(Instruction) /\ Join(a6, s7) = s1
  <2> HIDE DEF a5
  <2> QED
    BY <1>3, <1>4, <1>14, Attach, Joined
<1>16. a7 \in Seq(Instruction) /\ Join(a7, s8) = s1
  <2> HIDE DEF a6
  <2> QED
    BY <1>2, <1>3, <1>15, Attach, Joined
<1>17. a8 \in Seq(Instruction) /\ Join(a8, s9) = s1
  <2> HIDE DEF a7
  <2> QED
    BY <1>1, <1>2, <1>16, Attach, Joined
<1>18. a9 \in Seq(Instruction) /\ Join(a9, s) = s1
  <2> HIDE DEF a8
  <2> QED
    BY <1>1, <1>17, Attach, Joined
<1>19. Logging("log") = a9
  BY DEF Logging, Join
<1> HIDE DEF a9
<1> QED
  BY <1>18, <1>19 DEF s1, s2, s3, s4, s5, s6, s7, s8, s9

\* What is done only by a store that has storage.
LEMMA PersistentPiece ==
  ASSUME NEW p \in Seq(Instruction), NEW s \in Seq(Instruction), NEW c \in Seq(Instruction), c = Join(p, s)
  PROVE  /\ IfPersistent(p) \in Seq(Instruction)
         /\ Join(IfPersistent(p), s) = IF persistent THEN c ELSE s
  BY DEF IfPersistent, Join

\* The list at the first point of each call is its program.
LEMMA SetProgram ==
  SetCall = C101
<1> DEFINE rest == IF persistent THEN C124 ELSE C901
           last == IfPersistent(Logging("log"))
           a1 == R("gate")
           a2 == Join(a1, W("engine"))
           a3 == Join(a2, U("engine"))
           a4 == Join(a3, Do("look"))
           a5 == Join(a4, Upsert)
           a6 == Join(a5, ToEngine)
           a7 == Join(a6, Do("moved"))
           a8 == Join(a7, Writing("meta", "index"))
           a9 == Join(a8, last)
           a10 == Join(a9, U("gate"))
           a11 == Join(a10, Do("checkpoint?"))
<1>1. /\ C101 \in Seq(Instruction)
      /\ C102 \in Seq(Instruction)
      /\ C103 \in Seq(Instruction)
      /\ C104 \in Seq(Instruction)
      /\ C105 \in Seq(Instruction)
      /\ C113 \in Seq(Instruction)
      /\ C117 \in Seq(Instruction)
      /\ C122 \in Seq(Instruction)
      /\ rest \in Seq(Instruction)
      /\ C901 \in Seq(Instruction)
      /\ C902 \in Seq(Instruction)
      /\ C0 \in Seq(Instruction)
  BY CodeTyped, EndsPoints, SetPoints DEF Point
<1>2. R("gate") \in Seq(Instruction) /\ C101 = Join(R("gate"), C102) /\ C102 \in Seq(Instruction)
  <2>1. "gate" \in Lock
    BY Locks
  <2> QED
    BY <1>1, <2>1, LockPieces DEF C101
<1>3. W("engine") \in Seq(Instruction) /\ C102 = Join(W("engine"), C103) /\ C103 \in Seq(Instruction)
  <2>1. "engine" \in Lock
    BY Locks
  <2> QED
    BY <1>1, <2>1, LockPieces DEF C102
<1>4. U("engine") \in Seq(Instruction) /\ C103 = Join(U("engine"), C104) /\ C104 \in Seq(Instruction)
  <2>1. "engine" \in Lock
    BY Locks
  <2> QED
    BY <1>1, <2>1, LockPieces DEF C103
<1>5. Do("look") \in Seq(Instruction) /\ C104 = Join(Do("look"), C105) /\ C105 \in Seq(Instruction)
  <2>1. "look" \in Name
    BY Names
  <2> QED
    BY <1>1, <2>1, DoPiece DEF C104
<1>6. Upsert \in Seq(Instruction) /\ C105 = Join(Upsert, C113) /\ C113 \in Seq(Instruction)
  BY <1>1, UpsertPiece DEF C105, C108, C109, C110, C111, C112
<1>7. ToEngine \in Seq(Instruction) /\ C113 = Join(ToEngine, C117) /\ C117 \in Seq(Instruction)
  BY <1>1, ToEnginePiece DEF C113, C114, C115, C116
<1>8. Do("moved") \in Seq(Instruction) /\ C117 = Join(Do("moved"), C122) /\ C122 \in Seq(Instruction)
  <2>1. "moved" \in Name
    BY Names
  <2> QED
    BY <1>1, <2>1, DoPiece DEF C117
<1>9. Writing("meta", "index") \in Seq(Instruction) /\ C122 = Join(Writing("meta", "index"), rest) /\ rest \in Seq(Instruction)
  <2>1. "meta" \in Lock /\ "index" \in Name
    BY Locks, Names
  <2> QED
    BY <1>1, <2>1, AccessPieces DEF C122, C123
<1>10. last \in Seq(Instruction) /\ rest = Join(last, C901) /\ C901 \in Seq(Instruction)
  <2>1. Logging("log") \in Seq(Instruction) /\ Join(Logging("log"), C901) = C124 /\ C124 \in Seq(Instruction) /\ C901 \in Seq(Instruction)
    <3>1. C124 \in Seq(Instruction)
      BY CodeTyped, SetPoints DEF Point
    <3> QED
      BY <1>1, <3>1, LoggingPiece DEF C124, C125, C126, C127, C128, C129, C130, C131, C132
  <2> DEFINE p == Logging("log")
  <2>2. p \in Seq(Instruction) /\ Join(p, C901) = C124 /\ C901 \in Seq(Instruction)
    BY <1>1, <2>1
  <2> HIDE DEF p
  <2>3. IfPersistent(p) \in Seq(Instruction) /\ Join(IfPersistent(p), C901) = IF persistent THEN C124 ELSE C901
    BY <2>1, <2>2, PersistentPiece
  <2> QED
    BY <2>2, <2>3 DEF p
<1>11. U("gate") \in Seq(Instruction) /\ C901 = Join(U("gate"), C902) /\ C902 \in Seq(Instruction)
  <2>1. "gate" \in Lock
    BY Locks
  <2> QED
    BY <1>1, <2>1, LockPieces DEF C901
<1>12. Do("checkpoint?") \in Seq(Instruction) /\ C902 = Join(Do("checkpoint?"), C0) /\ C0 \in Seq(Instruction)
  <2>1. "checkpoint?" \in Name
    BY Names
  <2> QED
    BY <1>1, <2>1, DoPiece DEF C902
<1> HIDE DEF rest, last
<1>13. a1 \in Seq(Instruction) /\ Join(a1, C102) = C101
  BY <1>2
<1>14. a2 \in Seq(Instruction) /\ Join(a2, C103) = C101
  <2> HIDE DEF a1
  <2> QED
    BY <1>3, <1>13, Attach, Joined
<1>15. a3 \in Seq(Instruction) /\ Join(a3, C104) = C101
  <2> HIDE DEF a2
  <2> QED
    BY <1>4, <1>14, Attach, Joined
<1>16. a4 \in Seq(Instruction) /\ Join(a4, C105) = C101
  <2> HIDE DEF a3
  <2> QED
    BY <1>5, <1>15, Attach, Joined
<1>17. a5 \in Seq(Instruction) /\ Join(a5, C113) = C101
  <2> HIDE DEF a4
  <2> QED
    BY <1>6, <1>16, Attach, Joined
<1>18. a6 \in Seq(Instruction) /\ Join(a6, C117) = C101
  <2> HIDE DEF a5
  <2> QED
    BY <1>7, <1>17, Attach, Joined
<1>19. a7 \in Seq(Instruction) /\ Join(a7, C122) = C101
  <2> HIDE DEF a6
  <2> QED
    BY <1>8, <1>18, Attach, Joined
<1>20. a8 \in Seq(Instruction) /\ Join(a8, rest) = C101
  <2> HIDE DEF a7
  <2> QED
    BY <1>9, <1>19, Attach, Joined
<1>21. a9 \in Seq(Instruction) /\ Join(a9, C901) = C101
  <2> HIDE DEF a8
  <2> QED
    BY <1>10, <1>20, Attach, Joined
<1>22. a10 \in Seq(Instruction) /\ Join(a10, C902) = C101
  <2> HIDE DEF a9
  <2> QED
    BY <1>11, <1>21, Attach, Joined
<1>23. a11 \in Seq(Instruction) /\ Join(a11, C0) = C101
  <2> HIDE DEF a10
  <2> QED
    BY <1>12, <1>22, Attach, Joined
<1>24. SetCall = a11
  BY DEF SetCall, Join, last
<1> HIDE DEF a11
<1> QED
  BY <1>23, <1>24, <1>1, EmptyRest

LEMMA BatchUpdateProgram ==
  BatchUpdate \in Seq(Instruction) /\ Join(BatchUpdate, (IF persistent THEN C204 ELSE C901)) = C211
<1> DEFINE rest == IF persistent THEN C204 ELSE C901
           a1 == W("meta")
           a2 == Join(a1, W("sparse"))
           a3 == Join(a2, W("engine"))
           a4 == Join(a3, Upsert)
           a5 == Join(a4, Reading("slots", "insert"))
           a6 == Join(a5, Do("unindex"))
           a7 == Join(a6, Do("remap"))
           a8 == Join(a7, Do("index"))
           a9 == Join(a8, U("engine"))
           a10 == Join(a9, U("sparse"))
           a11 == Join(a10, U("meta"))
<1>1. /\ C211 \in Seq(Instruction)
      /\ C212 \in Seq(Instruction)
      /\ C213 \in Seq(Instruction)
      /\ C214 \in Seq(Instruction)
      /\ C222 \in Seq(Instruction)
      /\ C224 \in Seq(Instruction)
      /\ C225 \in Seq(Instruction)
      /\ C226 \in Seq(Instruction)
      /\ C227 \in Seq(Instruction)
      /\ C228 \in Seq(Instruction)
      /\ C229 \in Seq(Instruction)
      /\ rest \in Seq(Instruction)
  BY CodeTyped, EndsPoints, BatchPoints DEF Point
<1>2. W("meta") \in Seq(Instruction) /\ C211 = Join(W("meta"), C212) /\ C212 \in Seq(Instruction)
  <2>1. "meta" \in Lock
    BY Locks
  <2> QED
    BY <1>1, <2>1, LockPieces DEF C211
<1>3. W("sparse") \in Seq(Instruction) /\ C212 = Join(W("sparse"), C213) /\ C213 \in Seq(Instruction)
  <2>1. "sparse" \in Lock
    BY Locks
  <2> QED
    BY <1>1, <2>1, LockPieces DEF C212
<1>4. W("engine") \in Seq(Instruction) /\ C213 = Join(W("engine"), C214) /\ C214 \in Seq(Instruction)
  <2>1. "engine" \in Lock
    BY Locks
  <2> QED
    BY <1>1, <2>1, LockPieces DEF C213
<1>5. Upsert \in Seq(Instruction) /\ C214 = Join(Upsert, C222) /\ C222 \in Seq(Instruction)
  BY <1>1, UpsertPiece DEF C214, C217, C218, C219, C220, C221
<1>6. Reading("slots", "insert") \in Seq(Instruction) /\ C222 = Join(Reading("slots", "insert"), C224) /\ C224 \in Seq(Instruction)
  <2>1. "slots" \in Lock /\ "insert" \in Name
    BY Locks, Names
  <2> QED
    BY <1>1, <2>1, AccessPieces DEF C222, C223
<1>7. Do("unindex") \in Seq(Instruction) /\ C224 = Join(Do("unindex"), C225) /\ C225 \in Seq(Instruction)
  <2>1. "unindex" \in Name
    BY Names
  <2> QED
    BY <1>1, <2>1, DoPiece DEF C224
<1>8. Do("remap") \in Seq(Instruction) /\ C225 = Join(Do("remap"), C226) /\ C226 \in Seq(Instruction)
  <2>1. "remap" \in Name
    BY Names
  <2> QED
    BY <1>1, <2>1, DoPiece DEF C225
<1>9. Do("index") \in Seq(Instruction) /\ C226 = Join(Do("index"), C227) /\ C227 \in Seq(Instruction)
  <2>1. "index" \in Name
    BY Names
  <2> QED
    BY <1>1, <2>1, DoPiece DEF C226
<1>10. U("engine") \in Seq(Instruction) /\ C227 = Join(U("engine"), C228) /\ C228 \in Seq(Instruction)
  <2>1. "engine" \in Lock
    BY Locks
  <2> QED
    BY <1>1, <2>1, LockPieces DEF C227
<1>11. U("sparse") \in Seq(Instruction) /\ C228 = Join(U("sparse"), C229) /\ C229 \in Seq(Instruction)
  <2>1. "sparse" \in Lock
    BY Locks
  <2> QED
    BY <1>1, <2>1, LockPieces DEF C228
<1>12. U("meta") \in Seq(Instruction) /\ C229 = Join(U("meta"), rest) /\ rest \in Seq(Instruction)
  <2>1. "meta" \in Lock
    BY Locks
  <2> QED
    BY <1>1, <2>1, LockPieces DEF C229
<1> HIDE DEF rest
<1>13. a1 \in Seq(Instruction) /\ Join(a1, C212) = C211
  BY <1>2
<1>14. a2 \in Seq(Instruction) /\ Join(a2, C213) = C211
  <2> HIDE DEF a1
  <2> QED
    BY <1>3, <1>13, Attach, Joined
<1>15. a3 \in Seq(Instruction) /\ Join(a3, C214) = C211
  <2> HIDE DEF a2
  <2> QED
    BY <1>4, <1>14, Attach, Joined
<1>16. a4 \in Seq(Instruction) /\ Join(a4, C222) = C211
  <2> HIDE DEF a3
  <2> QED
    BY <1>5, <1>15, Attach, Joined
<1>17. a5 \in Seq(Instruction) /\ Join(a5, C224) = C211
  <2> HIDE DEF a4
  <2> QED
    BY <1>6, <1>16, Attach, Joined
<1>18. a6 \in Seq(Instruction) /\ Join(a6, C225) = C211
  <2> HIDE DEF a5
  <2> QED
    BY <1>7, <1>17, Attach, Joined
<1>19. a7 \in Seq(Instruction) /\ Join(a7, C226) = C211
  <2> HIDE DEF a6
  <2> QED
    BY <1>8, <1>18, Attach, Joined
<1>20. a8 \in Seq(Instruction) /\ Join(a8, C227) = C211
  <2> HIDE DEF a7
  <2> QED
    BY <1>9, <1>19, Attach, Joined
<1>21. a9 \in Seq(Instruction) /\ Join(a9, C228) = C211
  <2> HIDE DEF a8
  <2> QED
    BY <1>10, <1>20, Attach, Joined
<1>22. a10 \in Seq(Instruction) /\ Join(a10, C229) = C211
  <2> HIDE DEF a9
  <2> QED
    BY <1>11, <1>21, Attach, Joined
<1>23. a11 \in Seq(Instruction) /\ Join(a11, rest) = C211
  <2> HIDE DEF a10
  <2> QED
    BY <1>12, <1>22, Attach, Joined
<1>24. BatchUpdate = a11
  BY DEF BatchUpdate, Join
<1> HIDE DEF a11
<1> QED
  BY <1>23, <1>24 DEF rest

LEMMA BatchInsertProgram ==
  BatchInsert \in Seq(Instruction) /\ Join(BatchInsert, (IF persistent THEN C204 ELSE C901)) = C241
<1> DEFINE rest == IF persistent THEN C204 ELSE C901
           a1 == R("engine")
           a2 == Join(a1, U("engine"))
           a3 == Join(a2, W("meta"))
           a4 == Join(a3, Upsert)
           a5 == Join(a4, Do("index"))
           a6 == Join(a5, ToEngine)
           a7 == Join(a6, U("meta"))
<1>1. /\ C241 \in Seq(Instruction)
      /\ C242 \in Seq(Instruction)
      /\ C243 \in Seq(Instruction)
      /\ C244 \in Seq(Instruction)
      /\ C252 \in Seq(Instruction)
      /\ C253 \in Seq(Instruction)
      /\ C257 \in Seq(Instruction)
      /\ rest \in Seq(Instruction)
  BY CodeTyped, EndsPoints, BatchPoints DEF Point
<1>2. R("engine") \in Seq(Instruction) /\ C241 = Join(R("engine"), C242) /\ C242 \in Seq(Instruction)
  <2>1. "engine" \in Lock
    BY Locks
  <2> QED
    BY <1>1, <2>1, LockPieces DEF C241
<1>3. U("engine") \in Seq(Instruction) /\ C242 = Join(U("engine"), C243) /\ C243 \in Seq(Instruction)
  <2>1. "engine" \in Lock
    BY Locks
  <2> QED
    BY <1>1, <2>1, LockPieces DEF C242
<1>4. W("meta") \in Seq(Instruction) /\ C243 = Join(W("meta"), C244) /\ C244 \in Seq(Instruction)
  <2>1. "meta" \in Lock
    BY Locks
  <2> QED
    BY <1>1, <2>1, LockPieces DEF C243
<1>5. Upsert \in Seq(Instruction) /\ C244 = Join(Upsert, C252) /\ C252 \in Seq(Instruction)
  BY <1>1, UpsertPiece DEF C244, C247, C248, C249, C250, C251
<1>6. Do("index") \in Seq(Instruction) /\ C252 = Join(Do("index"), C253) /\ C253 \in Seq(Instruction)
  <2>1. "index" \in Name
    BY Names
  <2> QED
    BY <1>1, <2>1, DoPiece DEF C252
<1>7. ToEngine \in Seq(Instruction) /\ C253 = Join(ToEngine, C257) /\ C257 \in Seq(Instruction)
  BY <1>1, ToEnginePiece DEF C253, C254, C255, C256
<1>8. U("meta") \in Seq(Instruction) /\ C257 = Join(U("meta"), rest) /\ rest \in Seq(Instruction)
  <2>1. "meta" \in Lock
    BY Locks
  <2> QED
    BY <1>1, <2>1, LockPieces DEF C257
<1> HIDE DEF rest
<1>9. a1 \in Seq(Instruction) /\ Join(a1, C242) = C241
  BY <1>2
<1>10. a2 \in Seq(Instruction) /\ Join(a2, C243) = C241
  <2> HIDE DEF a1
  <2> QED
    BY <1>3, <1>9, Attach, Joined
<1>11. a3 \in Seq(Instruction) /\ Join(a3, C244) = C241
  <2> HIDE DEF a2
  <2> QED
    BY <1>4, <1>10, Attach, Joined
<1>12. a4 \in Seq(Instruction) /\ Join(a4, C252) = C241
  <2> HIDE DEF a3
  <2> QED
    BY <1>5, <1>11, Attach, Joined
<1>13. a5 \in Seq(Instruction) /\ Join(a5, C253) = C241
  <2> HIDE DEF a4
  <2> QED
    BY <1>6, <1>12, Attach, Joined
<1>14. a6 \in Seq(Instruction) /\ Join(a6, C257) = C241
  <2> HIDE DEF a5
  <2> QED
    BY <1>7, <1>13, Attach, Joined
<1>15. a7 \in Seq(Instruction) /\ Join(a7, rest) = C241
  <2> HIDE DEF a6
  <2> QED
    BY <1>8, <1>14, Attach, Joined
<1>16. BatchInsert = a7
  BY DEF BatchInsert, Join
<1> HIDE DEF a7
<1> QED
  BY <1>15, <1>16 DEF rest

LEMMA SetBatchProgram ==
  SetBatchCall = C201
<1> DEFINE rest == IF persistent THEN C204 ELSE C901
           last == IfPersistent(Reading("storage", "full?"))
           a1 == R("gate")
           a2 == Join(a1, Do("look"))
           a3 == Join(a2, Do("split"))
           a4 == Join(a3, last)
           a5 == Join(a4, U("gate"))
           a6 == Join(a5, Do("checkpoint?"))
<1>1. /\ C201 \in Seq(Instruction)
      /\ C202 \in Seq(Instruction)
      /\ C203 \in Seq(Instruction)
      /\ rest \in Seq(Instruction)
      /\ C901 \in Seq(Instruction)
      /\ C902 \in Seq(Instruction)
      /\ C0 \in Seq(Instruction)
  BY CodeTyped, EndsPoints, BatchPoints DEF Point
<1>2. R("gate") \in Seq(Instruction) /\ C201 = Join(R("gate"), C202) /\ C202 \in Seq(Instruction)
  <2>1. "gate" \in Lock
    BY Locks
  <2> QED
    BY <1>1, <2>1, LockPieces DEF C201
<1>3. Do("look") \in Seq(Instruction) /\ C202 = Join(Do("look"), C203) /\ C203 \in Seq(Instruction)
  <2>1. "look" \in Name
    BY Names
  <2> QED
    BY <1>1, <2>1, DoPiece DEF C202
<1>4. Do("split") \in Seq(Instruction) /\ C203 = Join(Do("split"), rest) /\ rest \in Seq(Instruction)
  <2>1. "split" \in Name
    BY Names
  <2> QED
    BY <1>1, <2>1, DoPiece DEF C203
<1>5. last \in Seq(Instruction) /\ rest = Join(last, C901) /\ C901 \in Seq(Instruction)
  <2>1. Reading("storage", "full?") \in Seq(Instruction) /\ Join(Reading("storage", "full?"), C901) = C204 /\ C204 \in Seq(Instruction) /\ C901 \in Seq(Instruction)
    <3>1. "storage" \in Lock /\ "full?" \in Name
      BY Locks, Names
    <3>2. C204 \in Seq(Instruction)
      BY CodeTyped, BatchPoints, DeletePoints DEF Point
    <3> QED
      BY <1>1, <3>1, <3>2, AccessPieces DEF C204, C205
  <2> DEFINE p == Reading("storage", "full?")
  <2>2. p \in Seq(Instruction) /\ Join(p, C901) = C204 /\ C901 \in Seq(Instruction)
    BY <1>1, <2>1
  <2> HIDE DEF p
  <2>3. IfPersistent(p) \in Seq(Instruction) /\ Join(IfPersistent(p), C901) = IF persistent THEN C204 ELSE C901
    BY <2>1, <2>2, PersistentPiece
  <2> QED
    BY <2>2, <2>3 DEF p
<1>6. U("gate") \in Seq(Instruction) /\ C901 = Join(U("gate"), C902) /\ C902 \in Seq(Instruction)
  <2>1. "gate" \in Lock
    BY Locks
  <2> QED
    BY <1>1, <2>1, LockPieces DEF C901
<1>7. Do("checkpoint?") \in Seq(Instruction) /\ C902 = Join(Do("checkpoint?"), C0) /\ C0 \in Seq(Instruction)
  <2>1. "checkpoint?" \in Name
    BY Names
  <2> QED
    BY <1>1, <2>1, DoPiece DEF C902
<1> HIDE DEF rest, last
<1>8. a1 \in Seq(Instruction) /\ Join(a1, C202) = C201
  BY <1>2
<1>9. a2 \in Seq(Instruction) /\ Join(a2, C203) = C201
  <2> HIDE DEF a1
  <2> QED
    BY <1>3, <1>8, Attach, Joined
<1>10. a3 \in Seq(Instruction) /\ Join(a3, rest) = C201
  <2> HIDE DEF a2
  <2> QED
    BY <1>4, <1>9, Attach, Joined
<1>11. a4 \in Seq(Instruction) /\ Join(a4, C901) = C201
  <2> HIDE DEF a3
  <2> QED
    BY <1>5, <1>10, Attach, Joined
<1>12. a5 \in Seq(Instruction) /\ Join(a5, C902) = C201
  <2> HIDE DEF a4
  <2> QED
    BY <1>6, <1>11, Attach, Joined
<1>13. a6 \in Seq(Instruction) /\ Join(a6, C0) = C201
  <2> HIDE DEF a5
  <2> QED
    BY <1>7, <1>12, Attach, Joined
<1>14. SetBatchCall = a6
  BY DEF SetBatchCall, Join, last
<1> HIDE DEF a6
<1> QED
  BY <1>13, <1>14, <1>1, EmptyRest

LEMMA UpdateLogging ==
  (W("storage") \o R("slots") \o U("slots") \o R("slots") \o U("slots") \o Do("log") \o U("storage")) \in Seq(Instruction) /\ Join((W("storage") \o R("slots") \o U("slots") \o R("slots") \o U("slots") \o Do("log") \o U("storage")), C318) = C311
<1> DEFINE a1 == W("storage")
           a2 == Join(a1, R("slots"))
           a3 == Join(a2, U("slots"))
           a4 == Join(a3, R("slots"))
           a5 == Join(a4, U("slots"))
           a6 == Join(a5, Do("log"))
           a7 == Join(a6, U("storage"))
<1>1. /\ C311 \in Seq(Instruction)
      /\ C312 \in Seq(Instruction)
      /\ C313 \in Seq(Instruction)
      /\ C314 \in Seq(Instruction)
      /\ C315 \in Seq(Instruction)
      /\ C316 \in Seq(Instruction)
      /\ C317 \in Seq(Instruction)
      /\ C318 \in Seq(Instruction)
  BY CodeTyped, EndsPoints, UpdatePoints DEF Point
<1>2. W("storage") \in Seq(Instruction) /\ C311 = Join(W("storage"), C312) /\ C312 \in Seq(Instruction)
  <2>1. "storage" \in Lock
    BY Locks
  <2> QED
    BY <1>1, <2>1, LockPieces DEF C311
<1>3. R("slots") \in Seq(Instruction) /\ C312 = Join(R("slots"), C313) /\ C313 \in Seq(Instruction)
  <2>1. "slots" \in Lock
    BY Locks
  <2> QED
    BY <1>1, <2>1, LockPieces DEF C312
<1>4. U("slots") \in Seq(Instruction) /\ C313 = Join(U("slots"), C314) /\ C314 \in Seq(Instruction)
  <2>1. "slots" \in Lock
    BY Locks
  <2> QED
    BY <1>1, <2>1, LockPieces DEF C313
<1>5. R("slots") \in Seq(Instruction) /\ C314 = Join(R("slots"), C315) /\ C315 \in Seq(Instruction)
  <2>1. "slots" \in Lock
    BY Locks
  <2> QED
    BY <1>1, <2>1, LockPieces DEF C314
<1>6. U("slots") \in Seq(Instruction) /\ C315 = Join(U("slots"), C316) /\ C316 \in Seq(Instruction)
  <2>1. "slots" \in Lock
    BY Locks
  <2> QED
    BY <1>1, <2>1, LockPieces DEF C315
<1>7. Do("log") \in Seq(Instruction) /\ C316 = Join(Do("log"), C317) /\ C317 \in Seq(Instruction)
  <2>1. "log" \in Name
    BY Names
  <2> QED
    BY <1>1, <2>1, DoPiece DEF C316
<1>8. U("storage") \in Seq(Instruction) /\ C317 = Join(U("storage"), C318) /\ C318 \in Seq(Instruction)
  <2>1. "storage" \in Lock
    BY Locks
  <2> QED
    BY <1>1, <2>1, LockPieces DEF C317
<1>9. a1 \in Seq(Instruction) /\ Join(a1, C312) = C311
  BY <1>2
<1>10. a2 \in Seq(Instruction) /\ Join(a2, C313) = C311
  <2> HIDE DEF a1
  <2> QED
    BY <1>3, <1>9, Attach, Joined
<1>11. a3 \in Seq(Instruction) /\ Join(a3, C314) = C311
  <2> HIDE DEF a2
  <2> QED
    BY <1>4, <1>10, Attach, Joined
<1>12. a4 \in Seq(Instruction) /\ Join(a4, C315) = C311
  <2> HIDE DEF a3
  <2> QED
    BY <1>5, <1>11, Attach, Joined
<1>13. a5 \in Seq(Instruction) /\ Join(a5, C316) = C311
  <2> HIDE DEF a4
  <2> QED
    BY <1>6, <1>12, Attach, Joined
<1>14. a6 \in Seq(Instruction) /\ Join(a6, C317) = C311
  <2> HIDE DEF a5
  <2> QED
    BY <1>7, <1>13, Attach, Joined
<1>15. a7 \in Seq(Instruction) /\ Join(a7, C318) = C311
  <2> HIDE DEF a6
  <2> QED
    BY <1>8, <1>14, Attach, Joined
<1>16. (W("storage") \o R("slots") \o U("slots") \o R("slots") \o U("slots") \o Do("log") \o U("storage")) = a7
  BY DEF Join, Join
<1> HIDE DEF a7
<1> QED
  BY <1>15, <1>16

LEMMA UpdateProgram ==
  UpdateCall = C301
<1> DEFINE rest == IF persistent THEN C311 ELSE C318
           last == IfPersistent(W("storage") \o R("slots") \o U("slots") \o R("slots") \o U("slots") \o Do("log") \o U("storage"))
           a1 == R("gate")
           a2 == Join(a1, Do("look"))
           a3 == Join(a2, Do("known?"))
           a4 == Join(a3, R("deleted"))
           a5 == Join(a4, Reading("slots", "live?"))
           a6 == Join(a5, U("deleted"))
           a7 == Join(a6, Do("dead?"))
           a8 == Join(a7, Reading("slots", "vector"))
           a9 == Join(a8, last)
           a10 == Join(a9, Writing("meta", "unindex"))
           a11 == Join(a10, Writing("meta", "index"))
           a12 == Join(a11, Writing("slots", "rewrite"))
           a13 == Join(a12, U("gate"))
           a14 == Join(a13, Do("checkpoint?"))
<1>1. /\ C301 \in Seq(Instruction)
      /\ C302 \in Seq(Instruction)
      /\ C303 \in Seq(Instruction)
      /\ C304 \in Seq(Instruction)
      /\ C305 \in Seq(Instruction)
      /\ C307 \in Seq(Instruction)
      /\ C308 \in Seq(Instruction)
      /\ C309 \in Seq(Instruction)
      /\ rest \in Seq(Instruction)
      /\ C318 \in Seq(Instruction)
      /\ C320 \in Seq(Instruction)
      /\ C322 \in Seq(Instruction)
      /\ C901 \in Seq(Instruction)
      /\ C902 \in Seq(Instruction)
      /\ C0 \in Seq(Instruction)
  BY CodeTyped, EndsPoints, UpdatePoints DEF Point
<1>2. R("gate") \in Seq(Instruction) /\ C301 = Join(R("gate"), C302) /\ C302 \in Seq(Instruction)
  <2>1. "gate" \in Lock
    BY Locks
  <2> QED
    BY <1>1, <2>1, LockPieces DEF C301
<1>3. Do("look") \in Seq(Instruction) /\ C302 = Join(Do("look"), C303) /\ C303 \in Seq(Instruction)
  <2>1. "look" \in Name
    BY Names
  <2> QED
    BY <1>1, <2>1, DoPiece DEF C302
<1>4. Do("known?") \in Seq(Instruction) /\ C303 = Join(Do("known?"), C304) /\ C304 \in Seq(Instruction)
  <2>1. "known?" \in Name
    BY Names
  <2> QED
    BY <1>1, <2>1, DoPiece DEF C303
<1>5. R("deleted") \in Seq(Instruction) /\ C304 = Join(R("deleted"), C305) /\ C305 \in Seq(Instruction)
  <2>1. "deleted" \in Lock
    BY Locks
  <2> QED
    BY <1>1, <2>1, LockPieces DEF C304
<1>6. Reading("slots", "live?") \in Seq(Instruction) /\ C305 = Join(Reading("slots", "live?"), C307) /\ C307 \in Seq(Instruction)
  <2>1. "slots" \in Lock /\ "live?" \in Name
    BY Locks, Names
  <2> QED
    BY <1>1, <2>1, AccessPieces DEF C305, C306
<1>7. U("deleted") \in Seq(Instruction) /\ C307 = Join(U("deleted"), C308) /\ C308 \in Seq(Instruction)
  <2>1. "deleted" \in Lock
    BY Locks
  <2> QED
    BY <1>1, <2>1, LockPieces DEF C307
<1>8. Do("dead?") \in Seq(Instruction) /\ C308 = Join(Do("dead?"), C309) /\ C309 \in Seq(Instruction)
  <2>1. "dead?" \in Name
    BY Names
  <2> QED
    BY <1>1, <2>1, DoPiece DEF C308
<1>9. Reading("slots", "vector") \in Seq(Instruction) /\ C309 = Join(Reading("slots", "vector"), rest) /\ rest \in Seq(Instruction)
  <2>1. "slots" \in Lock /\ "vector" \in Name
    BY Locks, Names
  <2> QED
    BY <1>1, <2>1, AccessPieces DEF C309, C310
<1>10. last \in Seq(Instruction) /\ rest = Join(last, C318) /\ C318 \in Seq(Instruction)
  <2>1. (W("storage") \o R("slots") \o U("slots") \o R("slots") \o U("slots") \o Do("log") \o U("storage")) \in Seq(Instruction) /\ Join((W("storage") \o R("slots") \o U("slots") \o R("slots") \o U("slots") \o Do("log") \o U("storage")), C318) = C311 /\ C311 \in Seq(Instruction) /\ C318 \in Seq(Instruction)
    <3>1. C311 \in Seq(Instruction)
      BY CodeTyped, UpdatePoints DEF Point
    <3> QED
      BY <1>1, <3>1, UpdateLogging
  <2> DEFINE p == (W("storage") \o R("slots") \o U("slots") \o R("slots") \o U("slots") \o Do("log") \o U("storage"))
  <2>2. p \in Seq(Instruction) /\ Join(p, C318) = C311 /\ C318 \in Seq(Instruction)
    BY <1>1, <2>1
  <2> HIDE DEF p
  <2>3. IfPersistent(p) \in Seq(Instruction) /\ Join(IfPersistent(p), C318) = IF persistent THEN C311 ELSE C318
    BY <2>1, <2>2, PersistentPiece
  <2> QED
    BY <2>2, <2>3 DEF p
<1>11. Writing("meta", "unindex") \in Seq(Instruction) /\ C318 = Join(Writing("meta", "unindex"), C320) /\ C320 \in Seq(Instruction)
  <2>1. "meta" \in Lock /\ "unindex" \in Name
    BY Locks, Names
  <2> QED
    BY <1>1, <2>1, AccessPieces DEF C318, C319
<1>12. Writing("meta", "index") \in Seq(Instruction) /\ C320 = Join(Writing("meta", "index"), C322) /\ C322 \in Seq(Instruction)
  <2>1. "meta" \in Lock /\ "index" \in Name
    BY Locks, Names
  <2> QED
    BY <1>1, <2>1, AccessPieces DEF C320, C321
<1>13. Writing("slots", "rewrite") \in Seq(Instruction) /\ C322 = Join(Writing("slots", "rewrite"), C901) /\ C901 \in Seq(Instruction)
  <2>1. "slots" \in Lock /\ "rewrite" \in Name
    BY Locks, Names
  <2> QED
    BY <1>1, <2>1, AccessPieces DEF C322, C323
<1>14. U("gate") \in Seq(Instruction) /\ C901 = Join(U("gate"), C902) /\ C902 \in Seq(Instruction)
  <2>1. "gate" \in Lock
    BY Locks
  <2> QED
    BY <1>1, <2>1, LockPieces DEF C901
<1>15. Do("checkpoint?") \in Seq(Instruction) /\ C902 = Join(Do("checkpoint?"), C0) /\ C0 \in Seq(Instruction)
  <2>1. "checkpoint?" \in Name
    BY Names
  <2> QED
    BY <1>1, <2>1, DoPiece DEF C902
<1> HIDE DEF rest, last
<1>16. a1 \in Seq(Instruction) /\ Join(a1, C302) = C301
  BY <1>2
<1>17. a2 \in Seq(Instruction) /\ Join(a2, C303) = C301
  <2> HIDE DEF a1
  <2> QED
    BY <1>3, <1>16, Attach, Joined
<1>18. a3 \in Seq(Instruction) /\ Join(a3, C304) = C301
  <2> HIDE DEF a2
  <2> QED
    BY <1>4, <1>17, Attach, Joined
<1>19. a4 \in Seq(Instruction) /\ Join(a4, C305) = C301
  <2> HIDE DEF a3
  <2> QED
    BY <1>5, <1>18, Attach, Joined
<1>20. a5 \in Seq(Instruction) /\ Join(a5, C307) = C301
  <2> HIDE DEF a4
  <2> QED
    BY <1>6, <1>19, Attach, Joined
<1>21. a6 \in Seq(Instruction) /\ Join(a6, C308) = C301
  <2> HIDE DEF a5
  <2> QED
    BY <1>7, <1>20, Attach, Joined
<1>22. a7 \in Seq(Instruction) /\ Join(a7, C309) = C301
  <2> HIDE DEF a6
  <2> QED
    BY <1>8, <1>21, Attach, Joined
<1>23. a8 \in Seq(Instruction) /\ Join(a8, rest) = C301
  <2> HIDE DEF a7
  <2> QED
    BY <1>9, <1>22, Attach, Joined
<1>24. a9 \in Seq(Instruction) /\ Join(a9, C318) = C301
  <2> HIDE DEF a8
  <2> QED
    BY <1>10, <1>23, Attach, Joined
<1>25. a10 \in Seq(Instruction) /\ Join(a10, C320) = C301
  <2> HIDE DEF a9
  <2> QED
    BY <1>11, <1>24, Attach, Joined
<1>26. a11 \in Seq(Instruction) /\ Join(a11, C322) = C301
  <2> HIDE DEF a10
  <2> QED
    BY <1>12, <1>25, Attach, Joined
<1>27. a12 \in Seq(Instruction) /\ Join(a12, C901) = C301
  <2> HIDE DEF a11
  <2> QED
    BY <1>13, <1>26, Attach, Joined
<1>28. a13 \in Seq(Instruction) /\ Join(a13, C902) = C301
  <2> HIDE DEF a12
  <2> QED
    BY <1>14, <1>27, Attach, Joined
<1>29. a14 \in Seq(Instruction) /\ Join(a14, C0) = C301
  <2> HIDE DEF a13
  <2> QED
    BY <1>15, <1>28, Attach, Joined
<1>30. UpdateCall = a14
  BY DEF UpdateCall, Join, last
<1> HIDE DEF a14
<1> QED
  BY <1>29, <1>30, <1>1, EmptyRest

LEMMA DeleteProgram ==
  DeleteCall = C401
<1> DEFINE rest == IF persistent THEN C412 ELSE C901
           last == IfPersistent(Writing("storage", "unlog"))
           a1 == R("gate")
           a2 == Join(a1, Do("look"))
           a3 == Join(a2, Do("known?"))
           a4 == Join(a3, W("deleted"))
           a5 == Join(a4, Do("delete"))
           a6 == Join(a5, U("deleted"))
           a7 == Join(a6, Do("dead?"))
           a8 == Join(a7, Writing("meta", "unindex"))
           a9 == Join(a8, Writing("sparse", "drop"))
           a10 == Join(a9, last)
           a11 == Join(a10, U("gate"))
           a12 == Join(a11, Do("checkpoint?"))
<1>1. /\ C401 \in Seq(Instruction)
      /\ C402 \in Seq(Instruction)
      /\ C403 \in Seq(Instruction)
      /\ C404 \in Seq(Instruction)
      /\ C405 \in Seq(Instruction)
      /\ C406 \in Seq(Instruction)
      /\ C407 \in Seq(Instruction)
      /\ C408 \in Seq(Instruction)
      /\ C410 \in Seq(Instruction)
      /\ rest \in Seq(Instruction)
      /\ C901 \in Seq(Instruction)
      /\ C902 \in Seq(Instruction)
      /\ C0 \in Seq(Instruction)
  BY CodeTyped, EndsPoints, DeletePoints DEF Point
<1>2. R("gate") \in Seq(Instruction) /\ C401 = Join(R("gate"), C402) /\ C402 \in Seq(Instruction)
  <2>1. "gate" \in Lock
    BY Locks
  <2> QED
    BY <1>1, <2>1, LockPieces DEF C401
<1>3. Do("look") \in Seq(Instruction) /\ C402 = Join(Do("look"), C403) /\ C403 \in Seq(Instruction)
  <2>1. "look" \in Name
    BY Names
  <2> QED
    BY <1>1, <2>1, DoPiece DEF C402
<1>4. Do("known?") \in Seq(Instruction) /\ C403 = Join(Do("known?"), C404) /\ C404 \in Seq(Instruction)
  <2>1. "known?" \in Name
    BY Names
  <2> QED
    BY <1>1, <2>1, DoPiece DEF C403
<1>5. W("deleted") \in Seq(Instruction) /\ C404 = Join(W("deleted"), C405) /\ C405 \in Seq(Instruction)
  <2>1. "deleted" \in Lock
    BY Locks
  <2> QED
    BY <1>1, <2>1, LockPieces DEF C404
<1>6. Do("delete") \in Seq(Instruction) /\ C405 = Join(Do("delete"), C406) /\ C406 \in Seq(Instruction)
  <2>1. "delete" \in Name
    BY Names
  <2> QED
    BY <1>1, <2>1, DoPiece DEF C405
<1>7. U("deleted") \in Seq(Instruction) /\ C406 = Join(U("deleted"), C407) /\ C407 \in Seq(Instruction)
  <2>1. "deleted" \in Lock
    BY Locks
  <2> QED
    BY <1>1, <2>1, LockPieces DEF C406
<1>8. Do("dead?") \in Seq(Instruction) /\ C407 = Join(Do("dead?"), C408) /\ C408 \in Seq(Instruction)
  <2>1. "dead?" \in Name
    BY Names
  <2> QED
    BY <1>1, <2>1, DoPiece DEF C407
<1>9. Writing("meta", "unindex") \in Seq(Instruction) /\ C408 = Join(Writing("meta", "unindex"), C410) /\ C410 \in Seq(Instruction)
  <2>1. "meta" \in Lock /\ "unindex" \in Name
    BY Locks, Names
  <2> QED
    BY <1>1, <2>1, AccessPieces DEF C408, C409
<1>10. Writing("sparse", "drop") \in Seq(Instruction) /\ C410 = Join(Writing("sparse", "drop"), rest) /\ rest \in Seq(Instruction)
  <2>1. "sparse" \in Lock /\ "drop" \in Name
    BY Locks, Names
  <2> QED
    BY <1>1, <2>1, AccessPieces DEF C410, C411
<1>11. last \in Seq(Instruction) /\ rest = Join(last, C901) /\ C901 \in Seq(Instruction)
  <2>1. Writing("storage", "unlog") \in Seq(Instruction) /\ Join(Writing("storage", "unlog"), C901) = C412 /\ C412 \in Seq(Instruction) /\ C901 \in Seq(Instruction)
    <3>1. "storage" \in Lock /\ "unlog" \in Name
      BY Locks, Names
    <3>2. C412 \in Seq(Instruction)
      BY CodeTyped, BatchPoints, DeletePoints DEF Point
    <3> QED
      BY <1>1, <3>1, <3>2, AccessPieces DEF C412, C413
  <2> DEFINE p == Writing("storage", "unlog")
  <2>2. p \in Seq(Instruction) /\ Join(p, C901) = C412 /\ C901 \in Seq(Instruction)
    BY <1>1, <2>1
  <2> HIDE DEF p
  <2>3. IfPersistent(p) \in Seq(Instruction) /\ Join(IfPersistent(p), C901) = IF persistent THEN C412 ELSE C901
    BY <2>1, <2>2, PersistentPiece
  <2> QED
    BY <2>2, <2>3 DEF p
<1>12. U("gate") \in Seq(Instruction) /\ C901 = Join(U("gate"), C902) /\ C902 \in Seq(Instruction)
  <2>1. "gate" \in Lock
    BY Locks
  <2> QED
    BY <1>1, <2>1, LockPieces DEF C901
<1>13. Do("checkpoint?") \in Seq(Instruction) /\ C902 = Join(Do("checkpoint?"), C0) /\ C0 \in Seq(Instruction)
  <2>1. "checkpoint?" \in Name
    BY Names
  <2> QED
    BY <1>1, <2>1, DoPiece DEF C902
<1> HIDE DEF rest, last
<1>14. a1 \in Seq(Instruction) /\ Join(a1, C402) = C401
  BY <1>2
<1>15. a2 \in Seq(Instruction) /\ Join(a2, C403) = C401
  <2> HIDE DEF a1
  <2> QED
    BY <1>3, <1>14, Attach, Joined
<1>16. a3 \in Seq(Instruction) /\ Join(a3, C404) = C401
  <2> HIDE DEF a2
  <2> QED
    BY <1>4, <1>15, Attach, Joined
<1>17. a4 \in Seq(Instruction) /\ Join(a4, C405) = C401
  <2> HIDE DEF a3
  <2> QED
    BY <1>5, <1>16, Attach, Joined
<1>18. a5 \in Seq(Instruction) /\ Join(a5, C406) = C401
  <2> HIDE DEF a4
  <2> QED
    BY <1>6, <1>17, Attach, Joined
<1>19. a6 \in Seq(Instruction) /\ Join(a6, C407) = C401
  <2> HIDE DEF a5
  <2> QED
    BY <1>7, <1>18, Attach, Joined
<1>20. a7 \in Seq(Instruction) /\ Join(a7, C408) = C401
  <2> HIDE DEF a6
  <2> QED
    BY <1>8, <1>19, Attach, Joined
<1>21. a8 \in Seq(Instruction) /\ Join(a8, C410) = C401
  <2> HIDE DEF a7
  <2> QED
    BY <1>9, <1>20, Attach, Joined
<1>22. a9 \in Seq(Instruction) /\ Join(a9, rest) = C401
  <2> HIDE DEF a8
  <2> QED
    BY <1>10, <1>21, Attach, Joined
<1>23. a10 \in Seq(Instruction) /\ Join(a10, C901) = C401
  <2> HIDE DEF a9
  <2> QED
    BY <1>11, <1>22, Attach, Joined
<1>24. a11 \in Seq(Instruction) /\ Join(a11, C902) = C401
  <2> HIDE DEF a10
  <2> QED
    BY <1>12, <1>23, Attach, Joined
<1>25. a12 \in Seq(Instruction) /\ Join(a12, C0) = C401
  <2> HIDE DEF a11
  <2> QED
    BY <1>13, <1>24, Attach, Joined
<1>26. DeleteCall = a12
  BY DEF DeleteCall, Join, last
<1> HIDE DEF a12
<1> QED
  BY <1>25, <1>26, <1>1, EmptyRest

LEMMA GetProgram ==
  GetCall = C501
<1> DEFINE a1 == Do("look")
           a2 == Join(a1, Do("known?"))
           a3 == Join(a2, Reading("deleted", "buried?"))
           a4 == Join(a3, Do("dead?"))
           a5 == Join(a4, Reading("slots", "record"))
<1>1. /\ C501 \in Seq(Instruction)
      /\ C502 \in Seq(Instruction)
      /\ C503 \in Seq(Instruction)
      /\ C505 \in Seq(Instruction)
      /\ C506 \in Seq(Instruction)
      /\ C0 \in Seq(Instruction)
  BY CodeTyped, EndsPoints, ReadsPoints DEF Point
<1>2. Do("look") \in Seq(Instruction) /\ C501 = Join(Do("look"), C502) /\ C502 \in Seq(Instruction)
  <2>1. "look" \in Name
    BY Names
  <2> QED
    BY <1>1, <2>1, DoPiece DEF C501
<1>3. Do("known?") \in Seq(Instruction) /\ C502 = Join(Do("known?"), C503) /\ C503 \in Seq(Instruction)
  <2>1. "known?" \in Name
    BY Names
  <2> QED
    BY <1>1, <2>1, DoPiece DEF C502
<1>4. Reading("deleted", "buried?") \in Seq(Instruction) /\ C503 = Join(Reading("deleted", "buried?"), C505) /\ C505 \in Seq(Instruction)
  <2>1. "deleted" \in Lock /\ "buried?" \in Name
    BY Locks, Names
  <2> QED
    BY <1>1, <2>1, AccessPieces DEF C503, C504
<1>5. Do("dead?") \in Seq(Instruction) /\ C505 = Join(Do("dead?"), C506) /\ C506 \in Seq(Instruction)
  <2>1. "dead?" \in Name
    BY Names
  <2> QED
    BY <1>1, <2>1, DoPiece DEF C505
<1>6. Reading("slots", "record") \in Seq(Instruction) /\ C506 = Join(Reading("slots", "record"), C0) /\ C0 \in Seq(Instruction)
  <2>1. "slots" \in Lock /\ "record" \in Name
    BY Locks, Names
  <2> QED
    BY <1>1, <2>1, AccessPieces DEF C506, C507
<1>7. a1 \in Seq(Instruction) /\ Join(a1, C502) = C501
  BY <1>2
<1>8. a2 \in Seq(Instruction) /\ Join(a2, C503) = C501
  <2> HIDE DEF a1
  <2> QED
    BY <1>3, <1>7, Attach, Joined
<1>9. a3 \in Seq(Instruction) /\ Join(a3, C505) = C501
  <2> HIDE DEF a2
  <2> QED
    BY <1>4, <1>8, Attach, Joined
<1>10. a4 \in Seq(Instruction) /\ Join(a4, C506) = C501
  <2> HIDE DEF a3
  <2> QED
    BY <1>5, <1>9, Attach, Joined
<1>11. a5 \in Seq(Instruction) /\ Join(a5, C0) = C501
  <2> HIDE DEF a4
  <2> QED
    BY <1>6, <1>10, Attach, Joined
<1>12. GetCall = a5
  BY DEF GetCall, Join
<1> HIDE DEF a5
<1> QED
  BY <1>11, <1>12, <1>1, EmptyRest

LEMMA SearchProgram ==
  SearchCall = C601
<1> DEFINE a1 == Do("view")
           a2 == Join(a1, Do("known?"))
           a3 == Join(a2, Reading("deleted", "buried?"))
           a4 == Join(a3, Do("dead?"))
           a5 == Join(a4, Reading("slots", "id"))
<1>1. /\ C601 \in Seq(Instruction)
      /\ C602 \in Seq(Instruction)
      /\ C603 \in Seq(Instruction)
      /\ C605 \in Seq(Instruction)
      /\ C606 \in Seq(Instruction)
      /\ C0 \in Seq(Instruction)
  BY CodeTyped, EndsPoints, ReadsPoints DEF Point
<1>2. Do("view") \in Seq(Instruction) /\ C601 = Join(Do("view"), C602) /\ C602 \in Seq(Instruction)
  <2>1. "view" \in Name
    BY Names
  <2> QED
    BY <1>1, <2>1, DoPiece DEF C601
<1>3. Do("known?") \in Seq(Instruction) /\ C602 = Join(Do("known?"), C603) /\ C603 \in Seq(Instruction)
  <2>1. "known?" \in Name
    BY Names
  <2> QED
    BY <1>1, <2>1, DoPiece DEF C602
<1>4. Reading("deleted", "buried?") \in Seq(Instruction) /\ C603 = Join(Reading("deleted", "buried?"), C605) /\ C605 \in Seq(Instruction)
  <2>1. "deleted" \in Lock /\ "buried?" \in Name
    BY Locks, Names
  <2> QED
    BY <1>1, <2>1, AccessPieces DEF C603, C604
<1>5. Do("dead?") \in Seq(Instruction) /\ C605 = Join(Do("dead?"), C606) /\ C606 \in Seq(Instruction)
  <2>1. "dead?" \in Name
    BY Names
  <2> QED
    BY <1>1, <2>1, DoPiece DEF C605
<1>6. Reading("slots", "id") \in Seq(Instruction) /\ C606 = Join(Reading("slots", "id"), C0) /\ C0 \in Seq(Instruction)
  <2>1. "slots" \in Lock /\ "id" \in Name
    BY Locks, Names
  <2> QED
    BY <1>1, <2>1, AccessPieces DEF C606, C607
<1>7. a1 \in Seq(Instruction) /\ Join(a1, C602) = C601
  BY <1>2
<1>8. a2 \in Seq(Instruction) /\ Join(a2, C603) = C601
  <2> HIDE DEF a1
  <2> QED
    BY <1>3, <1>7, Attach, Joined
<1>9. a3 \in Seq(Instruction) /\ Join(a3, C605) = C601
  <2> HIDE DEF a2
  <2> QED
    BY <1>4, <1>8, Attach, Joined
<1>10. a4 \in Seq(Instruction) /\ Join(a4, C606) = C601
  <2> HIDE DEF a3
  <2> QED
    BY <1>5, <1>9, Attach, Joined
<1>11. a5 \in Seq(Instruction) /\ Join(a5, C0) = C601
  <2> HIDE DEF a4
  <2> QED
    BY <1>6, <1>10, Attach, Joined
<1>12. SearchCall = a5
  BY DEF SearchCall, Join
<1> HIDE DEF a5
<1> QED
  BY <1>11, <1>12, <1>1, EmptyRest

LEMMA CheckpointSaving ==
  (R("storage") \o U("storage") \o R("sparse") \o U("sparse") \o W("storage") \o Reading("slots", "save") \o U("storage")) \in Seq(Instruction) /\ Join((R("storage") \o U("storage") \o R("sparse") \o U("sparse") \o W("storage") \o Reading("slots", "save") \o U("storage")), C810) = C802
<1> DEFINE a1 == R("storage")
           a2 == Join(a1, U("storage"))
           a3 == Join(a2, R("sparse"))
           a4 == Join(a3, U("sparse"))
           a5 == Join(a4, W("storage"))
           a6 == Join(a5, Reading("slots", "save"))
           a7 == Join(a6, U("storage"))
<1>1. /\ C802 \in Seq(Instruction)
      /\ C803 \in Seq(Instruction)
      /\ C804 \in Seq(Instruction)
      /\ C805 \in Seq(Instruction)
      /\ C806 \in Seq(Instruction)
      /\ C807 \in Seq(Instruction)
      /\ C809 \in Seq(Instruction)
      /\ C810 \in Seq(Instruction)
  BY CodeTyped, EndsPoints DEF Point
<1>2. R("storage") \in Seq(Instruction) /\ C802 = Join(R("storage"), C803) /\ C803 \in Seq(Instruction)
  <2>1. "storage" \in Lock
    BY Locks
  <2> QED
    BY <1>1, <2>1, LockPieces DEF C802
<1>3. U("storage") \in Seq(Instruction) /\ C803 = Join(U("storage"), C804) /\ C804 \in Seq(Instruction)
  <2>1. "storage" \in Lock
    BY Locks
  <2> QED
    BY <1>1, <2>1, LockPieces DEF C803
<1>4. R("sparse") \in Seq(Instruction) /\ C804 = Join(R("sparse"), C805) /\ C805 \in Seq(Instruction)
  <2>1. "sparse" \in Lock
    BY Locks
  <2> QED
    BY <1>1, <2>1, LockPieces DEF C804
<1>5. U("sparse") \in Seq(Instruction) /\ C805 = Join(U("sparse"), C806) /\ C806 \in Seq(Instruction)
  <2>1. "sparse" \in Lock
    BY Locks
  <2> QED
    BY <1>1, <2>1, LockPieces DEF C805
<1>6. W("storage") \in Seq(Instruction) /\ C806 = Join(W("storage"), C807) /\ C807 \in Seq(Instruction)
  <2>1. "storage" \in Lock
    BY Locks
  <2> QED
    BY <1>1, <2>1, LockPieces DEF C806
<1>7. Reading("slots", "save") \in Seq(Instruction) /\ C807 = Join(Reading("slots", "save"), C809) /\ C809 \in Seq(Instruction)
  <2>1. "slots" \in Lock /\ "save" \in Name
    BY Locks, Names
  <2> QED
    BY <1>1, <2>1, AccessPieces DEF C807, C808
<1>8. U("storage") \in Seq(Instruction) /\ C809 = Join(U("storage"), C810) /\ C810 \in Seq(Instruction)
  <2>1. "storage" \in Lock
    BY Locks
  <2> QED
    BY <1>1, <2>1, LockPieces DEF C809
<1>9. a1 \in Seq(Instruction) /\ Join(a1, C803) = C802
  BY <1>2
<1>10. a2 \in Seq(Instruction) /\ Join(a2, C804) = C802
  <2> HIDE DEF a1
  <2> QED
    BY <1>3, <1>9, Attach, Joined
<1>11. a3 \in Seq(Instruction) /\ Join(a3, C805) = C802
  <2> HIDE DEF a2
  <2> QED
    BY <1>4, <1>10, Attach, Joined
<1>12. a4 \in Seq(Instruction) /\ Join(a4, C806) = C802
  <2> HIDE DEF a3
  <2> QED
    BY <1>5, <1>11, Attach, Joined
<1>13. a5 \in Seq(Instruction) /\ Join(a5, C807) = C802
  <2> HIDE DEF a4
  <2> QED
    BY <1>6, <1>12, Attach, Joined
<1>14. a6 \in Seq(Instruction) /\ Join(a6, C809) = C802
  <2> HIDE DEF a5
  <2> QED
    BY <1>7, <1>13, Attach, Joined
<1>15. a7 \in Seq(Instruction) /\ Join(a7, C810) = C802
  <2> HIDE DEF a6
  <2> QED
    BY <1>8, <1>14, Attach, Joined
<1>16. (R("storage") \o U("storage") \o R("sparse") \o U("sparse") \o W("storage") \o Reading("slots", "save") \o U("storage")) = a7
  BY DEF Join, Join
<1> HIDE DEF a7
<1> QED
  BY <1>15, <1>16

LEMMA CheckpointProgram ==
  CheckpointCall = C801
<1> DEFINE rest == IF persistent THEN C802 ELSE C810
           last == IfPersistent(R("storage") \o U("storage") \o R("sparse") \o U("sparse") \o W("storage") \o Reading("slots", "save") \o U("storage"))
           a1 == W("gate")
           a2 == Join(a1, last)
           a3 == Join(a2, U("gate"))
<1>1. /\ C801 \in Seq(Instruction)
      /\ rest \in Seq(Instruction)
      /\ C810 \in Seq(Instruction)
      /\ C0 \in Seq(Instruction)
  BY CodeTyped, EndsPoints DEF Point
<1>2. W("gate") \in Seq(Instruction) /\ C801 = Join(W("gate"), rest) /\ rest \in Seq(Instruction)
  <2>1. "gate" \in Lock
    BY Locks
  <2> QED
    BY <1>1, <2>1, LockPieces DEF C801
<1>3. last \in Seq(Instruction) /\ rest = Join(last, C810) /\ C810 \in Seq(Instruction)
  <2>1. (R("storage") \o U("storage") \o R("sparse") \o U("sparse") \o W("storage") \o Reading("slots", "save") \o U("storage")) \in Seq(Instruction) /\ Join((R("storage") \o U("storage") \o R("sparse") \o U("sparse") \o W("storage") \o Reading("slots", "save") \o U("storage")), C810) = C802 /\ C802 \in Seq(Instruction) /\ C810 \in Seq(Instruction)
    <3>1. C802 \in Seq(Instruction)
      BY CodeTyped, EndsPoints DEF Point
    <3> QED
      BY <1>1, <3>1, CheckpointSaving
  <2> DEFINE p == (R("storage") \o U("storage") \o R("sparse") \o U("sparse") \o W("storage") \o Reading("slots", "save") \o U("storage"))
  <2>2. p \in Seq(Instruction) /\ Join(p, C810) = C802 /\ C810 \in Seq(Instruction)
    BY <1>1, <2>1
  <2> HIDE DEF p
  <2>3. IfPersistent(p) \in Seq(Instruction) /\ Join(IfPersistent(p), C810) = IF persistent THEN C802 ELSE C810
    BY <2>1, <2>2, PersistentPiece
  <2> QED
    BY <2>2, <2>3 DEF p
<1>4. U("gate") \in Seq(Instruction) /\ C810 = Join(U("gate"), C0) /\ C0 \in Seq(Instruction)
  <2>1. "gate" \in Lock
    BY Locks
  <2> QED
    BY <1>1, <2>1, LockPieces DEF C810
<1> HIDE DEF rest, last
<1>5. a1 \in Seq(Instruction) /\ Join(a1, rest) = C801
  BY <1>2
<1>6. a2 \in Seq(Instruction) /\ Join(a2, C810) = C801
  <2> HIDE DEF a1
  <2> QED
    BY <1>3, <1>5, Attach, Joined
<1>7. a3 \in Seq(Instruction) /\ Join(a3, C0) = C801
  <2> HIDE DEF a2
  <2> QED
    BY <1>4, <1>6, Attach, Joined
<1>8. CheckpointCall = a3
  BY DEF CheckpointCall, Join, last
<1> HIDE DEF a3
<1> QED
  BY <1>7, <1>8, <1>1, EmptyRest

LEMMA CompactProgram ==
  CompactCall = C701
<1> DEFINE a1 == W("gate")
           a2 == Join(a1, R("slots"))
           a3 == Join(a2, Reading("deleted", "pack"))
           a4 == Join(a3, U("slots"))
           a5 == Join(a4, Writing("slots", "replace"))
           a6 == Join(a5, Do("clear"))
           a7 == Join(a6, Do("fill"))
           a8 == Join(a7, Writing("deleted", "exhume"))
           a9 == Join(a8, Writing("sparse", "renumber"))
           a10 == Join(a9, R("slots"))
           a11 == Join(a10, Writing("engine", "rebuild"))
           a12 == Join(a11, U("slots"))
           a13 == Join(a12, Writing("meta", "forget"))
           a14 == Join(a13, Reading("slots", "collect"))
           a15 == Join(a14, Writing("meta", "restore"))
           a16 == Join(a15, U("gate"))
<1>1. /\ C701 \in Seq(Instruction)
      /\ C702 \in Seq(Instruction)
      /\ C703 \in Seq(Instruction)
      /\ C705 \in Seq(Instruction)
      /\ C706 \in Seq(Instruction)
      /\ C708 \in Seq(Instruction)
      /\ C709 \in Seq(Instruction)
      /\ C710 \in Seq(Instruction)
      /\ C712 \in Seq(Instruction)
      /\ C714 \in Seq(Instruction)
      /\ C715 \in Seq(Instruction)
      /\ C717 \in Seq(Instruction)
      /\ C718 \in Seq(Instruction)
      /\ C720 \in Seq(Instruction)
      /\ C722 \in Seq(Instruction)
      /\ C724 \in Seq(Instruction)
      /\ C0 \in Seq(Instruction)
  BY CodeTyped, EndsPoints, CompactPoints DEF Point
<1>2. W("gate") \in Seq(Instruction) /\ C701 = Join(W("gate"), C702) /\ C702 \in Seq(Instruction)
  <2>1. "gate" \in Lock
    BY Locks
  <2> QED
    BY <1>1, <2>1, LockPieces DEF C701
<1>3. R("slots") \in Seq(Instruction) /\ C702 = Join(R("slots"), C703) /\ C703 \in Seq(Instruction)
  <2>1. "slots" \in Lock
    BY Locks
  <2> QED
    BY <1>1, <2>1, LockPieces DEF C702
<1>4. Reading("deleted", "pack") \in Seq(Instruction) /\ C703 = Join(Reading("deleted", "pack"), C705) /\ C705 \in Seq(Instruction)
  <2>1. "deleted" \in Lock /\ "pack" \in Name
    BY Locks, Names
  <2> QED
    BY <1>1, <2>1, AccessPieces DEF C703, C704
<1>5. U("slots") \in Seq(Instruction) /\ C705 = Join(U("slots"), C706) /\ C706 \in Seq(Instruction)
  <2>1. "slots" \in Lock
    BY Locks
  <2> QED
    BY <1>1, <2>1, LockPieces DEF C705
<1>6. Writing("slots", "replace") \in Seq(Instruction) /\ C706 = Join(Writing("slots", "replace"), C708) /\ C708 \in Seq(Instruction)
  <2>1. "slots" \in Lock /\ "replace" \in Name
    BY Locks, Names
  <2> QED
    BY <1>1, <2>1, AccessPieces DEF C706, C707
<1>7. Do("clear") \in Seq(Instruction) /\ C708 = Join(Do("clear"), C709) /\ C709 \in Seq(Instruction)
  <2>1. "clear" \in Name
    BY Names
  <2> QED
    BY <1>1, <2>1, DoPiece DEF C708
<1>8. Do("fill") \in Seq(Instruction) /\ C709 = Join(Do("fill"), C710) /\ C710 \in Seq(Instruction)
  <2>1. "fill" \in Name
    BY Names
  <2> QED
    BY <1>1, <2>1, DoPiece DEF C709
<1>9. Writing("deleted", "exhume") \in Seq(Instruction) /\ C710 = Join(Writing("deleted", "exhume"), C712) /\ C712 \in Seq(Instruction)
  <2>1. "deleted" \in Lock /\ "exhume" \in Name
    BY Locks, Names
  <2> QED
    BY <1>1, <2>1, AccessPieces DEF C710, C711
<1>10. Writing("sparse", "renumber") \in Seq(Instruction) /\ C712 = Join(Writing("sparse", "renumber"), C714) /\ C714 \in Seq(Instruction)
  <2>1. "sparse" \in Lock /\ "renumber" \in Name
    BY Locks, Names
  <2> QED
    BY <1>1, <2>1, AccessPieces DEF C712, C713
<1>11. R("slots") \in Seq(Instruction) /\ C714 = Join(R("slots"), C715) /\ C715 \in Seq(Instruction)
  <2>1. "slots" \in Lock
    BY Locks
  <2> QED
    BY <1>1, <2>1, LockPieces DEF C714
<1>12. Writing("engine", "rebuild") \in Seq(Instruction) /\ C715 = Join(Writing("engine", "rebuild"), C717) /\ C717 \in Seq(Instruction)
  <2>1. "engine" \in Lock /\ "rebuild" \in Name
    BY Locks, Names
  <2> QED
    BY <1>1, <2>1, AccessPieces DEF C715, C716
<1>13. U("slots") \in Seq(Instruction) /\ C717 = Join(U("slots"), C718) /\ C718 \in Seq(Instruction)
  <2>1. "slots" \in Lock
    BY Locks
  <2> QED
    BY <1>1, <2>1, LockPieces DEF C717
<1>14. Writing("meta", "forget") \in Seq(Instruction) /\ C718 = Join(Writing("meta", "forget"), C720) /\ C720 \in Seq(Instruction)
  <2>1. "meta" \in Lock /\ "forget" \in Name
    BY Locks, Names
  <2> QED
    BY <1>1, <2>1, AccessPieces DEF C718, C719
<1>15. Reading("slots", "collect") \in Seq(Instruction) /\ C720 = Join(Reading("slots", "collect"), C722) /\ C722 \in Seq(Instruction)
  <2>1. "slots" \in Lock /\ "collect" \in Name
    BY Locks, Names
  <2> QED
    BY <1>1, <2>1, AccessPieces DEF C720, C721
<1>16. Writing("meta", "restore") \in Seq(Instruction) /\ C722 = Join(Writing("meta", "restore"), C724) /\ C724 \in Seq(Instruction)
  <2>1. "meta" \in Lock /\ "restore" \in Name
    BY Locks, Names
  <2> QED
    BY <1>1, <2>1, AccessPieces DEF C722, C723
<1>17. U("gate") \in Seq(Instruction) /\ C724 = Join(U("gate"), C0) /\ C0 \in Seq(Instruction)
  <2>1. "gate" \in Lock
    BY Locks
  <2> QED
    BY <1>1, <2>1, LockPieces DEF C724
<1>18. a1 \in Seq(Instruction) /\ Join(a1, C702) = C701
  BY <1>2
<1>19. a2 \in Seq(Instruction) /\ Join(a2, C703) = C701
  <2> HIDE DEF a1
  <2> QED
    BY <1>3, <1>18, Attach, Joined
<1>20. a3 \in Seq(Instruction) /\ Join(a3, C705) = C701
  <2> HIDE DEF a2
  <2> QED
    BY <1>4, <1>19, Attach, Joined
<1>21. a4 \in Seq(Instruction) /\ Join(a4, C706) = C701
  <2> HIDE DEF a3
  <2> QED
    BY <1>5, <1>20, Attach, Joined
<1>22. a5 \in Seq(Instruction) /\ Join(a5, C708) = C701
  <2> HIDE DEF a4
  <2> QED
    BY <1>6, <1>21, Attach, Joined
<1>23. a6 \in Seq(Instruction) /\ Join(a6, C709) = C701
  <2> HIDE DEF a5
  <2> QED
    BY <1>7, <1>22, Attach, Joined
<1>24. a7 \in Seq(Instruction) /\ Join(a7, C710) = C701
  <2> HIDE DEF a6
  <2> QED
    BY <1>8, <1>23, Attach, Joined
<1>25. a8 \in Seq(Instruction) /\ Join(a8, C712) = C701
  <2> HIDE DEF a7
  <2> QED
    BY <1>9, <1>24, Attach, Joined
<1>26. a9 \in Seq(Instruction) /\ Join(a9, C714) = C701
  <2> HIDE DEF a8
  <2> QED
    BY <1>10, <1>25, Attach, Joined
<1>27. a10 \in Seq(Instruction) /\ Join(a10, C715) = C701
  <2> HIDE DEF a9
  <2> QED
    BY <1>11, <1>26, Attach, Joined
<1>28. a11 \in Seq(Instruction) /\ Join(a11, C717) = C701
  <2> HIDE DEF a10
  <2> QED
    BY <1>12, <1>27, Attach, Joined
<1>29. a12 \in Seq(Instruction) /\ Join(a12, C718) = C701
  <2> HIDE DEF a11
  <2> QED
    BY <1>13, <1>28, Attach, Joined
<1>30. a13 \in Seq(Instruction) /\ Join(a13, C720) = C701
  <2> HIDE DEF a12
  <2> QED
    BY <1>14, <1>29, Attach, Joined
<1>31. a14 \in Seq(Instruction) /\ Join(a14, C722) = C701
  <2> HIDE DEF a13
  <2> QED
    BY <1>15, <1>30, Attach, Joined
<1>32. a15 \in Seq(Instruction) /\ Join(a15, C724) = C701
  <2> HIDE DEF a14
  <2> QED
    BY <1>16, <1>31, Attach, Joined
<1>33. a16 \in Seq(Instruction) /\ Join(a16, C0) = C701
  <2> HIDE DEF a15
  <2> QED
    BY <1>17, <1>32, Attach, Joined
<1>34. CompactCall = a16
  BY DEF CompactCall, Join
<1> HIDE DEF a16
<1> QED
  BY <1>33, <1>34, <1>1, EmptyRest

-----------------------------------------------------------------------------
(* What the instructions at the points do with the locks.                  *)

\* The points that are about to take a lock shared, to claim it, and to access.
ReadAt(l) ==
  CASE l = "gate" -> {101, 201, 301, 401}
    [] l = "deleted" -> {304, 503, 603, 703}
    [] l = "slots" -> {106, 113, 124, 126, 128, 215, 222, 245, 253, 305, 309, 312, 314, 506, 606, 702, 714, 720, 807}
    [] l = "engine" -> {241}
    [] l = "meta" -> {}
    [] l = "sparse" -> {804}
    [] l = "storage" -> {204, 802}

ClaimAt(l) ==
  CASE l = "gate" -> {701, 801}
    [] l = "deleted" -> {108, 217, 247, 404, 710}
    [] l = "slots" -> {110, 219, 249, 322, 706}
    [] l = "engine" -> {102, 114, 213, 254, 715}
    [] l = "meta" -> {118, 122, 211, 243, 318, 320, 408, 718, 722}
    [] l = "sparse" -> {120, 212, 410, 712}
    [] l = "storage" -> {125, 311, 412, 806}

DoAt == {107, 109, 111, 112, 119, 121, 123, 127, 202, 203, 205, 214, 216, 218, 220, 221,
          242, 244, 246, 248, 302, 303, 310, 313, 319, 321, 323, 402, 403, 409, 411,
          413, 501, 502, 504, 505, 507, 601, 602, 604, 605, 607, 704, 705, 711, 713,
          716, 717, 719, 721, 723, 724, 803, 805} \cup 103..105 \cup 115..117 \cup
          129..132 \cup 223..229 \cup 250..252 \cup 255..257 \cup 306..308 \cup
          315..317 \cup 405..407 \cup 707..709 \cup 808..810 \cup 901..903

LEMMA SetInstructions ==
  /\ Instr(101) = <<"read", "gate">> /\ Instr(102) = <<"claim", "engine">>
  /\ Instr(103) = <<"do", "nothing", "engine">> /\ Instr(104) = <<"do", "look", "none">>
  /\ Instr(105) = <<"do", "find", "none">> /\ Instr(106) = <<"read", "slots">>
  /\ Instr(107) = <<"do", "carry", "slots">> /\ Instr(108) = <<"claim", "deleted">>
  /\ Instr(109) = <<"do", "bury", "none">> /\ Instr(110) = <<"claim", "slots">>
  /\ Instr(111) = <<"do", "push", "slots">> /\ Instr(112) = <<"do", "nothing", "deleted">>
  /\ Instr(113) = <<"read", "slots">> /\ Instr(114) = <<"claim", "engine">>
  /\ Instr(115) = <<"do", "insert", "engine">> /\ Instr(116) = <<"do", "nothing", "slots">>
  /\ Instr(117) = <<"do", "moved", "none">> /\ Instr(118) = <<"claim", "meta">>
  /\ Instr(119) = <<"do", "unindex", "meta">> /\ Instr(120) = <<"claim", "sparse">>
  /\ Instr(121) = <<"do", "remap", "sparse">> /\ Instr(122) = <<"claim", "meta">>
  /\ Instr(123) = <<"do", "index", "meta">> /\ Instr(124) = <<"read", "slots">>
  /\ Instr(125) = <<"claim", "storage">> /\ Instr(126) = <<"read", "slots">>
  /\ Instr(127) = <<"do", "nothing", "slots">> /\ Instr(128) = <<"read", "slots">>
  /\ Instr(129) = <<"do", "nothing", "slots">> /\ Instr(130) = <<"do", "log", "none">>
  /\ Instr(131) = <<"do", "nothing", "storage">> /\ Instr(132) = <<"do", "nothing", "slots">>
  BY DEF Instr

LEMMA BatchInstructions ==
  /\ Instr(201) = <<"read", "gate">> /\ Instr(202) = <<"do", "look", "none">>
  /\ Instr(203) = <<"do", "split", "none">> /\ Instr(204) = <<"read", "storage">>
  /\ Instr(205) = <<"do", "full?", "storage">> /\ Instr(211) = <<"claim", "meta">>
  /\ Instr(212) = <<"claim", "sparse">> /\ Instr(213) = <<"claim", "engine">>
  /\ Instr(214) = <<"do", "find", "none">> /\ Instr(215) = <<"read", "slots">>
  /\ Instr(216) = <<"do", "carry", "slots">> /\ Instr(217) = <<"claim", "deleted">>
  /\ Instr(218) = <<"do", "bury", "none">> /\ Instr(219) = <<"claim", "slots">>
  /\ Instr(220) = <<"do", "push", "slots">> /\ Instr(221) = <<"do", "nothing", "deleted">>
  /\ Instr(222) = <<"read", "slots">> /\ Instr(223) = <<"do", "insert", "slots">>
  /\ Instr(224) = <<"do", "unindex", "none">> /\ Instr(225) = <<"do", "remap", "none">>
  /\ Instr(226) = <<"do", "index", "none">> /\ Instr(227) = <<"do", "nothing", "engine">>
  /\ Instr(228) = <<"do", "nothing", "sparse">> /\ Instr(229) = <<"do", "nothing", "meta">>
  /\ Instr(241) = <<"read", "engine">> /\ Instr(242) = <<"do", "nothing", "engine">>
  /\ Instr(243) = <<"claim", "meta">> /\ Instr(244) = <<"do", "find", "none">>
  /\ Instr(245) = <<"read", "slots">> /\ Instr(246) = <<"do", "carry", "slots">>
  /\ Instr(247) = <<"claim", "deleted">> /\ Instr(248) = <<"do", "bury", "none">>
  /\ Instr(249) = <<"claim", "slots">> /\ Instr(250) = <<"do", "push", "slots">>
  /\ Instr(251) = <<"do", "nothing", "deleted">> /\ Instr(252) = <<"do", "index", "none">>
  /\ Instr(253) = <<"read", "slots">> /\ Instr(254) = <<"claim", "engine">>
  /\ Instr(255) = <<"do", "insert", "engine">> /\ Instr(256) = <<"do", "nothing", "slots">>
  /\ Instr(257) = <<"do", "nothing", "meta">>
  BY DEF Instr

LEMMA UpdateInstructions ==
  /\ Instr(301) = <<"read", "gate">> /\ Instr(302) = <<"do", "look", "none">>
  /\ Instr(303) = <<"do", "known?", "none">> /\ Instr(304) = <<"read", "deleted">>
  /\ Instr(305) = <<"read", "slots">> /\ Instr(306) = <<"do", "live?", "slots">>
  /\ Instr(307) = <<"do", "nothing", "deleted">> /\ Instr(308) = <<"do", "dead?", "none">>
  /\ Instr(309) = <<"read", "slots">> /\ Instr(310) = <<"do", "vector", "slots">>
  /\ Instr(311) = <<"claim", "storage">> /\ Instr(312) = <<"read", "slots">>
  /\ Instr(313) = <<"do", "nothing", "slots">> /\ Instr(314) = <<"read", "slots">>
  /\ Instr(315) = <<"do", "nothing", "slots">> /\ Instr(316) = <<"do", "log", "none">>
  /\ Instr(317) = <<"do", "nothing", "storage">> /\ Instr(318) = <<"claim", "meta">>
  /\ Instr(319) = <<"do", "unindex", "meta">> /\ Instr(320) = <<"claim", "meta">>
  /\ Instr(321) = <<"do", "index", "meta">> /\ Instr(322) = <<"claim", "slots">>
  /\ Instr(323) = <<"do", "rewrite", "slots">>
  BY DEF Instr

LEMMA DeleteInstructions ==
  /\ Instr(401) = <<"read", "gate">> /\ Instr(402) = <<"do", "look", "none">>
  /\ Instr(403) = <<"do", "known?", "none">> /\ Instr(404) = <<"claim", "deleted">>
  /\ Instr(405) = <<"do", "delete", "none">> /\ Instr(406) = <<"do", "nothing", "deleted">>
  /\ Instr(407) = <<"do", "dead?", "none">> /\ Instr(408) = <<"claim", "meta">>
  /\ Instr(409) = <<"do", "unindex", "meta">> /\ Instr(410) = <<"claim", "sparse">>
  /\ Instr(411) = <<"do", "drop", "sparse">> /\ Instr(412) = <<"claim", "storage">>
  /\ Instr(413) = <<"do", "unlog", "storage">>
  BY DEF Instr

LEMMA ReadsInstructions ==
  /\ Instr(501) = <<"do", "look", "none">> /\ Instr(502) = <<"do", "known?", "none">>
  /\ Instr(503) = <<"read", "deleted">> /\ Instr(504) = <<"do", "buried?", "deleted">>
  /\ Instr(505) = <<"do", "dead?", "none">> /\ Instr(506) = <<"read", "slots">>
  /\ Instr(507) = <<"do", "record", "slots">> /\ Instr(601) = <<"do", "view", "none">>
  /\ Instr(602) = <<"do", "known?", "none">> /\ Instr(603) = <<"read", "deleted">>
  /\ Instr(604) = <<"do", "buried?", "deleted">> /\ Instr(605) = <<"do", "dead?", "none">>
  /\ Instr(606) = <<"read", "slots">> /\ Instr(607) = <<"do", "id", "slots">>
  BY DEF Instr

LEMMA CompactInstructions ==
  /\ Instr(701) = <<"claim", "gate">> /\ Instr(702) = <<"read", "slots">>
  /\ Instr(703) = <<"read", "deleted">> /\ Instr(704) = <<"do", "pack", "deleted">>
  /\ Instr(705) = <<"do", "nothing", "slots">> /\ Instr(706) = <<"claim", "slots">>
  /\ Instr(707) = <<"do", "replace", "slots">> /\ Instr(708) = <<"do", "clear", "none">>
  /\ Instr(709) = <<"do", "fill", "none">> /\ Instr(710) = <<"claim", "deleted">>
  /\ Instr(711) = <<"do", "exhume", "deleted">> /\ Instr(712) = <<"claim", "sparse">>
  /\ Instr(713) = <<"do", "renumber", "sparse">> /\ Instr(714) = <<"read", "slots">>
  /\ Instr(715) = <<"claim", "engine">> /\ Instr(716) = <<"do", "rebuild", "engine">>
  /\ Instr(717) = <<"do", "nothing", "slots">> /\ Instr(718) = <<"claim", "meta">>
  /\ Instr(719) = <<"do", "forget", "meta">> /\ Instr(720) = <<"read", "slots">>
  /\ Instr(721) = <<"do", "collect", "slots">> /\ Instr(722) = <<"claim", "meta">>
  /\ Instr(723) = <<"do", "restore", "meta">> /\ Instr(724) = <<"do", "nothing", "gate">>
  BY DEF Instr

LEMMA EndsInstructions ==
  /\ Instr(801) = <<"claim", "gate">> /\ Instr(802) = <<"read", "storage">>
  /\ Instr(803) = <<"do", "nothing", "storage">> /\ Instr(804) = <<"read", "sparse">>
  /\ Instr(805) = <<"do", "nothing", "sparse">> /\ Instr(806) = <<"claim", "storage">>
  /\ Instr(807) = <<"read", "slots">> /\ Instr(808) = <<"do", "save", "slots">>
  /\ Instr(809) = <<"do", "nothing", "storage">> /\ Instr(810) = <<"do", "nothing", "gate">>
  /\ Instr(901) = <<"do", "nothing", "gate">> /\ Instr(902) = <<"do", "checkpoint?", "none">>
  /\ Instr(903) = <<"do", "nothing", "gate">>
  BY DEF Instr

\* What becomes of the locks of a thread that goes from point n to point m: it takes
\* l shared, it claims l, or it leaves l.
Keeps(n, m, k) == Shares(m, k) = Shares(n, k) /\ (m \in Owned(k) <=> n \in Owned(k))

Takes(n, m, l) ==
  \A k \in Lock : /\ Shares(m, k) = Shares(n, k) + (IF k = l THEN 1 ELSE 0)
                  /\ (m \in Owned(k) <=> n \in Owned(k))

Enters(n, m, l) ==
  /\ n \notin Owned(l) /\ m \in Owned(l)
  /\ \A k \in Lock : Shares(m, k) = Shares(n, k) /\ (k # l => Keeps(n, m, k))

LeavesOwn(n, m, l) ==
  /\ n \in Owned(l) /\ m \notin Owned(l)
  /\ \A k \in Lock : Shares(m, k) = Shares(n, k) /\ (k # l => Keeps(n, m, k))

LeavesShared(n, m, l) ==
  /\ n \notin Owned(l)
  /\ \A k \in Lock : /\ Shares(n, k) = Shares(m, k) + (IF k = l THEN 1 ELSE 0)
                    /\ (m \in Owned(k) <=> n \in Owned(k))

Releases(n, m, l) ==
  \/ l = "none" /\ \A k \in Lock : Keeps(n, m, k)
  \/ l \in Lock /\ (LeavesOwn(n, m, l) \/ LeavesShared(n, m, l))

LEMMA ReadPoints ==
  ASSUME NEW l \in Lock, NEW n \in ReadAt(l)
  PROVE  /\ n \in Point \ {0} /\ Instr(n) = <<"read", l>> /\ Follow(n) \in Point
         /\ Takes(n, Follow(n), l)
<1>1. CASE l = "gate"
  <2>1. n \in {101, 201, 301, 401}
    BY <1>1 DEF ReadAt
  <2>2. Instr(n) = <<"read", "gate">>
    BY <2>1, SetInstructions, BatchInstructions, UpdateInstructions, DeleteInstructions
  <2> DEFINE m == Follow(n)
  <2>3. m = n + 1
    BY <2>1 DEF Follow
  <2> HIDE DEF m
  <2>4. Takes(n, m, "gate")
    BY <2>1, <2>3 DEF Takes, Shares, Owned, GateReading, Lock
  <2>5. n \in Point \ {0} /\ m \in Point
    BY <2>1, <2>3 DEF Point
  <2> QED
    BY <1>1, <2>2, <2>4, <2>5 DEF m
<1>2. CASE l = "deleted"
  <2>1. n \in {304, 503, 603, 703}
    BY <1>2 DEF ReadAt
  <2>2. Instr(n) = <<"read", "deleted">>
    BY <2>1, UpdateInstructions, ReadsInstructions, CompactInstructions
  <2> DEFINE m == Follow(n)
  <2>3. m = n + 1
    BY <2>1 DEF Follow
  <2> HIDE DEF m
  <2>4. Takes(n, m, "deleted")
    BY <2>1, <2>3 DEF Takes, Shares, Owned, GateReading, Lock
  <2>5. n \in Point \ {0} /\ m \in Point
    BY <2>1, <2>3 DEF Point
  <2> QED
    BY <1>2, <2>2, <2>4, <2>5 DEF m
<1>3. CASE l = "slots"
  <2>1. n \in {106, 113, 124, 126, 128, 215, 222, 245, 253, 305, 309, 312, 314, 506, 606, 702, 714, 720, 807}
    BY <1>3 DEF ReadAt
  <2>2. Instr(n) = <<"read", "slots">>
    <3>1. CASE n \in {106, 113, 124, 126, 128}
      BY <3>1, SetInstructions
    <3>2. CASE n \in {215, 222, 245, 253}
      BY <3>2, BatchInstructions
    <3>3. CASE n \in {305, 309, 312, 314}
      BY <3>3, UpdateInstructions
    <3>4. CASE n \in {506, 606}
      BY <3>4, ReadsInstructions
    <3>5. CASE n \in {702, 714, 720, 807}
      BY <3>5, CompactInstructions, EndsInstructions
    <3> QED
      BY <2>1, <3>1, <3>2, <3>3, <3>4, <3>5
  <2> DEFINE m == Follow(n)
  <2>3. m = n + 1
    BY <2>1 DEF Follow
  <2> HIDE DEF m
  <2>4. Takes(n, m, "slots")
    BY <2>1, <2>3 DEF Takes, Shares, Owned, GateReading, Lock
  <2>5. n \in Point \ {0} /\ m \in Point
    BY <2>1, <2>3 DEF Point
  <2> QED
    BY <1>3, <2>2, <2>4, <2>5 DEF m
<1>4. CASE l = "engine"
  <2>1. n \in {241}
    BY <1>4 DEF ReadAt
  <2>2. Instr(n) = <<"read", "engine">>
    BY <2>1, BatchInstructions
  <2> DEFINE m == Follow(n)
  <2>3. m = n + 1
    BY <2>1 DEF Follow
  <2> HIDE DEF m
  <2>4. Takes(n, m, "engine")
    BY <2>1, <2>3 DEF Takes, Shares, Owned, GateReading, Lock
  <2>5. n \in Point \ {0} /\ m \in Point
    BY <2>1, <2>3 DEF Point
  <2> QED
    BY <1>4, <2>2, <2>4, <2>5 DEF m
<1>5. CASE l = "meta"
  <2>1. ReadAt("meta") = {}
    BY DEF ReadAt
  <2> QED
    BY <1>5, <2>1
<1>6. CASE l = "sparse"
  <2>1. n \in {804}
    BY <1>6 DEF ReadAt
  <2>2. Instr(n) = <<"read", "sparse">>
    BY <2>1, EndsInstructions
  <2> DEFINE m == Follow(n)
  <2>3. m = n + 1
    BY <2>1 DEF Follow
  <2> HIDE DEF m
  <2>4. Takes(n, m, "sparse")
    BY <2>1, <2>3 DEF Takes, Shares, Owned, GateReading, Lock
  <2>5. n \in Point \ {0} /\ m \in Point
    BY <2>1, <2>3 DEF Point
  <2> QED
    BY <1>6, <2>2, <2>4, <2>5 DEF m
<1>7. CASE l = "storage"
  <2>1. n \in {204, 802}
    BY <1>7 DEF ReadAt
  <2>2. Instr(n) = <<"read", "storage">>
    BY <2>1, BatchInstructions, EndsInstructions
  <2> DEFINE m == Follow(n)
  <2>3. m = n + 1
    BY <2>1 DEF Follow
  <2> HIDE DEF m
  <2>4. Takes(n, m, "storage")
    BY <2>1, <2>3 DEF Takes, Shares, Owned, GateReading, Lock
  <2>5. n \in Point \ {0} /\ m \in Point
    BY <2>1, <2>3 DEF Point
  <2> QED
    BY <1>7, <2>2, <2>4, <2>5 DEF m
<1> QED
  BY <1>1, <1>2, <1>3, <1>4, <1>5, <1>6, <1>7 DEF Lock

LEMMA ClaimPoints ==
  ASSUME NEW l \in Lock, NEW n \in ClaimAt(l)
  PROVE  /\ n \in Point \ {0} /\ Instr(n) = <<"claim", l>> /\ Follow(n) \in Point
         /\ Enters(n, Follow(n), l)
<1>1. CASE l = "gate"
  <2>1. n \in {701, 801}
    BY <1>1 DEF ClaimAt
  <2>2. Instr(n) = <<"claim", "gate">>
    BY <2>1, CompactInstructions, EndsInstructions
  <2> DEFINE m == Follow(n)
  <2>3. \/ n \notin {801} /\ m = n + 1
        \/ n = 801 /\ m \in {802, 810}
    BY <2>1 DEF Follow
  <2> HIDE DEF m
  <2>4. Enters(n, m, "gate")
    BY <2>1, <2>3 DEF Enters, Keeps, Shares, Owned, GateReading, Lock
  <2>5. n \in Point \ {0} /\ m \in Point
    BY <2>1, <2>3 DEF Point
  <2> QED
    BY <1>1, <2>2, <2>4, <2>5 DEF m
<1>2. CASE l = "deleted"
  <2>1. n \in {108, 217, 247, 404, 710}
    BY <1>2 DEF ClaimAt
  <2>2. Instr(n) = <<"claim", "deleted">>
    BY <2>1, SetInstructions, BatchInstructions, DeleteInstructions, CompactInstructions
  <2> DEFINE m == Follow(n)
  <2>3. m = n + 1
    BY <2>1 DEF Follow
  <2> HIDE DEF m
  <2>4. Enters(n, m, "deleted")
    BY <2>1, <2>3 DEF Enters, Keeps, Shares, Owned, GateReading, Lock
  <2>5. n \in Point \ {0} /\ m \in Point
    BY <2>1, <2>3 DEF Point
  <2> QED
    BY <1>2, <2>2, <2>4, <2>5 DEF m
<1>3. CASE l = "slots"
  <2>1. n \in {110, 219, 249, 322, 706}
    BY <1>3 DEF ClaimAt
  <2>2. Instr(n) = <<"claim", "slots">>
    BY <2>1, SetInstructions, BatchInstructions, UpdateInstructions, CompactInstructions
  <2> DEFINE m == Follow(n)
  <2>3. m = n + 1
    BY <2>1 DEF Follow
  <2> HIDE DEF m
  <2>4. Enters(n, m, "slots")
    BY <2>1, <2>3 DEF Enters, Keeps, Shares, Owned, GateReading, Lock
  <2>5. n \in Point \ {0} /\ m \in Point
    BY <2>1, <2>3 DEF Point
  <2> QED
    BY <1>3, <2>2, <2>4, <2>5 DEF m
<1>4. CASE l = "engine"
  <2>1. n \in {102, 114, 213, 254, 715}
    BY <1>4 DEF ClaimAt
  <2>2. Instr(n) = <<"claim", "engine">>
    BY <2>1, SetInstructions, BatchInstructions, CompactInstructions
  <2> DEFINE m == Follow(n)
  <2>3. m = n + 1
    BY <2>1 DEF Follow
  <2> HIDE DEF m
  <2>4. Enters(n, m, "engine")
    BY <2>1, <2>3 DEF Enters, Keeps, Shares, Owned, GateReading, Lock
  <2>5. n \in Point \ {0} /\ m \in Point
    BY <2>1, <2>3 DEF Point
  <2> QED
    BY <1>4, <2>2, <2>4, <2>5 DEF m
<1>5. CASE l = "meta"
  <2>1. n \in {118, 122, 211, 243, 318, 320, 408, 718, 722}
    BY <1>5 DEF ClaimAt
  <2>2. Instr(n) = <<"claim", "meta">>
    BY <2>1, SetInstructions, BatchInstructions, UpdateInstructions, DeleteInstructions, CompactInstructions
  <2> DEFINE m == Follow(n)
  <2>3. m = n + 1
    BY <2>1 DEF Follow
  <2> HIDE DEF m
  <2>4. Enters(n, m, "meta")
    BY <2>1, <2>3 DEF Enters, Keeps, Shares, Owned, GateReading, Lock
  <2>5. n \in Point \ {0} /\ m \in Point
    BY <2>1, <2>3 DEF Point
  <2> QED
    BY <1>5, <2>2, <2>4, <2>5 DEF m
<1>6. CASE l = "sparse"
  <2>1. n \in {120, 212, 410, 712}
    BY <1>6 DEF ClaimAt
  <2>2. Instr(n) = <<"claim", "sparse">>
    BY <2>1, SetInstructions, BatchInstructions, DeleteInstructions, CompactInstructions
  <2> DEFINE m == Follow(n)
  <2>3. m = n + 1
    BY <2>1 DEF Follow
  <2> HIDE DEF m
  <2>4. Enters(n, m, "sparse")
    BY <2>1, <2>3 DEF Enters, Keeps, Shares, Owned, GateReading, Lock
  <2>5. n \in Point \ {0} /\ m \in Point
    BY <2>1, <2>3 DEF Point
  <2> QED
    BY <1>6, <2>2, <2>4, <2>5 DEF m
<1>7. CASE l = "storage"
  <2>1. n \in {125, 311, 412, 806}
    BY <1>7 DEF ClaimAt
  <2>2. Instr(n) = <<"claim", "storage">>
    BY <2>1, SetInstructions, UpdateInstructions, DeleteInstructions, EndsInstructions
  <2> DEFINE m == Follow(n)
  <2>3. m = n + 1
    BY <2>1 DEF Follow
  <2> HIDE DEF m
  <2>4. Enters(n, m, "storage")
    BY <2>1, <2>3 DEF Enters, Keeps, Shares, Owned, GateReading, Lock
  <2>5. n \in Point \ {0} /\ m \in Point
    BY <2>1, <2>3 DEF Point
  <2> QED
    BY <1>7, <2>2, <2>4, <2>5 DEF m
<1> QED
  BY <1>1, <1>2, <1>3, <1>4, <1>5, <1>6, <1>7 DEF Lock

\* An access leaves the lock that its instruction names.
LEMMA DoPoints ==
  ASSUME NEW n \in DoAt
  PROVE  /\ n \in Point \ {0} /\ Instr(n)[1] = "do" /\ Follow(n) \in Point
         /\ Releases(n, Follow(n), Instr(n)[3])
<1>1. n \in Point \ {0} /\ Follow(n) \in Point
  BY DEF DoAt, Point, Follow
<1>2. CASE n \in {724, 810}
  <2>1. Instr(n)[1] = "do" /\ Instr(n)[3] = "gate"
    BY <1>2, CompactInstructions, EndsInstructions
  <2> DEFINE m == Follow(n)
  <2>2. n \in {724, 810} /\ m = 0
    BY <1>2 DEF Follow
  <2> HIDE DEF m
  <2>3. LeavesOwn(n, m, "gate")
    BY <1>2, <2>2 DEF LeavesOwn, Keeps, Shares, Owned, GateReading, Lock
  <2>4. "gate" \in Lock
    BY DEF Lock
  <2> QED
    BY <1>1, <2>1, <2>3, <2>4 DEF Releases, m
<1>3. CASE n \in {901, 903}
  <2>1. Instr(n)[1] = "do" /\ Instr(n)[3] = "gate"
    BY <1>3, EndsInstructions
  <2> DEFINE m == Follow(n)
  <2>2. \/ n \notin {903} /\ m = n + 1
        \/ n = 903 /\ m = 0
    BY <1>3 DEF Follow
  <2> HIDE DEF m
  <2>3. LeavesShared(n, m, "gate")
    BY <1>3, <2>2 DEF LeavesShared, Shares, Owned, GateReading, Lock
  <2>4. "gate" \in Lock
    BY DEF Lock
  <2> QED
    BY <1>1, <2>1, <2>3, <2>4 DEF Releases, m
<1>4. CASE n \in {112, 221, 251, 406, 711}
  <2>1. Instr(n)[1] = "do" /\ Instr(n)[3] = "deleted"
    BY <1>4, SetInstructions, BatchInstructions, DeleteInstructions, CompactInstructions
  <2> DEFINE m == Follow(n)
  <2>2. m = n + 1
    BY <1>4 DEF Follow
  <2> HIDE DEF m
  <2>3. LeavesOwn(n, m, "deleted")
    BY <1>4, <2>2 DEF LeavesOwn, Keeps, Shares, Owned, GateReading, Lock
  <2>4. "deleted" \in Lock
    BY DEF Lock
  <2> QED
    BY <1>1, <2>1, <2>3, <2>4 DEF Releases, m
<1>5. CASE n \in {307, 504, 604, 704}
  <2>1. Instr(n)[1] = "do" /\ Instr(n)[3] = "deleted"
    BY <1>5, UpdateInstructions, ReadsInstructions, CompactInstructions
  <2> DEFINE m == Follow(n)
  <2>2. m = n + 1
    BY <1>5 DEF Follow
  <2> HIDE DEF m
  <2>3. LeavesShared(n, m, "deleted")
    BY <1>5, <2>2 DEF LeavesShared, Shares, Owned, GateReading, Lock
  <2>4. "deleted" \in Lock
    BY DEF Lock
  <2> QED
    BY <1>1, <2>1, <2>3, <2>4 DEF Releases, m
<1>6. CASE n \in {111, 220, 250, 323, 707}
  <2>1. Instr(n)[1] = "do" /\ Instr(n)[3] = "slots"
    BY <1>6, SetInstructions, BatchInstructions, UpdateInstructions, CompactInstructions
  <2> DEFINE m == Follow(n)
  <2>2. \/ n \notin {323} /\ m = n + 1
        \/ n = 323 /\ m = 901
    BY <1>6 DEF Follow
  <2> HIDE DEF m
  <2>3. LeavesOwn(n, m, "slots")
    BY <1>6, <2>2 DEF LeavesOwn, Keeps, Shares, Owned, GateReading, Lock
  <2>4. "slots" \in Lock
    BY DEF Lock
  <2> QED
    BY <1>1, <2>1, <2>3, <2>4 DEF Releases, m
<1>7. CASE n \in {107, 116, 127, 129, 132, 216, 223, 246, 256, 306, 310, 313, 315, 507, 607, 705, 717, 721, 808}
  <2>1. Instr(n)[1] = "do" /\ Instr(n)[3] = "slots"
    BY <1>7, SetInstructions, BatchInstructions, UpdateInstructions, ReadsInstructions, CompactInstructions, EndsInstructions
  <2> DEFINE m == Follow(n)
  <2>2. \/ n \notin {132, 310, 507, 607} /\ m = n + 1
        \/ n = 132 /\ m = 901
        \/ n = 310 /\ m \in {311, 318}
        \/ n \in {507, 607} /\ m = 0
    BY <1>7 DEF Follow
  <2> HIDE DEF m
  <2>3. LeavesShared(n, m, "slots")
    BY <1>7, <2>2 DEF LeavesShared, Shares, Owned, GateReading, Lock
  <2>4. "slots" \in Lock
    BY DEF Lock
  <2> QED
    BY <1>1, <2>1, <2>3, <2>4 DEF Releases, m
<1>8. CASE n \in {103, 115, 227, 255, 716}
  <2>1. Instr(n)[1] = "do" /\ Instr(n)[3] = "engine"
    BY <1>8, SetInstructions, BatchInstructions, CompactInstructions
  <2> DEFINE m == Follow(n)
  <2>2. m = n + 1
    BY <1>8 DEF Follow
  <2> HIDE DEF m
  <2>3. LeavesOwn(n, m, "engine")
    BY <1>8, <2>2 DEF LeavesOwn, Keeps, Shares, Owned, GateReading, Lock
  <2>4. "engine" \in Lock
    BY DEF Lock
  <2> QED
    BY <1>1, <2>1, <2>3, <2>4 DEF Releases, m
<1>9. CASE n \in {242}
  <2>1. Instr(n)[1] = "do" /\ Instr(n)[3] = "engine"
    BY <1>9, BatchInstructions
  <2> DEFINE m == Follow(n)
  <2>2. m = n + 1
    BY <1>9 DEF Follow
  <2> HIDE DEF m
  <2>3. LeavesShared(n, m, "engine")
    BY <1>9, <2>2 DEF LeavesShared, Shares, Owned, GateReading, Lock
  <2>4. "engine" \in Lock
    BY DEF Lock
  <2> QED
    BY <1>1, <2>1, <2>3, <2>4 DEF Releases, m
<1>10. CASE n \in {119, 123, 229, 257, 319, 321, 409, 719, 723}
  <2>1. Instr(n)[1] = "do" /\ Instr(n)[3] = "meta"
    BY <1>10, SetInstructions, BatchInstructions, UpdateInstructions, DeleteInstructions, CompactInstructions
  <2> DEFINE m == Follow(n)
  <2>2. \/ n \notin {123, 229, 257} /\ m = n + 1
        \/ n = 123 /\ m \in {124, 901}
        \/ n \in {229, 257} /\ m \in {204, 901}
    BY <1>10 DEF Follow
  <2> HIDE DEF m
  <2>3. LeavesOwn(n, m, "meta")
    BY <1>10, <2>2 DEF LeavesOwn, Keeps, Shares, Owned, GateReading, Lock
  <2>4. "meta" \in Lock
    BY DEF Lock
  <2> QED
    BY <1>1, <2>1, <2>3, <2>4 DEF Releases, m
<1>11. CASE n \in {121, 228, 411, 713}
  <2>1. Instr(n)[1] = "do" /\ Instr(n)[3] = "sparse"
    BY <1>11, SetInstructions, BatchInstructions, DeleteInstructions, CompactInstructions
  <2> DEFINE m == Follow(n)
  <2>2. \/ n \notin {411} /\ m = n + 1
        \/ n = 411 /\ m \in {412, 901}
    BY <1>11 DEF Follow
  <2> HIDE DEF m
  <2>3. LeavesOwn(n, m, "sparse")
    BY <1>11, <2>2 DEF LeavesOwn, Keeps, Shares, Owned, GateReading, Lock
  <2>4. "sparse" \in Lock
    BY DEF Lock
  <2> QED
    BY <1>1, <2>1, <2>3, <2>4 DEF Releases, m
<1>12. CASE n \in {805}
  <2>1. Instr(n)[1] = "do" /\ Instr(n)[3] = "sparse"
    BY <1>12, EndsInstructions
  <2> DEFINE m == Follow(n)
  <2>2. m = n + 1
    BY <1>12 DEF Follow
  <2> HIDE DEF m
  <2>3. LeavesShared(n, m, "sparse")
    BY <1>12, <2>2 DEF LeavesShared, Shares, Owned, GateReading, Lock
  <2>4. "sparse" \in Lock
    BY DEF Lock
  <2> QED
    BY <1>1, <2>1, <2>3, <2>4 DEF Releases, m
<1>13. CASE n \in {131, 317, 413, 809}
  <2>1. Instr(n)[1] = "do" /\ Instr(n)[3] = "storage"
    BY <1>13, SetInstructions, UpdateInstructions, DeleteInstructions, EndsInstructions
  <2> DEFINE m == Follow(n)
  <2>2. \/ n \notin {413} /\ m = n + 1
        \/ n = 413 /\ m = 901
    BY <1>13 DEF Follow
  <2> HIDE DEF m
  <2>3. LeavesOwn(n, m, "storage")
    BY <1>13, <2>2 DEF LeavesOwn, Keeps, Shares, Owned, GateReading, Lock
  <2>4. "storage" \in Lock
    BY DEF Lock
  <2> QED
    BY <1>1, <2>1, <2>3, <2>4 DEF Releases, m
<1>14. CASE n \in {205, 803}
  <2>1. Instr(n)[1] = "do" /\ Instr(n)[3] = "storage"
    BY <1>14, BatchInstructions, EndsInstructions
  <2> DEFINE m == Follow(n)
  <2>2. \/ n \notin {205} /\ m = n + 1
        \/ n = 205 /\ m = 901
    BY <1>14 DEF Follow
  <2> HIDE DEF m
  <2>3. LeavesShared(n, m, "storage")
    BY <1>14, <2>2 DEF LeavesShared, Shares, Owned, GateReading, Lock
  <2>4. "storage" \in Lock
    BY DEF Lock
  <2> QED
    BY <1>1, <2>1, <2>3, <2>4 DEF Releases, m
<1>15. CASE n \in {104, 105, 109, 117, 130}
  <2>1. Instr(n)[1] = "do" /\ Instr(n)[3] = "none"
    BY <1>15, SetInstructions
  <2> DEFINE m == Follow(n)
  <2>2. \/ n \notin {105, 117} /\ m = n + 1
        \/ n = 105 /\ m = 108
        \/ n = 117 /\ m = 122
    BY <1>15 DEF Follow
  <2> HIDE DEF m
  <2>3. \A k \in Lock : Keeps(n, m, k)
    BY <1>15, <2>2 DEF Keeps, Shares, Owned, GateReading, Lock
  <2> QED
    BY <1>1, <2>1, <2>3 DEF Releases, m
<1>16. CASE n \in {202, 203, 214, 218, 244, 248, 252} \cup 224..226
  <2>1. Instr(n)[1] = "do" /\ Instr(n)[3] = "none"
    BY <1>16, BatchInstructions
  <2> DEFINE m == Follow(n)
  <2>2. \/ n \notin {203, 214, 244} /\ m = n + 1
        \/ n = 203 /\ m \in {204, 901}
        \/ n = 214 /\ m = 217
        \/ n = 244 /\ m = 247
    BY <1>16 DEF Follow
  <2> HIDE DEF m
  <2>3. \A k \in Lock : Keeps(n, m, k)
    BY <1>16, <2>2 DEF Keeps, Shares, Owned, GateReading, Lock
  <2> QED
    BY <1>1, <2>1, <2>3 DEF Releases, m
<1>17. CASE n \in {302, 303, 308, 316}
  <2>1. Instr(n)[1] = "do" /\ Instr(n)[3] = "none"
    BY <1>17, UpdateInstructions
  <2> DEFINE m == Follow(n)
  <2>2. m = n + 1
    BY <1>17 DEF Follow
  <2> HIDE DEF m
  <2>3. \A k \in Lock : Keeps(n, m, k)
    BY <1>17, <2>2 DEF Keeps, Shares, Owned, GateReading, Lock
  <2> QED
    BY <1>1, <2>1, <2>3 DEF Releases, m
<1>18. CASE n \in {402, 403, 405, 407}
  <2>1. Instr(n)[1] = "do" /\ Instr(n)[3] = "none"
    BY <1>18, DeleteInstructions
  <2> DEFINE m == Follow(n)
  <2>2. m = n + 1
    BY <1>18 DEF Follow
  <2> HIDE DEF m
  <2>3. \A k \in Lock : Keeps(n, m, k)
    BY <1>18, <2>2 DEF Keeps, Shares, Owned, GateReading, Lock
  <2> QED
    BY <1>1, <2>1, <2>3 DEF Releases, m
<1>19. CASE n \in {501, 502, 505, 601, 602, 605}
  <2>1. Instr(n)[1] = "do" /\ Instr(n)[3] = "none"
    BY <1>19, ReadsInstructions
  <2> DEFINE m == Follow(n)
  <2>2. m = n + 1
    BY <1>19 DEF Follow
  <2> HIDE DEF m
  <2>3. \A k \in Lock : Keeps(n, m, k)
    BY <1>19, <2>2 DEF Keeps, Shares, Owned, GateReading, Lock
  <2> QED
    BY <1>1, <2>1, <2>3 DEF Releases, m
<1>20. CASE n \in {708, 709}
  <2>1. Instr(n)[1] = "do" /\ Instr(n)[3] = "none"
    BY <1>20, CompactInstructions
  <2> DEFINE m == Follow(n)
  <2>2. m = n + 1
    BY <1>20 DEF Follow
  <2> HIDE DEF m
  <2>3. \A k \in Lock : Keeps(n, m, k)
    BY <1>20, <2>2 DEF Keeps, Shares, Owned, GateReading, Lock
  <2> QED
    BY <1>1, <2>1, <2>3 DEF Releases, m
<1>21. CASE n \in {902}
  <2>1. Instr(n)[1] = "do" /\ Instr(n)[3] = "none"
    BY <1>21, EndsInstructions
  <2> DEFINE m == Follow(n)
  <2>2. n = 902 /\ m = 0
    BY <1>21 DEF Follow
  <2> HIDE DEF m
  <2>3. \A k \in Lock : Keeps(n, m, k)
    BY <1>21, <2>2 DEF Keeps, Shares, Owned, GateReading, Lock
  <2> QED
    BY <1>1, <2>1, <2>3 DEF Releases, m
<1> QED
  BY <1>2, <1>3, <1>4, <1>5, <1>6, <1>7, <1>8, <1>9, <1>10, <1>11, <1>12, <1>13, <1>14, <1>15, <1>16, <1>17, <1>18, <1>19, <1>20, <1>21 DEF DoAt

\* Every point is one of these.
LEMMA PointKinds ==
  ASSUME NEW n \in Point, n # 0
  PROVE  n \in DoAt \/ \E l \in Lock : n \in ReadAt(l) \cup ClaimAt(l)
<1>1. \/ n \in DoAt
      \/ n \in ReadAt("gate")
      \/ n \in ReadAt("deleted")
      \/ n \in ReadAt("slots")
      \/ n \in ReadAt("engine")
      \/ n \in ReadAt("meta")
      \/ n \in ReadAt("sparse")
      \/ n \in ReadAt("storage")
      \/ n \in ClaimAt("gate")
      \/ n \in ClaimAt("deleted")
      \/ n \in ClaimAt("slots")
      \/ n \in ClaimAt("engine")
      \/ n \in ClaimAt("meta")
      \/ n \in ClaimAt("sparse")
      \/ n \in ClaimAt("storage")
  BY DEF Point, DoAt, ReadAt, ClaimAt
<1> QED
  BY <1>1, Locks

-----------------------------------------------------------------------------
(* Where a thread goes, and that the locks follow.                         *)

LEMMA HeadTail ==
  ASSUME NEW i, NEW s \in Seq(Instruction)
  PROVE  Head(Then(i, s)) = i /\ Tail(Then(i, s)) = s /\ Then(i, s) # << >>
  BY DEF Then

\* What is left to do at a point is its instruction and then what is left at the next.
LEMMA AtPoint ==
  ASSUME NEW n \in Point, n # 0
  PROVE  /\ CodeAt(n) # << >> /\ Head(CodeAt(n)) = Instr(n)
         /\ Tail(CodeAt(n)) = CodeAt(Follow(n)) /\ Follow(n) \in Point
<1>1. CodeAt(n) = Then(Instr(n), CodeAt(Follow(n))) /\ Follow(n) \in Point
  BY Flow
<1>2. CodeAt(Follow(n)) \in Seq(Instruction)
  BY <1>1, CodeTyped
<1> QED
  BY <1>1, <1>2, HeadTail

LEMMA AtEnd ==
  0 \in Point /\ CodeAt(0) = << >>
  BY DEF Point, CodeAt, C0

\* The point after an access, of a call with the local variables r, on the store s.
Branching == {105, 117, 203, 214, 244, 303, 308, 403, 407, 502, 505, 602, 605, 902}

Onward(n, r, s) ==
  CASE n \in {303, 403} /\ r.old = None             -> 903
    [] n \in {502, 602} /\ r.old = None             -> 0
    [] n \in {308, 407} /\ ~r.ok                    -> 903
    [] n \in {505, 605} /\ ~r.ok                    -> 0
    [] n \in {105, 214, 244} /\ s.ids[r.id] # None  -> n + 1
    [] n = 203                                      -> IF r.old = None THEN 241 ELSE 211
    [] n = 117 /\ r.old # None                      -> 118
    [] n = 902 /\ r.full                            -> 801
    [] OTHER                                        -> Follow(n)

LEMMA OnwardFollow ==
  ASSUME NEW n, NEW r, NEW s, n \notin Branching
  PROVE  Onward(n, r, s) = Follow(n)
  BY DEF Onward, Branching

\* A branch changes no lock.
LEMMA OnwardKeeps ==
  ASSUME NEW n \in Branching, NEW r, NEW s
  PROVE  /\ Onward(n, r, s) \in Point
         /\ \A k \in Lock : Keeps(n, Onward(n, r, s), k)
<1> DEFINE m == Onward(n, r, s)
<1>1. \/ n \in {303, 403, 308, 407} /\ m = 903
      \/ n \in {502, 602, 505, 605} /\ m = 0
      \/ n \in {105, 214, 244} /\ m = n + 1
      \/ n = 203 /\ m \in {241, 211}
      \/ n = 117 /\ m = 118
      \/ n = 902 /\ m = 801
      \/ n \notin {203} /\ m = Follow(n)
  BY DEF Onward, Branching
<1>2. /\ Follow(105) = 108 /\ Follow(214) = 217 /\ Follow(244) = 247
      /\ Follow(117) = 122 /\ Follow(902) = 0
      /\ Follow(303) = 304 /\ Follow(308) = 309 /\ Follow(403) = 404 /\ Follow(407) = 408
      /\ Follow(502) = 503 /\ Follow(505) = 506 /\ Follow(602) = 603 /\ Follow(605) = 606
  BY DEF Follow
<1> HIDE DEF m
<1>3. \/ n \in {303, 403, 308, 407} /\ m \in {903, n + 1}
      \/ n \in {502, 602, 505, 605} /\ m \in {0, n + 1}
      \/ n \in {105, 214, 244} /\ m \in {n + 1, n + 3}
      \/ n = 203 /\ m \in {241, 211}
      \/ n = 117 /\ m \in {118, 122}
      \/ n = 902 /\ m \in {801, 0}
  BY <1>1, <1>2 DEF Branching
<1>4. m \in Point
  BY <1>3 DEF Point
<1>5. \A k \in Lock : Keeps(n, m, k)
  BY <1>3 DEF Keeps, Shares, Owned, GateReading, Lock
<1> QED
  BY <1>4, <1>5 DEF m

LEMMA BranchingInstructions ==
  ASSUME NEW n \in Branching
  PROVE  n \in DoAt /\ Instr(n)[3] = "none"
<1>1. n \in DoAt
  BY DEF Branching, DoAt
<1>2. Instr(n)[3] = "none"
  <2>1. CASE n \in {105, 117, 203, 214, 244}
    BY <2>1, SetInstructions, BatchInstructions
  <2>2. CASE n \in {303, 308, 403, 407}
    BY <2>2, UpdateInstructions, DeleteInstructions
  <2>3. CASE n \in {502, 505, 602, 605, 902}
    BY <2>3, ReadsInstructions, EndsInstructions
  <2> QED
    BY <2>1, <2>2, <2>3 DEF Branching
<1> QED
  BY <1>1, <1>2

LEMMA OnwardReleases ==
  ASSUME NEW n \in DoAt, NEW r, NEW s
  PROVE  Onward(n, r, s) \in Point /\ Releases(n, Onward(n, r, s), Instr(n)[3])
<1>1. CASE n \in Branching
  BY <1>1, OnwardKeeps, BranchingInstructions DEF Releases
<1>2. CASE n \notin Branching
  BY <1>2, OnwardFollow, DoPoints
<1> QED
  BY <1>1, <1>2

LEMMA OtherInstructions ==
  ASSUME NEW n \in DoAt, n \notin Branching
  PROVE  Instr(n)[2] \notin {"find", "split", "moved", "known?", "dead?", "checkpoint?"}
<1>1. CASE n \in {103, 104, 107, 109, 111, 112, 115, 116, 119, 121, 123, 127} \cup 129..132
  BY <1>1, SetInstructions
<1>2. CASE n \in {202, 205, 216, 218, 220, 221, 242, 246, 248} \cup 223..229 \cup 250..252 \cup 255..257
  BY <1>2, BatchInstructions
<1>3. CASE n \in {302, 306, 307, 310, 313, 319, 321, 323} \cup 315..317
  BY <1>3, UpdateInstructions
<1>4. CASE n \in {402, 405, 406, 409, 411, 413}
  BY <1>4, DeleteInstructions
<1>5. CASE n \in {501, 504, 507, 601, 604, 607}
  BY <1>5, ReadsInstructions
<1>6. CASE n \in {704, 705, 711, 713, 716, 717, 719, 721, 723, 724} \cup 707..709
  BY <1>6, CompactInstructions
<1>7. CASE n \in {803, 805, 901, 903} \cup 808..810
  BY <1>7, EndsInstructions
<1> QED
  BY <1>1, <1>2, <1>3, <1>4, <1>5, <1>6, <1>7 DEF DoAt, Branching

\* What is left to do after an access is the list at the next point.
LEMMA RestGoesOn ==
  ASSUME NEW at \in [Thread -> Point], Located(at), Held(at), NEW t \in Thread,
         at[t] \in DoAt, NEW r, NEW s
  PROVE  Rest(t, Instr(at[t])[2], r, s) = CodeAt(Onward(at[t], r, s))
<1> DEFINE n == at[t]
<1>1. n \in Point /\ n # 0 /\ todo[t] = CodeAt(n) /\ Tail(todo[t]) = CodeAt(Follow(n))
  BY DoPoints, AtPoint DEF Located
<1>2. locks["gate"].readers[t] = Shares(n, "gate")
  BY Locks DEF Held
<1> HIDE DEF n
<1>3. n \in DoAt
  BY DEF n
<1>4. CASE n \notin Branching
  <2>1. Rest(t, Instr(n)[2], r, s) = Tail(todo[t])
    BY <1>3, <1>4, OtherInstructions DEF Rest
  <2> QED
    BY <1>1, <1>4, <2>1, OnwardFollow DEF n
<1>5. ASSUME n \in {303, 308, 403, 407}
      PROVE  Abandon(t) = CodeAt(903)
  <2>1. Shares(n, "gate") = 1
    BY <1>5 DEF Shares, GateReading
  <2>2. CodeAt(903) = C903
    BY DEF CodeAt
  <2>3. C903 = U("gate")
    BY DEF C903, C0, Then, U
  <2> QED
    BY <1>2, <2>1, <2>2, <2>3 DEF Abandon
<1>6. ASSUME n \in {502, 505, 602, 605}
      PROVE  Abandon(t) = CodeAt(0)
  <2>1. Shares(n, "gate") = 0
    BY <1>6 DEF Shares, GateReading
  <2> QED
    BY <1>2, <2>1, AtEnd DEF Abandon
<1>7. CASE n \in {303, 403}
  <2>1. Instr(n)[2] = "known?"
    BY <1>7, UpdateInstructions, DeleteInstructions
  <2>2. Rest(t, "known?", r, s) = IF r.old = None THEN Abandon(t) ELSE Tail(todo[t])
    BY DEF Rest
  <2>3. Onward(n, r, s) = IF r.old = None THEN 903 ELSE Follow(n)
    BY <1>7 DEF Onward
  <2>4. Abandon(t) = CodeAt(903)
    BY <1>5, <1>7
  <2>5. CASE r.old = None
    BY <2>1, <2>2, <2>3, <2>4, <2>5 DEF n
  <2>6. CASE r.old # None
    BY <1>1, <2>1, <2>2, <2>3, <2>6 DEF n
  <2> QED
    BY <2>5, <2>6
<1>8. CASE n \in {502, 602}
  <2>1. Instr(n)[2] = "known?"
    BY <1>8, ReadsInstructions
  <2>2. Rest(t, "known?", r, s) = IF r.old = None THEN Abandon(t) ELSE Tail(todo[t])
    BY DEF Rest
  <2>3. Onward(n, r, s) = IF r.old = None THEN 0 ELSE Follow(n)
    BY <1>8 DEF Onward
  <2>4. Abandon(t) = CodeAt(0)
    BY <1>6, <1>8
  <2>5. CASE r.old = None
    BY <2>1, <2>2, <2>3, <2>4, <2>5 DEF n
  <2>6. CASE r.old # None
    BY <1>1, <2>1, <2>2, <2>3, <2>6 DEF n
  <2> QED
    BY <2>5, <2>6
<1>9. CASE n \in {308, 407}
  <2>1. Instr(n)[2] = "dead?"
    BY <1>9, UpdateInstructions, DeleteInstructions
  <2>2. Rest(t, "dead?", r, s) = IF ~r.ok THEN Abandon(t) ELSE Tail(todo[t])
    BY DEF Rest
  <2>3. Onward(n, r, s) = IF ~r.ok THEN 903 ELSE Follow(n)
    BY <1>9 DEF Onward
  <2>4. Abandon(t) = CodeAt(903)
    BY <1>5, <1>9
  <2>5. CASE ~r.ok
    BY <2>1, <2>2, <2>3, <2>4, <2>5 DEF n
  <2>6. CASE r.ok
    BY <1>1, <2>1, <2>2, <2>3, <2>6 DEF n
  <2> QED
    BY <2>5, <2>6
<1>10. CASE n \in {505, 605}
  <2>1. Instr(n)[2] = "dead?"
    BY <1>10, ReadsInstructions
  <2>2. Rest(t, "dead?", r, s) = IF ~r.ok THEN Abandon(t) ELSE Tail(todo[t])
    BY DEF Rest
  <2>3. Onward(n, r, s) = IF ~r.ok THEN 0 ELSE Follow(n)
    BY <1>10 DEF Onward
  <2>4. Abandon(t) = CodeAt(0)
    BY <1>6, <1>10
  <2>5. CASE ~r.ok
    BY <2>1, <2>2, <2>3, <2>4, <2>5 DEF n
  <2>6. CASE r.ok
    BY <1>1, <2>1, <2>2, <2>3, <2>6 DEF n
  <2> QED
    BY <2>5, <2>6
<1>11. CASE n \in {105, 214, 244}
  <2>1. Instr(n)[2] = "find"
    BY <1>11, SetInstructions, BatchInstructions
  <2>2. Rest(t, "find", r, s) = IF s.ids[r.id] # None THEN Join(Reading("slots", "carry"), Tail(todo[t]))
                                ELSE Tail(todo[t])
    BY DEF Rest, Join
  <2>3. Onward(n, r, s) = IF s.ids[r.id] # None THEN n + 1 ELSE Follow(n)
    BY <1>11 DEF Onward
  <2>4. Join(Reading("slots", "carry"), CodeAt(Follow(n))) = CodeAt(n + 1)
    <3>1. CodeAt(Follow(n)) \in Seq(Instruction)
      BY <1>1, AtPoint, CodeTyped
    <3>2. "carry" \in Name /\ "slots" \in Lock
      BY Names, Locks
    <3>3. Join(Reading("slots", "carry"), CodeAt(Follow(n))) =
            Then(<<"read", "slots">>, Then(<<"do", "carry", "slots">>, CodeAt(Follow(n))))
      BY <3>1, <3>2, AccessPieces
    <3>4. Follow(105) = 108 /\ Follow(214) = 217 /\ Follow(244) = 247
      BY DEF Follow
    <3>5. /\ CodeAt(106) = C106 /\ CodeAt(108) = C108 /\ CodeAt(215) = C215 /\ CodeAt(217) = C217
          /\ CodeAt(245) = C245 /\ CodeAt(247) = C247
      BY SetPoints, BatchPoints
    <3> QED
      BY <1>11, <3>3, <3>4, <3>5 DEF C106, C107, C215, C216, C245, C246
  <2> QED
    BY <1>1, <2>1, <2>2, <2>3, <2>4 DEF n
<1>12. CASE n = 203
  <2>1. Instr(n)[2] = "split"
    BY <1>12, BatchInstructions
  <2>2. Rest(t, "split", r, s) = Join(IF r.old = None THEN BatchInsert ELSE BatchUpdate, Tail(todo[t]))
    BY DEF Rest, Join
  <2>3. Onward(n, r, s) = IF r.old = None THEN 241 ELSE 211
    BY <1>12 DEF Onward
  <2>4. CodeAt(Follow(203)) = IF persistent THEN C204 ELSE C901
    <3>1. Follow(203) = IF persistent THEN 204 ELSE 901
      BY DEF Follow
    <3> QED
      BY <3>1, BatchPoints
  <2>5. CodeAt(241) = C241 /\ CodeAt(211) = C211
    BY BatchPoints
  <2>6. Tail(todo[t]) = IF persistent THEN C204 ELSE C901
    BY <1>1, <1>12, <2>4
  <2>7. CASE r.old = None
    BY <1>12, <2>1, <2>2, <2>3, <2>5, <2>6, <2>7, BatchInsertProgram DEF n
  <2>8. CASE r.old # None
    BY <1>12, <2>1, <2>2, <2>3, <2>5, <2>6, <2>8, BatchUpdateProgram DEF n
  <2> QED
    BY <2>7, <2>8
<1>13. CASE n = 117
  <2>1. Instr(n)[2] = "moved"
    BY <1>13, SetInstructions
  <2>2. Rest(t, "moved", r, s) = IF r.old # None THEN Join(Moved, Tail(todo[t])) ELSE Tail(todo[t])
    BY DEF Rest, Join
  <2>3. Onward(n, r, s) = IF r.old # None THEN 118 ELSE Follow(n)
    BY <1>13 DEF Onward
  <2>4. Join(Moved, CodeAt(Follow(117))) = CodeAt(118)
    <3>1. Follow(117) = 122
      BY DEF Follow
    <3>2. CodeAt(118) = C118 /\ CodeAt(122) = C122
      BY SetPoints
    <3>3. C122 \in Seq(Instruction)
      BY <3>2, CodeTyped DEF Point
    <3> QED
      BY <3>1, <3>2, <3>3, MovedPiece DEF C118, C119, C120, C121
  <2> QED
    BY <1>1, <1>13, <2>1, <2>2, <2>3, <2>4, ZenonT(60) DEF n
<1>14. CASE n = 902
  <2>1. Instr(n)[2] = "checkpoint?"
    BY <1>14, EndsInstructions
  <2>2. Rest(t, "checkpoint?", r, s) = IF r.full THEN CheckpointCall ELSE Tail(todo[t])
    BY DEF Rest
  <2>3. Onward(n, r, s) = IF r.full THEN 801 ELSE Follow(n)
    BY <1>14 DEF Onward
  <2>4. CodeAt(801) = C801
    BY EndsPoints
  <2> QED
    BY <1>1, <2>1, <2>2, <2>3, <2>4, CheckpointProgram, ZenonT(60) DEF n
<1> QED
  BY <1>4, <1>7, <1>8, <1>9, <1>10, <1>11, <1>12, <1>13, <1>14 DEF n, Branching

LEMMA ViewInstruction ==
  ASSUME NEW n \in DoAt, Instr(n)[2] = "view"
  PROVE  n = 601
<1>1. CASE n \in {107, 109, 111, 112, 119, 121, 123, 127} \cup 103..105 \cup 115..117 \cup 129..132
  BY <1>1, SetInstructions
<1>2. CASE n \in {202, 203, 205, 214, 216, 218, 220, 221, 242, 244, 246, 248} \cup 223..229 \cup 250..252 \cup 255..257
  BY <1>2, BatchInstructions
<1>3. CASE n \in {302, 303, 310, 313, 319, 321, 323} \cup 306..308 \cup 315..317
  BY <1>3, UpdateInstructions
<1>4. CASE n \in {402, 403, 409, 411, 413} \cup 405..407
  BY <1>4, DeleteInstructions
<1>5. CASE n \in {501, 502, 504, 505, 507, 602, 604, 605, 607}
  BY <1>5, ReadsInstructions
<1>6. CASE n \in {704, 705, 711, 713, 716, 717, 719, 721, 723, 724} \cup 707..709
  BY <1>6, CompactInstructions
<1>7. CASE n \in {803, 805} \cup 808..810 \cup 901..903
  BY <1>7, EndsInstructions
<1> QED
  BY <1>1, <1>2, <1>3, <1>4, <1>5, <1>6, <1>7 DEF DoAt

\* The locks, and the gate, when a thread goes from a point to another.
LockTable == [Lock -> [writer : Thread \cup {None}, readers : [Thread -> Nat]]]

LEMMA NoneIsNoThread ==
  None \notin Thread
  BY ConcurrencyAssumption

LEMMA TakenHeld ==
  ASSUME locks \in LockTable, NEW at \in [Thread -> Point], Held(at), NEW t \in Thread,
         NEW l \in Lock, NEW m \in Point, Takes(at[t], m, l), Read(t, l),
         NEW bt, bt = [at EXCEPT ![t] = m]
  PROVE  Held(bt)'
<1> SUFFICES ASSUME NEW u \in Thread, NEW k \in Lock
             PROVE  locks'[k].readers[u] = Shares(bt[u], k) /\ (locks'[k].writer = u <=> bt[u] \in Owned(k))
  BY DEF Held
<1>1. locks[k].readers[u] = Shares(at[u], k) /\ (locks[k].writer = u <=> at[u] \in Owned(k))
  BY DEF Held
<1>2. locks'[k].writer = locks[k].writer
      /\ locks'[k].readers[u] = IF k = l /\ u = t THEN locks[k].readers[u] + 1 ELSE locks[k].readers[u]
  BY DEF Read, LockTable
<1>3. bt[u] = IF u = t THEN m ELSE at[u]
  OBVIOUS
<1>4. Shares(m, k) = Shares(at[t], k) + (IF k = l THEN 1 ELSE 0) /\ (m \in Owned(k) <=> at[t] \in Owned(k))
  BY DEF Takes
<1>5. locks[k].readers[u] \in Nat
  BY DEF LockTable
<1>6. CASE u = t
  BY <1>1, <1>2, <1>3, <1>4, <1>5, <1>6
<1>7. CASE u # t
  BY <1>1, <1>2, <1>3, <1>7
<1> QED
  BY <1>6, <1>7

LEMMA ClaimedHeld ==
  ASSUME locks \in LockTable, NEW at \in [Thread -> Point], Held(at), NEW t \in Thread,
         NEW l \in Lock, NEW m \in Point, Enters(at[t], m, l), Claim(t, l),
         NEW bt, bt = [at EXCEPT ![t] = m]
  PROVE  Held(bt)'
<1> SUFFICES ASSUME NEW u \in Thread, NEW k \in Lock
             PROVE  locks'[k].readers[u] = Shares(bt[u], k) /\ (locks'[k].writer = u <=> bt[u] \in Owned(k))
  BY DEF Held
<1>1. locks[k].readers[u] = Shares(at[u], k) /\ (locks[k].writer = u <=> at[u] \in Owned(k))
  BY DEF Held
<1>2. /\ locks'[k].readers = locks[k].readers
      /\ locks'[k].writer = IF k = l THEN t ELSE locks[k].writer
      /\ locks[l].writer = None
  BY DEF Claim, LockTable
<1>3. bt[u] = IF u = t THEN m ELSE at[u]
  OBVIOUS
<1>4. /\ Shares(m, k) = Shares(at[t], k) /\ m \in Owned(l)
      /\ k # l => (m \in Owned(k) <=> at[t] \in Owned(k))
  BY DEF Enters, Keeps
<1>5. CASE u = t
  BY <1>1, <1>2, <1>3, <1>4, <1>5
<1>6. CASE u # t
  BY <1>1, <1>2, <1>3, <1>6, NoneIsNoThread
<1> QED
  BY <1>5, <1>6

LEMMA ReleasedHeld ==
  ASSUME locks \in LockTable, NEW at \in [Thread -> Point], Held(at), NEW t \in Thread,
         NEW l, NEW m \in Point, Releases(at[t], m, l), locks' = Left(t, l),
         NEW bt, bt = [at EXCEPT ![t] = m]
  PROVE  Held(bt)'
<1> SUFFICES ASSUME NEW u \in Thread, NEW k \in Lock
             PROVE  locks'[k].readers[u] = Shares(bt[u], k) /\ (locks'[k].writer = u <=> bt[u] \in Owned(k))
  BY DEF Held
<1>1. locks[k].readers[u] = Shares(at[u], k) /\ (locks[k].writer = u <=> at[u] \in Owned(k))
  BY DEF Held
<1>2. locks[k].readers[t] = Shares(at[t], k) /\ (locks[k].writer = t <=> at[t] \in Owned(k))
  BY DEF Held
<1>3. bt[u] = IF u = t THEN m ELSE at[u]
  OBVIOUS
<1>4. locks[k] \in [writer : Thread \cup {None}, readers : [Thread -> Nat]]
  BY DEF LockTable
<1>5. /\ k # l => locks'[k] = locks[k]
      /\ l = k /\ locks[k].writer = t => locks'[k] = [locks[k] EXCEPT !.writer = None]
      /\ l = k /\ locks[k].writer # t => locks'[k] = [locks[k] EXCEPT !.readers[t] = @ - 1]
  <2>1. l = "none" => locks' = locks
    BY DEF Left
  <2>2. k # "none"
    BY DEF Lock
  <2>3. l # "none" => l \in Lock
    BY DEF Releases
  <2>4. l # "none" /\ locks[l].writer = t => locks' = [locks EXCEPT ![l].writer = None]
    BY DEF Left
  <2>5. l # "none" /\ locks[l].writer # t => locks' = [locks EXCEPT ![l].readers[t] = @ - 1]
    BY DEF Left
  <2> QED
    BY <2>1, <2>2, <2>3, <2>4, <2>5 DEF LockTable
<1>6. CASE l # k
  <2>1. Shares(m, k) = Shares(at[t], k) /\ (m \in Owned(k) <=> at[t] \in Owned(k))
    <3>1. CASE l = "none"
      BY <3>1, Locks DEF Releases, Keeps, Lock
    <3>2. CASE LeavesOwn(at[t], m, l)
      BY <1>6, <3>2 DEF LeavesOwn, Keeps
    <3>3. CASE LeavesShared(at[t], m, l)
      <4>1. Shares(at[t], k) = Shares(m, k) + 0 /\ (m \in Owned(k) <=> at[t] \in Owned(k))
        BY <1>6, <3>3 DEF LeavesShared
      <4>2. Shares(m, k) \in Nat
        BY DEF Shares, Lock
      <4> QED
        BY <4>1, <4>2
    <3> QED
      BY <3>1, <3>2, <3>3 DEF Releases
  <2> QED
    BY <1>1, <1>3, <1>5, <1>6, <2>1
<1>7. CASE l = k /\ LeavesOwn(at[t], m, l)
  <2>1. at[t] \in Owned(k) /\ m \notin Owned(k) /\ Shares(m, k) = Shares(at[t], k)
    BY <1>7 DEF LeavesOwn
  <2>2. locks'[k] = [locks[k] EXCEPT !.writer = None]
    BY <1>2, <1>5, <1>7, <2>1
  <2> QED
    BY <1>1, <1>2, <1>3, <1>4, <2>1, <2>2, NoneIsNoThread
<1>8. CASE l = k /\ LeavesShared(at[t], m, l)
  <2>1. at[t] \notin Owned(k) /\ Shares(at[t], k) = Shares(m, k) + 1 /\ m \notin Owned(k)
    BY <1>8 DEF LeavesShared
  <2>2. locks'[k] = [locks[k] EXCEPT !.readers[t] = @ - 1]
    BY <1>2, <1>5, <1>8, <2>1
  <2>3. Shares(m, k) \in Nat
    BY DEF Shares, Lock
  <2>4. locks'[k].writer = locks[k].writer
        /\ locks'[k].readers[u] = IF u = t THEN locks[k].readers[t] - 1 ELSE locks[k].readers[u]
    BY <1>4, <2>2
  <2>5. CASE u = t
    BY <1>2, <1>3, <2>1, <2>3, <2>4, <2>5
  <2>6. CASE u # t
    BY <1>1, <1>3, <2>4, <2>6
  <2> QED
    BY <2>5, <2>6
<1>9. l # "none" \/ l # k
  BY DEF Lock
<1> QED
  BY <1>6, <1>7, <1>8, <1>9 DEF Releases

LEMMA GatePoints ==
  ASSUME NEW n \in Point
  PROVE  /\ Shares(n, "gate") = IF n \in GateReading THEN 1 ELSE 0
         /\ n \in Excluding => n \in Owned("gate") /\ n \notin GateReading
  BY DEF Shares, Owned, Excluding, GateReading

LEMMA MovedAlone ==
  ASSUME NEW at \in [Thread -> Point], Held(at), Alone(at), NEW t \in Thread,
         NEW m \in Point, NEW bt, bt = [at EXCEPT ![t] = m],
         m \in Excluding => at[t] \in Excluding \/ (at[t] \in Owned("gate") /\ Inside(t)),
         m \in GateReading => at[t] \in GateReading \/ locks["gate"].writer = None
  PROVE  Alone(bt)'
<1> SUFFICES ASSUME NEW u \in Thread, NEW v \in Thread, bt[u] \in Excluding, bt[v] \in GateReading
             PROVE  FALSE
  BY DEF Alone
<1>1. \A w \in Thread : bt[w] = IF w = t THEN m ELSE at[w]
  OBVIOUS
<1>2. "gate" \in Lock
  BY DEF Lock
<1>3. \A w \in Thread : /\ locks["gate"].readers[w] = Shares(at[w], "gate")
                        /\ (locks["gate"].writer = w <=> at[w] \in Owned("gate"))
  BY <1>2 DEF Held
<1>4. u # v
  <2>1. bt[u] \in Point
    BY <1>1
  <2> QED
    BY <2>1, GatePoints
<1>5. CASE u = t
  <2>1. at[v] \in GateReading /\ m \in Excluding
    BY <1>1, <1>4, <1>5
  <2>2. at[t] \notin Excluding
    BY <2>1 DEF Alone
  <2>3. locks["gate"].readers[v] = 0
    BY <1>2, <1>3, <2>1, <2>2 DEF Inside
  <2> QED
    BY <1>3, <2>1, <2>3, GatePoints
<1>6. CASE v = t
  <2>1. at[u] \in Excluding /\ m \in GateReading
    BY <1>1, <1>4, <1>6
  <2>2. at[t] \notin GateReading
    BY <2>1 DEF Alone
  <2>3. locks["gate"].writer = u
    BY <1>3, <2>1, GatePoints
  <2> QED
    BY <2>1, <2>2, <2>3, NoneIsNoThread
<1>7. CASE u # t /\ v # t
  BY <1>1, <1>7 DEF Alone
<1> QED
  BY <1>5, <1>6, <1>7

LEMMA DeadPoints ==
  ASSUME NEW n \in Point
  PROVE  /\ Shares(n, "deleted") = IF n \in DeadReading THEN 1 ELSE 0
         /\ n \in Burying => n \in Owned("deleted") /\ n \notin DeadReading
  BY DEF Shares, Owned, Burying, DeadReading

LEMMA MovedSealed ==
  ASSUME NEW at \in [Thread -> Point], Held(at), Sealed(at), NEW t \in Thread,
         NEW m \in Point, NEW bt, bt = [at EXCEPT ![t] = m],
         m \in Burying => at[t] \in Burying \/ (at[t] \in Owned("deleted") /\ Inside(t)),
         m \in DeadReading => at[t] \in DeadReading \/ locks["deleted"].writer = None
  PROVE  Sealed(bt)'
<1> SUFFICES ASSUME NEW u \in Thread, NEW v \in Thread, bt[u] \in Burying, bt[v] \in DeadReading
             PROVE  FALSE
  BY DEF Sealed
<1>1. \A w \in Thread : bt[w] = IF w = t THEN m ELSE at[w]
  OBVIOUS
<1>2. "deleted" \in Lock
  BY DEF Lock
<1>3. \A w \in Thread : /\ locks["deleted"].readers[w] = Shares(at[w], "deleted")
                        /\ (locks["deleted"].writer = w <=> at[w] \in Owned("deleted"))
  BY <1>2 DEF Held
<1>4. u # v
  <2>1. bt[u] \in Point
    BY <1>1
  <2> QED
    BY <2>1, DeadPoints
<1>5. CASE u = t
  <2>1. at[v] \in DeadReading /\ m \in Burying
    BY <1>1, <1>4, <1>5
  <2>2. at[t] \notin Burying
    BY <2>1 DEF Sealed
  <2>3. locks["deleted"].readers[v] = 0
    BY <1>2, <1>3, <2>1, <2>2 DEF Inside
  <2> QED
    BY <1>3, <2>1, <2>3, DeadPoints
<1>6. CASE v = t
  <2>1. at[u] \in Burying /\ m \in DeadReading
    BY <1>1, <1>4, <1>6
  <2>2. at[t] \notin DeadReading
    BY <2>1 DEF Sealed
  <2>3. locks["deleted"].writer = u
    BY <1>3, <2>1, DeadPoints
  <2> QED
    BY <2>1, <2>2, <2>3, NoneIsNoThread
<1>7. CASE u # t /\ v # t
  BY <1>1, <1>7 DEF Sealed
<1> QED
  BY <1>5, <1>6, <1>7

\* A store in memory takes no way that persists.
LEMMA FollowsInMemory ==
  ASSUME ~persistent, NEW n \in Point \ Persisting
  PROVE  Follow(n) \notin Persisting
  BY DEF Follow, Persisting, Point

LEMMA OnwardInMemory ==
  ASSUME ~persistent, NEW n \in Point \ Persisting, NEW r, NEW s
  PROVE  Onward(n, r, s) \notin Persisting
<1>1. Follow(n) \notin Persisting
  BY FollowsInMemory
<1>2. /\ 903 \notin Persisting /\ 0 \notin Persisting /\ 241 \notin Persisting /\ 211 \notin Persisting
      /\ 118 \notin Persisting /\ 801 \notin Persisting
      /\ n \in {105, 214, 244} => n + 1 \notin Persisting
  BY DEF Persisting
<1> QED
  BY <1>1, <1>2 DEF Onward

-----------------------------------------------------------------------------
(* Every thread is at a point, holds the locks of its point, and is alone  *)
(* where it has to be.                                                     *)

LEMMA BusyPoint ==
  ASSUME NEW at \in [Thread -> Point], Located(at), NEW t \in Thread
  PROVE  /\ Idle(t) <=> at[t] = 0
         /\ at[t] # 0 => /\ Head(todo[t]) = Instr(at[t])
                         /\ Tail(todo[t]) = CodeAt(Follow(at[t])) /\ Follow(at[t]) \in Point
<1>1. todo[t] = CodeAt(at[t]) /\ at[t] \in Point
  BY DEF Located
<1> QED
  BY <1>1, AtPoint, AtEnd DEF Idle

\* The lists at the points do not change: whether the store has storage never does.
LEMMA CodeStays ==
  ASSUME UNCHANGED persistent, NEW n \in Point
  PROVE  CodeAt(n)' = CodeAt(n)
<1>1. /\ C0' = C0 /\ C903' = C903 /\ C902' = C902 /\ C901' = C901 /\ C810' = C810
      /\ C809' = C809 /\ C808' = C808 /\ C807' = C807 /\ C806' = C806
  BY DEF C0, C903, C902, C901, C810, C809, C808, C807, C806
<1>2. /\ C805' = C805 /\ C804' = C804 /\ C803' = C803 /\ C802' = C802 /\ C801' = C801
      /\ C724' = C724 /\ C723' = C723 /\ C722' = C722 /\ C721' = C721
  BY <1>1 DEF C805, C804, C803, C802, C801, C724, C723, C722, C721
<1>3. /\ C720' = C720 /\ C719' = C719 /\ C718' = C718 /\ C717' = C717 /\ C716' = C716
      /\ C715' = C715 /\ C714' = C714 /\ C713' = C713 /\ C712' = C712
  BY <1>2 DEF C720, C719, C718, C717, C716, C715, C714, C713, C712
<1>4. /\ C711' = C711 /\ C710' = C710 /\ C709' = C709 /\ C708' = C708 /\ C707' = C707
      /\ C706' = C706 /\ C705' = C705 /\ C704' = C704 /\ C703' = C703
  BY <1>3 DEF C711, C710, C709, C708, C707, C706, C705, C704, C703
<1>5. /\ C702' = C702 /\ C701' = C701 /\ C607' = C607 /\ C606' = C606 /\ C605' = C605
      /\ C604' = C604 /\ C603' = C603 /\ C602' = C602 /\ C601' = C601
  BY <1>1, <1>4 DEF C702, C701, C607, C606, C605, C604, C603, C602, C601
<1>6. /\ C507' = C507 /\ C506' = C506 /\ C505' = C505 /\ C504' = C504 /\ C503' = C503
      /\ C502' = C502 /\ C501' = C501
  BY <1>1 DEF C507, C506, C505, C504, C503, C502, C501
<1>7. /\ C413' = C413 /\ C412' = C412 /\ C411' = C411 /\ C410' = C410 /\ C409' = C409
      /\ C408' = C408 /\ C407' = C407 /\ C406' = C406 /\ C405' = C405
  BY <1>1 DEF C413, C412, C411, C410, C409, C408, C407, C406, C405
<1>8. /\ C404' = C404 /\ C403' = C403 /\ C402' = C402 /\ C401' = C401 /\ C323' = C323
      /\ C322' = C322 /\ C321' = C321 /\ C320' = C320 /\ C319' = C319
  BY <1>1, <1>7 DEF C404, C403, C402, C401, C323, C322, C321, C320, C319
<1>9. /\ C318' = C318 /\ C317' = C317 /\ C316' = C316 /\ C315' = C315 /\ C314' = C314
      /\ C313' = C313 /\ C312' = C312 /\ C311' = C311 /\ C310' = C310
  BY <1>8 DEF C318, C317, C316, C315, C314, C313, C312, C311, C310
<1>10. /\ C309' = C309 /\ C308' = C308 /\ C307' = C307 /\ C306' = C306 /\ C305' = C305
       /\ C304' = C304 /\ C303' = C303 /\ C302' = C302 /\ C301' = C301
  BY <1>9 DEF C309, C308, C307, C306, C305, C304, C303, C302, C301
<1>11. /\ C205' = C205 /\ C204' = C204 /\ C257' = C257 /\ C256' = C256 /\ C255' = C255
       /\ C254' = C254 /\ C253' = C253 /\ C252' = C252 /\ C251' = C251
  BY <1>1 DEF C205, C204, C257, C256, C255, C254, C253, C252, C251
<1>12. /\ C250' = C250 /\ C249' = C249 /\ C248' = C248 /\ C247' = C247 /\ C246' = C246
       /\ C245' = C245 /\ C244' = C244 /\ C243' = C243 /\ C242' = C242
  BY <1>11 DEF C250, C249, C248, C247, C246, C245, C244, C243, C242
<1>13. /\ C241' = C241 /\ C229' = C229 /\ C228' = C228 /\ C227' = C227 /\ C226' = C226
       /\ C225' = C225 /\ C224' = C224 /\ C223' = C223 /\ C222' = C222
  BY <1>1, <1>11, <1>12 DEF C241, C229, C228, C227, C226, C225, C224, C223, C222
<1>14. /\ C221' = C221 /\ C220' = C220 /\ C219' = C219 /\ C218' = C218 /\ C217' = C217
       /\ C216' = C216 /\ C215' = C215 /\ C214' = C214 /\ C213' = C213
  BY <1>13 DEF C221, C220, C219, C218, C217, C216, C215, C214, C213
<1>15. /\ C212' = C212 /\ C211' = C211 /\ C203' = C203 /\ C202' = C202 /\ C201' = C201
       /\ C132' = C132 /\ C131' = C131 /\ C130' = C130 /\ C129' = C129
  BY <1>1, <1>11, <1>14 DEF C212, C211, C203, C202, C201, C132, C131, C130, C129
<1>16. /\ C128' = C128 /\ C127' = C127 /\ C126' = C126 /\ C125' = C125 /\ C124' = C124
       /\ C123' = C123 /\ C122' = C122 /\ C121' = C121 /\ C120' = C120
  BY <1>1, <1>15 DEF C128, C127, C126, C125, C124, C123, C122, C121, C120
<1>17. /\ C119' = C119 /\ C118' = C118 /\ C117' = C117 /\ C116' = C116 /\ C115' = C115
       /\ C114' = C114 /\ C113' = C113 /\ C112' = C112 /\ C111' = C111
  BY <1>16 DEF C119, C118, C117, C116, C115, C114, C113, C112, C111
<1>18. /\ C110' = C110 /\ C109' = C109 /\ C108' = C108 /\ C107' = C107 /\ C106' = C106
       /\ C105' = C105 /\ C104' = C104 /\ C103' = C103 /\ C102' = C102
  BY <1>17 DEF C110, C109, C108, C107, C106, C105, C104, C103, C102
<1>19. /\ C101' = C101
  BY <1>18 DEF C101
<1> QED
  BY <1>1, <1>2, <1>3, <1>4, <1>5, <1>6, <1>7, <1>8, <1>9, <1>10, <1>11, <1>12, <1>13,
     <1>14, <1>15, <1>16, <1>17, <1>18, <1>19 DEF CodeAt, Point

LEMMA MovedLocated ==
  ASSUME todo \in [Thread -> Seq(Instruction)], NEW at \in [Thread -> Point], Located(at),
         NEW t \in Thread, NEW m \in Point, todo' = [todo EXCEPT ![t] = CodeAt(m)],
         UNCHANGED persistent, NEW bt, bt = [at EXCEPT ![t] = m]
  PROVE  bt \in [Thread -> Point] /\ Located(bt)'
<1>1. bt \in [Thread -> Point] /\ \A u \in Thread : todo'[u] = CodeAt(bt[u])
  BY DEF Located
<1> QED
  BY <1>1, CodeStays DEF Located

LEMMA LockTyped ==
  Typed => locks \in LockTable /\ todo \in [Thread -> Seq(Instruction)]
  BY DEF Typed, LockTable

LEMMA LockingPlaced ==
  ASSUME Typed, NEW at \in [Thread -> Point], Placed(at), NEW t \in Thread, Locking(t),
         NEW bt, bt = [at EXCEPT ![t] = Follow(at[t])]
  PROVE  /\ at[t] \in Point \ {0} /\ at[t] \notin DoAt
         /\ bt \in [Thread -> Point] /\ Placed(bt)'
<1> DEFINE n == at[t]
           m == Follow(n)
<1>1. /\ n \in Point /\ n # 0 /\ Head(todo[t]) = Instr(n) /\ Tail(todo[t]) = CodeAt(m) /\ m \in Point
  BY BusyPoint DEF Placed, Locking
<1>2. todo' = [todo EXCEPT ![t] = CodeAt(m)]
  BY <1>1 DEF Locking
<1>3. bt \in [Thread -> Point] /\ Located(bt)'
  <2> HIDE DEF m
  <2> QED
    BY <1>1, <1>2, MovedLocated, LockTyped DEF Placed, m, Locking
<1>4. Inside(t)
  BY DEF Locking
<1> HIDE DEF n, m
<1>5. bt = [at EXCEPT ![t] = m] /\ n = at[t]
  BY DEF n, m
<1>6. n \notin DoAt
  <2>1. Instr(n)[1] # "do"
    BY <1>1 DEF Locking
  <2> QED
    BY <2>1, DoPoints
<1>7. PICK l \in Lock : n \in ReadAt(l) \cup ClaimAt(l)
  BY <1>1, <1>6, PointKinds
<1>8. InMemory(bt)'
  <2>1. persistent' = persistent
    BY DEF Locking
  <2>2. ~persistent => m \notin Persisting
    BY <1>1, FollowsInMemory DEF Placed, InMemory, n, m
  <2> QED
    BY <1>5, <2>1, <2>2 DEF Placed, InMemory
<1>9. CASE n \in ReadAt(l)
  <2>1. Instr(n) = <<"read", l>> /\ Takes(n, m, l)
    BY <1>9, ReadPoints DEF m
  <2>2. Read(t, l)
    BY <1>1, <2>1 DEF Locking
  <2>3. Held(bt)'
    BY <1>1, <1>5, <2>1, <2>2, TakenHeld, LockTyped DEF Placed
  <2>4. m \in Owned("gate") <=> n \in Owned("gate")
    BY <2>1, Locks DEF Takes
  <2>5. l = "gate" => locks["gate"].writer = None
    BY <2>2 DEF Read
  <2>6. l # "gate" => Shares(m, "gate") = Shares(n, "gate") + 0
    BY <2>1, Locks DEF Takes
  <2>7. l # "gate" => (m \in GateReading => n \in GateReading)
    BY <1>1, <2>6, GatePoints
  <2>8. m \in Excluding => m \in Owned("gate")
    BY <1>1, GatePoints
  <2>9. Alone(bt)'
    BY <1>1, <1>4, <1>5, <2>4, <2>5, <2>7, <2>8, MovedAlone DEF Placed
  <2>10. m \in Burying => n \in Owned("deleted")
    BY <1>1, <2>1, Locks, DeadPoints DEF Takes
  <2>11. l # "deleted" => (m \in DeadReading => n \in DeadReading)
    <3>1. l # "deleted" => Shares(m, "deleted") = Shares(n, "deleted") + 0
      BY <2>1, Locks DEF Takes
    <3> QED
      BY <1>1, <3>1, DeadPoints
  <2>12. l = "deleted" => locks["deleted"].writer = None
    BY <2>2 DEF Read
  <2>13. Sealed(bt)'
    BY <1>1, <1>4, <1>5, <2>10, <2>11, <2>12, MovedSealed DEF Placed
  <2> QED
    BY <1>1, <1>3, <1>5, <1>6, <2>3, <2>9, <1>8, <2>13 DEF Placed
<1>10. CASE n \in ClaimAt(l)
  <2>1. Instr(n) = <<"claim", l>> /\ Enters(n, m, l)
    BY <1>10, ClaimPoints DEF m
  <2>2. Claim(t, l)
    BY <1>1, <2>1 DEF Locking
  <2>3. Held(bt)'
    BY <1>1, <1>5, <2>1, <2>2, ClaimedHeld, LockTyped DEF Placed
  <2>4. l # "gate" => (m \in Owned("gate") <=> n \in Owned("gate"))
    BY <2>1, Locks DEF Enters, Keeps
  <2>5. Shares(m, "gate") = Shares(n, "gate")
    BY <2>1, Locks DEF Enters
  <2>6. m \in GateReading => n \in GateReading
    BY <1>1, <2>5, GatePoints
  <2>7. m \in Excluding => l # "gate" /\ m \in Owned("gate")
    <3>1. l = "gate" => m \in {702, 802, 810}
      <4>1. Follow(701) = 702 /\ Follow(801) \in {802, 810}
        BY DEF Follow
      <4> QED
        BY <1>10, <4>1 DEF ClaimAt, m
    <3>2. {702, 802, 810} \cap Excluding = {}
      BY DEF Excluding
    <3> QED
      BY <1>1, <3>1, <3>2, GatePoints
  <2>8. Alone(bt)'
    BY <1>1, <1>4, <1>5, <2>4, <2>6, <2>7, MovedAlone DEF Placed
  <2>9. m \in Burying => n \in Owned("deleted")
    <3>1. l = "deleted" => m \in {109, 218, 248, 405, 711}
      <4>1. /\ Follow(108) = 109 /\ Follow(217) = 218 /\ Follow(247) = 248 /\ Follow(404) = 405
            /\ Follow(710) = 711
        BY DEF Follow
      <4> QED
        BY <1>10, <4>1 DEF ClaimAt, m
    <3>2. {109, 218, 248, 405, 711} \cap Burying = {}
      BY DEF Burying
    <3>3. l # "deleted" => (m \in Owned("deleted") <=> n \in Owned("deleted"))
      BY <2>1, Locks DEF Enters, Keeps
    <3> QED
      BY <1>1, <3>1, <3>2, <3>3, DeadPoints
  <2>10. m \in DeadReading => n \in DeadReading
    <3>1. Shares(m, "deleted") = Shares(n, "deleted")
      BY <2>1, Locks DEF Enters
    <3> QED
      BY <1>1, <3>1, DeadPoints
  <2>11. Sealed(bt)'
    BY <1>1, <1>4, <1>5, <2>9, <2>10, MovedSealed DEF Placed
  <2> QED
    BY <1>1, <1>3, <1>5, <1>6, <2>3, <2>8, <1>8, <2>11 DEF Placed
<1> QED
  BY <1>7, <1>9, <1>10

\* A thread that accesses, or loads the view, goes to the next point.
LEMMA ReleasedPlaced ==
  ASSUME Typed, NEW at \in [Thread -> Point], Placed(at), NEW t \in Thread, at[t] \in DoAt,
         NEW m \in Point, Releases(at[t], m, Instr(at[t])[3]), Inside(t) \/ m \notin Excluding \cup Burying,
         ~persistent => m \notin Persisting, UNCHANGED persistent, todo' = [todo EXCEPT ![t] = CodeAt(m)], locks' = Left(t, Instr(at[t])[3]),
         NEW bt, bt = [at EXCEPT ![t] = m]
  PROVE  bt \in [Thread -> Point] /\ Placed(bt)'
<1>1. bt \in [Thread -> Point] /\ Located(bt)'
  BY MovedLocated, LockTyped DEF Placed
<1>2. Held(bt)'
  BY ReleasedHeld, LockTyped DEF Placed
<1> DEFINE n == at[t]
           l == Instr(n)[3]
<1>3. n \in Point /\ Releases(n, m, l)
  OBVIOUS
<1> HIDE DEF l, n
<1>4. "gate" \in Lock /\ "none" \notin Lock
  BY DEF Lock
<1>5. /\ m \in Owned("gate") => n \in Owned("gate")
      /\ Shares(m, "gate") # 0 => Shares(n, "gate") # 0
  <2>1. Shares(m, "gate") \in Nat
    BY DEF Shares
  <2>2. CASE l = "none"
    BY <1>3, <1>4, <2>2 DEF Releases, Keeps
  <2>3. CASE LeavesOwn(n, m, l)
    BY <1>4, <2>3 DEF LeavesOwn, Keeps
  <2>4. CASE LeavesShared(n, m, l)
    <3>1. Shares(n, "gate") = Shares(m, "gate") + (IF "gate" = l THEN 1 ELSE 0)
          /\ (m \in Owned("gate") <=> n \in Owned("gate"))
      BY <1>4, <2>4 DEF LeavesShared
    <3> QED
      BY <2>1, <3>1
  <2> QED
    BY <1>3, <2>2, <2>3, <2>4 DEF Releases
<1>6. m \in GateReading => n \in GateReading
  BY <1>3, <1>5, GatePoints
<1>7. m \in Excluding => n \in Owned("gate") /\ Inside(t)
  BY <1>5, GatePoints
<1>8. Alone(bt)'
  BY <1>6, <1>7, MovedAlone DEF Placed, n
<1>9. "deleted" \in Lock
  BY DEF Lock
<1>10. /\ m \in Owned("deleted") => n \in Owned("deleted")
       /\ Shares(m, "deleted") # 0 => Shares(n, "deleted") # 0
  <2>1. Shares(m, "deleted") \in Nat
    BY DEF Shares
  <2>2. CASE l = "none"
    BY <1>3, <1>4, <1>9, <2>2 DEF Releases, Keeps
  <2>3. CASE LeavesOwn(n, m, l)
    BY <1>9, <2>3 DEF LeavesOwn, Keeps
  <2>4. CASE LeavesShared(n, m, l)
    <3>1. Shares(n, "deleted") = Shares(m, "deleted") + (IF "deleted" = l THEN 1 ELSE 0)
          /\ (m \in Owned("deleted") <=> n \in Owned("deleted"))
      BY <1>9, <2>4 DEF LeavesShared
    <3> QED
      BY <2>1, <3>1
  <2> QED
    BY <1>3, <2>2, <2>3, <2>4 DEF Releases
<1>11. Sealed(bt)'
  <2>1. m \in DeadReading => n \in DeadReading
    BY <1>3, <1>10, DeadPoints
  <2>2. m \in Burying => n \in Owned("deleted") /\ Inside(t)
    BY <1>10, DeadPoints
  <2> QED
    BY <2>1, <2>2, MovedSealed DEF Placed, n
<1>12. InMemory(bt)'
  BY DEF Placed, InMemory
<1> QED
  BY <1>1, <1>2, <1>8, <1>11, <1>12 DEF Placed

LEMMA AccessPlaced ==
  ASSUME Typed, NEW at \in [Thread -> Point], Placed(at), NEW t \in Thread, Access(t),
         NEW r, r = Registers(Instr(at[t])[2], reg[t], store, log),
         NEW bt, bt = [at EXCEPT ![t] = Onward(at[t], r, store)]
  PROVE  /\ at[t] \in DoAt /\ Instr(at[t])[2] # "view"
         /\ bt \in [Thread -> Point] /\ Placed(bt)'
         /\ reg' = [reg EXCEPT ![t] = r]
         /\ store' = Changed(Instr(at[t])[2], r, store)
         /\ log' = Logged(Instr(at[t])[2], r, store, log)
<1> DEFINE n == at[t]
           m == Onward(n, r, store)
<1>1. /\ n \in Point /\ n # 0 /\ Head(todo[t]) = Instr(n)
  BY BusyPoint DEF Placed, Access
<1>2. Instr(n)[1] = "do" /\ Instr(n)[2] # "view"
  BY <1>1 DEF Access
<1>3. n \in DoAt
  <2>1. \A l \in Lock : n \notin ReadAt(l) /\ n \notin ClaimAt(l)
    <3> SUFFICES ASSUME NEW l \in Lock, n \in ReadAt(l) \cup ClaimAt(l) PROVE FALSE
      OBVIOUS
    <3>1. Instr(n) = <<"read", l>> \/ Instr(n) = <<"claim", l>>
      BY ReadPoints, ClaimPoints
    <3> QED
      BY <1>2, <3>1
  <2> QED
    BY <1>1, <2>1, PointKinds
<1>4. m \in Point /\ Releases(n, m, Instr(n)[3])
  BY <1>3, OnwardReleases
<1>5. /\ Inside(t) /\ reg' = [reg EXCEPT ![t] = r] /\ store' = Changed(Instr(n)[2], r, store)
      /\ log' = Logged(Instr(n)[2], r, store, log)
      /\ todo' = [todo EXCEPT ![t] = Rest(t, Instr(n)[2], r, store)]
      /\ locks' = Left(t, Instr(n)[3]) /\ UNCHANGED persistent
  BY <1>1 DEF Access
<1>6. Rest(t, Instr(n)[2], r, store) = CodeAt(m)
  BY <1>3, RestGoesOn DEF Placed
<1>7. ~persistent => m \notin Persisting
  BY <1>1, OnwardInMemory DEF Placed, InMemory
<1>8. bt \in [Thread -> Point] /\ Placed(bt)'
  <2> HIDE DEF m
  <2>1. bt = [at EXCEPT ![t] = m]
    BY DEF m
  <2> QED
    BY <1>3, <1>4, <1>5, <1>6, <1>7, <2>1, ReleasedPlaced
<1> QED
  BY <1>2, <1>3, <1>5, <1>8

LEMMA ViewPoint ==
  ASSUME NEW at \in [Thread -> Point], Placed(at), NEW t \in Thread, View(t)
  PROVE  at[t] = 601
<1> DEFINE n == at[t]
<1>1. /\ n \in Point /\ n # 0 /\ Head(todo[t]) = Instr(n) /\ Tail(todo[t]) = CodeAt(Follow(n))
  BY BusyPoint DEF Placed, View
<1>2. Instr(n)[2] = "view"
  BY <1>1 DEF View
<1>3. n \in DoAt
  <2>1. \A l \in Lock : n \notin ReadAt(l) /\ n \notin ClaimAt(l)
    <3> SUFFICES ASSUME NEW l \in Lock, n \in ReadAt(l) \cup ClaimAt(l) PROVE FALSE
      OBVIOUS
    <3>1. Instr(n) = <<"read", l>> \/ Instr(n) = <<"claim", l>>
      BY ReadPoints, ClaimPoints
    <3> QED
      BY <1>2, <3>1 DEF Lock
  <2> QED
    BY <1>1, <2>1, PointKinds
<1> QED
  BY <1>2, <1>3, ViewInstruction

LEMMA ViewPlaced ==
  ASSUME Typed, NEW at \in [Thread -> Point], Placed(at), NEW t \in Thread, View(t),
         NEW bt, bt = [at EXCEPT ![t] = Follow(at[t])]
  PROVE  bt \in [Thread -> Point] /\ Placed(bt)'
<1> DEFINE n == at[t]
<1>1. n = 601
  BY ViewPoint
<1>2. n # 0
  BY <1>1
<1>3. Tail(todo[t]) = CodeAt(Follow(n))
  BY <1>2, BusyPoint DEF Placed
<1>4. n \in DoAt
  BY <1>1 DEF DoAt
<1>5. Follow(601) = 602 /\ 602 \in Point /\ 602 \notin Excluding \cup Burying \cup Persisting
  BY DEF Follow, Point, Excluding, Burying, Persisting
<1>6. Instr(601)[3] = "none"
  BY ReadsInstructions
<1>7. Releases(n, 602, Instr(n)[3])
  BY <1>4, <1>1, <1>5, DoPoints
<1>8. locks' = Left(t, Instr(n)[3])
  BY <1>1, <1>6 DEF View, Left
<1>9. todo' = [todo EXCEPT ![t] = CodeAt(602)]
  <2>1. Tail(todo[t]) = CodeAt(602) /\ todo' = [todo EXCEPT ![t] = Tail(todo[t])]
    BY <1>3, <1>1, <1>5 DEF View
  <2> QED
    BY <2>1
<1>10. bt \in [Thread -> Point] /\ Placed(bt)'
  <2> DEFINE m == 602
  <2>1. UNCHANGED persistent
    BY DEF View
  <2>2. /\ m \in Point /\ m \notin Excluding \cup Burying \cup Persisting /\ Releases(at[t], m, Instr(at[t])[3])
        /\ todo' = [todo EXCEPT ![t] = CodeAt(m)] /\ bt = [at EXCEPT ![t] = m]
    BY <1>1, <1>5, <1>7, <1>9, ZenonT(60)
  <2> HIDE DEF m
  <2> QED
    BY <1>4, <1>8, <2>1, <2>2, ReleasedPlaced
<1> QED
  BY <1>10

-----------------------------------------------------------------------------
(* A step of one thread: what it takes that a part of the invariant passes *)
(* on, by the points n and m that the thread leaves and comes to and its   *)
(* local variables o and r.                                                *)

Goes(at, bt, t) ==
  /\ at \in [Thread -> Point] /\ bt \in [Thread -> Point]
  /\ \A u \in Thread : u # t => bt[u] = at[u] /\ reg'[u] = reg[u]

SameCall(o, r) == r.id = o.id /\ r.call = o.call /\ r.n = o.n

CalledPasses(n, m, o, r) ==
  /\ SameCall(o, r)
  /\ m # 0 => n # 0
  /\ m \in OfSet => n \in OfSet
  /\ m \in OfBatch => n \in OfBatch
  /\ m \in OfUpdate => n \in OfUpdate
  /\ m \in OfDelete => n \in OfDelete

OldPasses(n, m, o, r) ==
  /\ SameCall(o, r)
  /\ m \in LookedUp => n \in LookedUp /\ r.old = o.old
  /\ m \in Known => n \in Known \/ r.old # None
  /\ m \in Unknown => n \in Unknown \/ r.old = None
  /\ m \in InPlace => n \in InPlace /\ r.slot = o.slot
  /\ m \in Carrying => n \in Carrying /\ r.cur = o.cur

SlotPasses(n, m, o, r) ==
  /\ SameCall(o, r)
  /\ m \in Burying => n \in Burying
  /\ m \in AfterPush => n \in AfterPush /\ r.slot = o.slot /\ r.old = o.old
  /\ m \in Deleted => n \in Deleted /\ r.old = o.old

IdsPass(n, m, o, r) ==
  /\ SameCall(o, r)
  /\ n \in Replacing => m \in Replacing
  /\ n \in Burying => m \in Burying

EnginePasses(n, m, o, r) ==
  /\ n \in Replacing => m \in Replacing
  /\ n \in Inserting => m \in Inserting /\ r.slot = o.slot

IndexPasses(n, m, o, r) ==
  /\ n \in Unindexed => m \in Unindexed
  /\ n \in Indexing => m \in Indexing /\ r.slot = o.slot

CompactPasses(n, m, o, r) ==
  /\ m \in Packed => n \in Packed /\ r.order = o.order
  /\ m \in Replacing => n \in Replacing
  /\ m \in Emptied => n \in Emptied
  /\ m \in Refilled => n \in Refilled
  /\ m \in Exhumed => n \in Exhumed

SolePasses(n, m, o, r) ==
  /\ SameCall(o, r)
  /\ m \in Finding => n \in Finding /\ r.old = o.old
  /\ m \in Carrying => n \in Carrying /\ r.cur = o.cur /\ r.old = o.old
  /\ m \in AfterPush => n \in AfterPush /\ r.slot = o.slot
  /\ m \in Deleted => n \in Deleted
  /\ m \in Deciding => n \in Deciding /\ r.ok = o.ok

CarriedPasses(n, m, o, r) ==
  /\ m \in Plain => n \in Plain /\ r.sparse = o.sparse
  /\ m \in Laden => n \in Laden /\ r.sparse = o.sparse /\ r.old = o.old
  /\ m \in Landed => n \in Landed /\ r.slot = o.slot /\ r.old = o.old
  /\ m \in Relocating => n \in Relocating /\ r.old = o.old

MetaPasses(n, m, o, r) ==
  /\ SameCall(o, r)
  /\ n \in Unindexed => m \in Unindexed
  /\ n \in Unindexing => (m \in Unindexing /\ r.old = o.old) \/ o.old = None
  /\ n \in Rewriting => m \in Rewriting /\ r.old = o.old
  /\ n \in Indexing \cup Rewriting => m \in Indexing \cup Rewriting /\ r.slot = o.slot
  /\ m \in Rewriting => n \in Rewriting /\ r.old = o.old
  /\ m \in Indexing => n \in Indexing /\ r.slot = o.slot

SparsePasses(n, m, o, r) ==
  /\ n \in Renumbering => m \in Renumbering
  /\ n \in Dropping => (m \in Dropping /\ r.old = o.old) \/ o.old = None
  /\ n \in Placing => (m \in Placing /\ r.slot = o.slot) \/ o.old = None
  /\ m \in Renumbering => n \in Renumbering /\ r.order = o.order

LogPasses(n, m, o, r) ==
  /\ SameCall(o, r)
  /\ persistent =>
       /\ n \in Cleared => m \in Cleared
       /\ n \in Unlogged => m \in Unlogged
       /\ m \in LoggedFirst => n \in LoggedFirst /\ r.old = o.old
       /\ m \in Cleared => n \in Cleared

\* The slots got more, or other metadata; or only other metadata.
Kept(new, old) ==
  /\ DOMAIN old \subseteq DOMAIN new
  /\ \A n \in DOMAIN old : new[n].id = old[n].id /\ new[n].val = old[n].val /\ new[n].sparse = old[n].sparse

LEMMA CalledFrame ==
  ASSUME NEW at, NEW bt, NEW t \in Thread, Goes(at, bt, t), Called(at),
         CalledPasses(at[t], bt[t], reg[t], reg'[t])
  PROVE  Called(bt)'
  BY DEF Goes, Called, CalledPasses, SameCall

LEMMA OldFrame ==
  ASSUME NEW at, NEW bt, NEW t \in Thread, Goes(at, bt, t), OldFits(at),
         OldPasses(at[t], bt[t], reg[t], reg'[t]), Kept(store'.slots, store.slots)
  PROVE  OldFits(bt)'
<1> SUFFICES ASSUME NEW u \in Thread
    PROVE  /\ bt[u] \in LookedUp /\ reg'[u].old # None =>
                reg'[u].old \in DOMAIN store'.slots /\ store'.slots[reg'[u].old].id = reg'[u].id
           /\ bt[u] \in Known => reg'[u].old # None
           /\ bt[u] \in Unknown => reg'[u].old = None
           /\ bt[u] \in InPlace => reg'[u].slot = reg'[u].old
           /\ bt[u] \in Carrying => reg'[u].cur \in DOMAIN store'.slots
  BY DEF OldFits
<1>1. Known \subseteq LookedUp /\ Unknown \subseteq LookedUp /\ InPlace \subseteq LookedUp
  BY DEF Known, Unknown, InPlace, LookedUp
<1>2. CASE u = t
  BY <1>1, <1>2 DEF OldFits, OldPasses, SameCall, Kept
<1>3. CASE u # t
  BY <1>3 DEF OldFits, Goes, Kept
<1> QED
  BY <1>2, <1>3

LEMMA SlotFrame ==
  ASSUME NEW at, NEW bt, NEW t \in Thread, Goes(at, bt, t), SlotFits(at),
         SlotPasses(at[t], bt[t], reg[t], reg'[t]), Kept(store'.slots, store.slots),
         store'.ids = store.ids, store.dead \subseteq store'.dead
  PROVE  SlotFits(bt)'
<1> SUFFICES ASSUME NEW u \in Thread
    PROVE  /\ bt[u] \in Burying /\ store'.ids[reg'[u].id] # None => store'.ids[reg'[u].id] \in store'.dead
           /\ bt[u] \in AfterPush => /\ reg'[u].slot \in DOMAIN store'.slots
                                     /\ store'.slots[reg'[u].slot].id = reg'[u].id
                                     /\ (reg'[u].old # None => reg'[u].old \in store'.dead)
           /\ bt[u] \in Deleted => reg'[u].old \in store'.dead
  BY DEF SlotFits
<1>2. CASE u = t
  BY <1>2 DEF SlotFits, SlotPasses, SameCall, Kept
<1>3. CASE u # t
  BY <1>3 DEF SlotFits, Goes, Kept
<1> QED
  BY <1>2, <1>3

LEMMA IdsFrame ==
  ASSUME NEW at, NEW bt, NEW t \in Thread, Goes(at, bt, t), IdsFit(at),
         IdsPass(at[t], bt[t], reg[t], reg'[t]), Kept(store'.slots, store.slots),
         DOMAIN store'.slots = DOMAIN store.slots,
         store'.ids = store.ids, store'.dead = store.dead
  PROVE  IdsFit(bt)'
<1>1. NoneAt(bt, Replacing) => NoneAt(at, Replacing)
  BY DEF Goes, IdsPass, NoneAt
<1>2. \A u \in Thread : at[u] \in Burying => bt[u] \in Burying /\ reg'[u].id = reg[u].id
  BY DEF Goes, IdsPass, SameCall
<1>3. LiveIn(store)' = LiveIn(store)
  BY DEF LiveIn
<1>4. \A n \in LiveIn(store) : n \in DOMAIN store.slots
  BY DEF LiveIn
<1> QED
  BY <1>1, <1>2, <1>3, <1>4 DEF IdsFit, Kept, NoneAt

LEMMA EngineFrame ==
  ASSUME NEW at, NEW bt, NEW t \in Thread, Goes(at, bt, t), InEngine(at),
         EnginePasses(at[t], bt[t], reg[t], reg'[t]), Kept(store'.slots, store.slots),
         DOMAIN store'.slots = DOMAIN store.slots,
         store.dead \subseteq store'.dead, store'.engine = store.engine
  PROVE  InEngine(bt)'
<1>1. NoneAt(bt, Replacing) => NoneAt(at, Replacing)
  BY DEF Goes, EnginePasses, NoneAt
<1>2. \A u \in Thread : at[u] \in Inserting => bt[u] \in Inserting /\ reg'[u].slot = reg[u].slot
  BY DEF Goes, EnginePasses
<1>3. \A n \in LiveIn(store)' : n \in LiveIn(store) /\ store'.slots[n].val = store.slots[n].val
  BY DEF LiveIn, Kept
<1>4. ToSet(store.engine)' = ToSet(store.engine)
  BY DEF ToSet
<1> QED
  BY <1>1, <1>2, <1>3, <1>4 DEF InEngine, NoneAt

LEMMA IndexFrame ==
  ASSUME NEW at, NEW bt, NEW t \in Thread, Goes(at, bt, t), Indexed(at),
         IndexPasses(at[t], bt[t], reg[t], reg'[t]),
         DOMAIN store'.slots = DOMAIN store.slots,
         store.dead \subseteq store'.dead, store'.meta = store.meta
  PROVE  Indexed(bt)'
<1>1. NoneAt(bt, Unindexed) => NoneAt(at, Unindexed)
  BY DEF Goes, IndexPasses, NoneAt
<1>2. \A u \in Thread : at[u] \in Indexing => bt[u] \in Indexing /\ reg'[u].slot = reg[u].slot
  BY DEF Goes, IndexPasses
<1>3. \A n \in LiveIn(store)' : n \in LiveIn(store)
  BY DEF LiveIn
<1>4. \A n : HasMeta(n)' <=> HasMeta(n)
  BY DEF HasMeta
<1> QED
  BY <1>1, <1>2, <1>3, <1>4 DEF Indexed, NoneAt

\* While a thread has the gate, shared, no compaction is under way.
LEMMA CompactFrame ==
  ASSUME NEW at, NEW bt, NEW t \in Thread, Goes(at, bt, t), Alone(at), at[t] \in GateReading,
         CompactPasses(at[t], bt[t], reg[t], reg'[t])
  PROVE  Compacting(bt)' /\ NoneAt(at, Excluding)
<1>1. \A u \in Thread : at[u] \notin Excluding
  BY DEF Alone
<1>2. /\ Packed \subseteq Excluding /\ Replacing \subseteq Excluding /\ Emptied \subseteq Excluding
      /\ Refilled \subseteq Excluding /\ Exhumed \subseteq Excluding
  BY DEF Packed, Replacing, Emptied, Refilled, Exhumed, Excluding
<1>3. \A u \in Thread : bt[u] \notin Packed \cup Replacing \cup Emptied \cup Refilled \cup Exhumed
  <2> SUFFICES ASSUME NEW u \in Thread
               PROVE  bt[u] \notin Packed \cup Replacing \cup Emptied \cup Refilled \cup Exhumed
    OBVIOUS
  <2>1. CASE u = t
    BY <1>1, <1>2, <2>1 DEF CompactPasses
  <2>2. CASE u # t
    BY <1>1, <1>2, <2>2 DEF Goes
  <2> QED
    BY <2>1, <2>2
<1> QED
  BY <1>1, <1>3 DEF Compacting, NoneAt

LEMMA ApartFrame ==
  ASSUME NEW at, NEW bt, NEW t \in Thread, Goes(at, bt, t), Apart(at),
         CalledPasses(at[t], bt[t], reg[t], reg'[t])
  PROVE  Apart(bt)'
<1> SUFFICES ASSUME NEW u \in Thread, NEW v \in Thread, u # v, bt[u] # 0, bt[v] # 0,
                    Writes(reg'[u].call), Writes(reg'[v].call)
             PROVE  reg'[u].id # reg'[v].id
  BY DEF Apart, Writes
<1>1. \A w \in Thread : /\ reg'[w].id = reg[w].id /\ reg'[w].call = reg[w].call
                        /\ bt[w] # 0 => at[w] # 0
  BY DEF Goes, CalledPasses, SameCall
<1>2. at[u] # 0 /\ at[v] # 0 /\ Writes(reg[u].call) /\ Writes(reg[v].call)
  BY <1>1
<1> QED
  BY <1>1, <1>2 DEF Apart

LEMMA SoleFrame ==
  ASSUME NEW at, NEW bt, NEW t \in Thread, Goes(at, bt, t), SlotFits(at), Sole(at),
         SolePasses(at[t], bt[t], reg[t], reg'[t]), Kept(store'.slots, store.slots),
         \A n \in DOMAIN store.slots : store'.slots[n].meta = store.slots[n].meta,
         store'.ids = store.ids
  PROVE  Sole(bt)'
<1> SUFFICES ASSUME NEW u \in Thread
    PROVE  /\ bt[u] \in Finding => store'.ids[reg'[u].id] = reg'[u].old
           /\ bt[u] \in Carrying => reg'[u].cur = reg'[u].old
           /\ bt[u] \in AfterPush => /\ store'.ids[reg'[u].id] = reg'[u].slot
                                     /\ store'.slots[reg'[u].slot].meta = reg'[u].n
           /\ bt[u] \in Deleted => store'.ids[reg'[u].id] = None
           /\ bt[u] \in Deciding => reg'[u].ok
  BY DEF Sole
<1>1. CASE u = t
  BY <1>1 DEF Sole, SlotFits, SolePasses, SameCall
<1>2. CASE u # t
  BY <1>2 DEF Sole, SlotFits, Goes
<1> QED
  BY <1>1, <1>2

LEMMA CarriedFrame ==
  ASSUME NEW at, NEW bt, NEW t \in Thread, Goes(at, bt, t), OldFits(at), SlotFits(at), Carried(at),
         CarriedPasses(at[t], bt[t], reg[t], reg'[t]), Kept(store'.slots, store.slots),
         store.sparse \subseteq store'.sparse
  PROVE  Carried(bt)'
<1> SUFFICES ASSUME NEW u \in Thread
    PROVE  /\ bt[u] \in Plain => ~reg'[u].sparse
           /\ bt[u] \in Laden => reg'[u].sparse = (reg'[u].old # None /\ store'.slots[reg'[u].old].sparse)
           /\ bt[u] \in Landed => store'.slots[reg'[u].slot].sparse =
                                   (reg'[u].old # None /\ store'.slots[reg'[u].old].sparse)
           /\ bt[u] \in Relocating /\ reg'[u].old # None =>
                (store'.slots[reg'[u].old].sparse => reg'[u].old \in store'.sparse)
  BY DEF Carried, CarriesSparse
<1>1. Laden \cup Landed \cup Relocating \subseteq LookedUp /\ Landed \subseteq AfterPush
  BY DEF Laden, Landed, Relocating, LookedUp, AfterPush
<1>2. PICK r : /\ r = reg[u]
               /\ bt[u] \in Plain => at[u] \in Plain /\ reg'[u].sparse = r.sparse
               /\ bt[u] \in Laden => at[u] \in Laden /\ reg'[u].sparse = r.sparse /\ reg'[u].old = r.old
               /\ bt[u] \in Landed => at[u] \in Landed /\ reg'[u].slot = r.slot /\ reg'[u].old = r.old
               /\ bt[u] \in Relocating => at[u] \in Relocating /\ reg'[u].old = r.old
  BY DEF Goes, CarriedPasses
<1>3. at[u] \in LookedUp /\ r.old # None => store'.slots[r.old].sparse = store.slots[r.old].sparse
  BY <1>2 DEF OldFits, Kept
<1>4. at[u] \in AfterPush => store'.slots[r.slot].sparse = store.slots[r.slot].sparse
  BY <1>2 DEF SlotFits, Kept
<1> QED
  BY <1>1, <1>2, <1>3, <1>4 DEF Carried, CarriesSparse

\* More slots may be dead, of calls that are about to remove their metadata.
LEMMA MetaBuried ==
  ASSUME NEW at, NEW bt, NEW t \in Thread, Goes(at, bt, t), MetaExact(at),
         MetaPasses(at[t], bt[t], reg[t], reg'[t]),
         DOMAIN store'.slots = DOMAIN store.slots,
         \A n \in DOMAIN store.slots : store'.slots[n].meta = store.slots[n].meta,
         store.dead \subseteq store'.dead, store'.meta = store.meta,
         \A k \in store'.dead \ store.dead : \E u \in Thread : bt[u] \in Unindexing /\ reg'[u].old = k, Typed
  PROVE  MetaExact(bt)'
<1>1. SUFFICES ASSUME NoneAt(bt, Unindexed)
      PROVE  /\ \A m \in store'.meta :
                  /\ m.slot \in DOMAIN store'.slots
                  /\ m.slot \in store'.dead =>
                       \E u \in Thread : bt[u] \in Unindexing /\ reg'[u].old = m.slot
                  /\ m.slot \notin store'.dead =>
                       \/ m.meta = store'.slots[m.slot].meta
                       \/ \E u \in Thread : bt[u] \in Rewriting /\ reg'[u].old = m.slot /\ reg'[u].n = m.meta
             /\ \A n \in LiveIn(store)' :
                  \/ [slot |-> n, meta |-> store'.slots[n].meta] \in store'.meta
                  \/ \E u \in Thread : bt[u] \in Indexing \cup Rewriting /\ reg'[u].slot = n
             /\ \A u \in Thread : bt[u] \in Rewriting =>
                  [slot |-> reg'[u].old, meta |-> reg'[u].n] \in store'.meta
             /\ \A u \in Thread : bt[u] \in Rewriting =>
                  \A m \in store'.meta : m.slot = reg'[u].old => m.meta = reg'[u].n
             /\ \A u \in Thread : bt[u] \in Indexing =>
                  \A m \in store'.meta : m.slot # reg'[u].slot
  BY DEF MetaExact, NoneAt
<1>2. NoneAt(at, Unindexed)
  BY <1>1 DEF Goes, MetaPasses, NoneAt
<1>3. LiveIn(store)' \subseteq LiveIn(store)
  BY DEF LiveIn
<1>4. \A m \in store.meta : m.slot \in Nat
  BY DEF Typed, Stores
<1>5. \A u \in Thread, k \in Nat : at[u] \in Unindexing /\ reg[u].old = k => bt[u] \in Unindexing /\ reg'[u].old = k
  BY ConcurrencyAssumption DEF Goes, MetaPasses
<1>6. \A u \in Thread : /\ bt[u] \in Rewriting <=> at[u] \in Rewriting
                        /\ at[u] \in Rewriting => reg'[u].old = reg[u].old
                        /\ reg'[u].n = reg[u].n
                        /\ at[u] \in Indexing \cup Rewriting =>
                             bt[u] \in Indexing \cup Rewriting /\ reg'[u].slot = reg[u].slot
                        /\ bt[u] \in Indexing => at[u] \in Indexing /\ reg'[u].slot = reg[u].slot
  BY DEF Goes, MetaPasses, SameCall
<1>7. ASSUME NEW m \in store'.meta
      PROVE  /\ m.slot \in DOMAIN store'.slots
             /\ m.slot \in store'.dead =>
                  \E u \in Thread : bt[u] \in Unindexing /\ reg'[u].old = m.slot
             /\ m.slot \notin store'.dead =>
                  \/ m.meta = store'.slots[m.slot].meta
                  \/ \E u \in Thread : bt[u] \in Rewriting /\ reg'[u].old = m.slot /\ reg'[u].n = m.meta
  BY <1>2, <1>4, <1>5, <1>6 DEF MetaExact
<1>8. ASSUME NEW n \in LiveIn(store)'
      PROVE  \/ [slot |-> n, meta |-> store'.slots[n].meta] \in store'.meta
             \/ \E u \in Thread : bt[u] \in Indexing \cup Rewriting /\ reg'[u].slot = n
  <2>1. n \in LiveIn(store) /\ store'.slots[n].meta = store.slots[n].meta
    BY <1>3 DEF LiveIn
  <2>2. \/ [slot |-> n, meta |-> store.slots[n].meta] \in store.meta
        \/ \E u \in Thread : at[u] \in Indexing \cup Rewriting /\ reg[u].slot = n
    BY <1>2, <2>1 DEF MetaExact
  <2> QED
    BY <1>6, <2>1, <2>2
<1>9. ASSUME NEW u \in Thread
      PROVE  /\ bt[u] \in Rewriting => /\ [slot |-> reg'[u].old, meta |-> reg'[u].n] \in store'.meta
                                       /\ \A m \in store'.meta : m.slot = reg'[u].old => m.meta = reg'[u].n
             /\ bt[u] \in Indexing => \A m \in store'.meta : m.slot # reg'[u].slot
  <2>1. at[u] \in Rewriting => /\ [slot |-> reg[u].old, meta |-> reg[u].n] \in store.meta
                               /\ \A m \in store.meta : m.slot = reg[u].old => m.meta = reg[u].n
    BY <1>2 DEF MetaExact
  <2>2. at[u] \in Indexing => \A m \in store.meta : m.slot # reg[u].slot
    BY <1>2 DEF MetaExact
  <2> QED
    BY <1>6, <2>1, <2>2
<1> QED
  BY <1>7, <1>8, <1>9

LEMMA MetaFrame ==
  ASSUME NEW at, NEW bt, NEW t \in Thread, Goes(at, bt, t), MetaExact(at),
         MetaPasses(at[t], bt[t], reg[t], reg'[t]),
         DOMAIN store'.slots = DOMAIN store.slots,
         \A n \in DOMAIN store.slots : store'.slots[n].meta = store.slots[n].meta,
         store'.dead = store.dead, store'.meta = store.meta, Typed
  PROVE  MetaExact(bt)'
  BY MetaBuried

LEMMA SparseBuried ==
  ASSUME NEW at, NEW bt, NEW t \in Thread, Goes(at, bt, t), SparseExact(at), Carried(at),
         SparsePasses(at[t], bt[t], reg[t], reg'[t]), Kept(store'.slots, store.slots),
         DOMAIN store'.slots = DOMAIN store.slots,
         store.dead \subseteq store'.dead, store'.sparse = store.sparse, Typed,
         \A k \in store'.dead \ store.dead : \E u \in Thread : bt[u] \in Dropping /\ reg'[u].old = k
  PROVE  SparseExact(bt)'
<1>1. LiveIn(store)' \subseteq LiveIn(store)
  BY DEF LiveIn
<1>2. \A n \in store.sparse : n \in Nat
  BY DEF Typed, Stores
<1>3. \A u \in Thread, k \in Nat : at[u] \in Dropping /\ reg[u].old = k => bt[u] \in Dropping /\ reg'[u].old = k
  BY ConcurrencyAssumption DEF Goes, SparsePasses
<1>4. \A u \in Thread : at[u] \in Placing /\ store.slots[reg[u].slot].sparse =>
                          bt[u] \in Placing /\ reg'[u].slot = reg[u].slot
  <2>1. Placing \subseteq Landed
    BY DEF Placing, Landed
  <2> QED
    BY <2>1 DEF Goes, SparsePasses, Carried
<1>5. ASSUME NoneAt(bt, Renumbering)
      PROVE  /\ \A n \in store'.sparse :
                  /\ n \in DOMAIN store'.slots /\ store'.slots[n].sparse
                  /\ n \in store'.dead => \E u \in Thread : bt[u] \in Dropping /\ reg'[u].old = n
             /\ \A n \in LiveIn(store)' : store'.slots[n].sparse =>
                  \/ n \in store'.sparse
                  \/ \E u \in Thread : bt[u] \in Placing /\ reg'[u].slot = n
  <2>1. NoneAt(at, Renumbering)
    BY <1>5 DEF Goes, SparsePasses, NoneAt
  <2>2. \A n \in LiveIn(store) : n \in DOMAIN store.slots
    BY DEF LiveIn
  <2>3. ASSUME NEW n \in store'.sparse
        PROVE  /\ n \in DOMAIN store'.slots /\ store'.slots[n].sparse
               /\ n \in store'.dead => \E u \in Thread : bt[u] \in Dropping /\ reg'[u].old = n
    BY <1>2, <1>3, <2>1 DEF SparseExact, Kept
  <2>4. ASSUME NEW n \in LiveIn(store)', store'.slots[n].sparse
        PROVE  \/ n \in store'.sparse
               \/ \E u \in Thread : bt[u] \in Placing /\ reg'[u].slot = n
    BY <1>1, <1>4, <2>1, <2>2, <2>4 DEF SparseExact, Kept
  <2> QED
    BY <2>3, <2>4
<1>6. ASSUME NEW u \in Thread, bt[u] \in Renumbering
      PROVE  /\ DOMAIN reg'[u].order = DOMAIN store'.slots
             /\ \A n \in DOMAIN store'.slots :
                  reg'[u].order[n] \in store'.sparse <=> store'.slots[n].sparse
  <2>1. at[u] \in Renumbering /\ reg'[u].order = reg[u].order
    BY <1>6 DEF Goes, SparsePasses
  <2> QED
    BY <2>1 DEF SparseExact, Kept
<1> QED
  BY <1>5, <1>6 DEF SparseExact, NoneAt

LEMMA SparseFrame ==
  ASSUME NEW at, NEW bt, NEW t \in Thread, Goes(at, bt, t), SparseExact(at), Carried(at),
         SparsePasses(at[t], bt[t], reg[t], reg'[t]), Kept(store'.slots, store.slots),
         DOMAIN store'.slots = DOMAIN store.slots,
         store'.dead = store.dead, store'.sparse = store.sparse, Typed
  PROVE  SparseExact(bt)'
  BY SparseBuried

LEMMA LogFrame ==
  ASSUME NEW at, NEW bt, NEW t \in Thread, Goes(at, bt, t), LogExact(at),
         LogPasses(at[t], bt[t], reg[t], reg'[t]), UNCHANGED persistent,
         store'.slots = store.slots, store'.ids = store.ids, log' = log
  PROVE  LogExact(bt)'
<1>1. SUFFICES ASSUME persistent, log.whole
      PROVE  /\ NoneAt(bt, Cleared) =>
                  \A i \in Id : \/ Replayed'[i] = RecordAt(store, i)'
                                \/ \E u \in Thread : bt[u] \in Unlogged /\ reg'[u].id = i
             /\ \A u \in Thread : bt[u] \in LoggedFirst =>
                  Replayed'[reg'[u].id] = [store'.slots[reg'[u].old] EXCEPT !.meta = reg'[u].n]
             /\ \A u \in Thread : bt[u] \in Cleared =>
                  /\ \A n \in DOMAIN store'.slots : Replayed'[store'.slots[n].id] = store'.slots[n]
                  /\ \A i \in Id : (\A n \in DOMAIN store'.slots : store'.slots[n].id # i) => Replayed'[i] = None
  BY DEF LogExact, NoneAt
<1>2. Replayed' = Replayed /\ \A i \in Id : RecordAt(store, i)' = RecordAt(store, i)
  BY DEF Replayed, Replay, RecordAt
<1>3. \A u \in Thread : /\ at[u] \in Cleared <=> bt[u] \in Cleared
                        /\ at[u] \in Unlogged => bt[u] \in Unlogged
                        /\ bt[u] \in LoggedFirst => at[u] \in LoggedFirst /\ reg'[u].old = reg[u].old
                        /\ reg'[u].id = reg[u].id /\ reg'[u].n = reg[u].n
  BY <1>1 DEF Goes, LogPasses, SameCall
<1>4. NoneAt(bt, Cleared) => NoneAt(at, Cleared)
  BY <1>3 DEF NoneAt
<1> HIDE DEF Replayed
<1>5. NoneAt(bt, Cleared) =>
        \A i \in Id : \/ Replayed'[i] = RecordAt(store, i)'
                      \/ \E u \in Thread : bt[u] \in Unlogged /\ reg'[u].id = i
  BY <1>1, <1>2, <1>3, <1>4 DEF LogExact
<1>6. ASSUME NEW u \in Thread
      PROVE  /\ bt[u] \in LoggedFirst =>
                  Replayed'[reg'[u].id] = [store'.slots[reg'[u].old] EXCEPT !.meta = reg'[u].n]
             /\ bt[u] \in Cleared =>
                  /\ \A n \in DOMAIN store'.slots : Replayed'[store'.slots[n].id] = store'.slots[n]
                  /\ \A i \in Id : (\A n \in DOMAIN store'.slots : store'.slots[n].id # i) => Replayed'[i] = None
  <2>1. bt[u] \in LoggedFirst =>
          Replayed[reg[u].id] = [store.slots[reg[u].old] EXCEPT !.meta = reg[u].n]
    BY <1>1, <1>3 DEF LogExact
  <2>2. bt[u] \in Cleared =>
          /\ \A n \in DOMAIN store.slots : Replayed[store.slots[n].id] = store.slots[n]
          /\ \A i \in Id : (\A n \in DOMAIN store.slots : store.slots[n].id # i) => Replayed[i] = None
    BY <1>1, <1>3 DEF LogExact
  <2> QED
    BY <1>2, <1>3, <2>1, <2>2
<1> QED
  BY <1>5, <1>6

-----------------------------------------------------------------------------
(* The points by what their access does.                                   *)

LookAt == {104, 202, 302, 402, 501}
FindAt == {105, 214, 244}
CarryAt == {107, 216, 246}
BuryAt == {109, 218, 248}
PushAt == {111, 220, 250}
EngineAt == {115, 223, 255}
UnindexAt == {119, 224, 319, 409}
RemapAt == {121, 225}
IndexAt == {123, 226, 252, 321}
LogAt == {130, 316}

\* The accesses that change nothing but a flag of the call.
QuietAt == {103, 112, 116, 117, 127, 129, 131, 132, 203, 205, 221, 242, 251, 256, 257, 303, 310, 313,
           315, 317, 403, 406, 407, 502, 504, 505, 507, 602, 604, 605, 607, 705, 717, 721, 724, 803,
           805, 809, 810} \cup 227..229 \cup 306..308 \cup 901..903

\* The points that are followed by the next number, and whose step changes no data.
Straight == {106, 108, 110, 116, 118, 120, 122, 131, 201, 204, 215, 217, 219, 221, 222, 227, 228, 245,
            247, 249, 251, 253, 254, 256, 301, 309, 317, 318, 320, 322, 401, 404, 406, 408, 410, 412,
            503, 504, 506, 603, 604, 606, 705, 706, 710, 712, 714, 715, 717, 718, 809, 901} \cup
            101..103 \cup 112..114 \cup 124..129 \cup 211..213 \cup 241..243 \cup 304..307 \cup
            311..315 \cup 701..703 \cup 720..722 \cup 802..807

LEMMA AccessKinds ==
  ASSUME NEW n \in DoAt
  PROVE  n \in QuietAt
               \cup LookAt \cup FindAt \cup CarryAt \cup BuryAt \cup PushAt \cup EngineAt \cup UnindexAt \cup RemapAt
               \cup IndexAt \cup LogAt \cup {323, 405, 411, 413, 601, 704, 711, 713, 716, 719, 723, 808} \cup 707..709
  BY DEF DoAt, QuietAt, LookAt, FindAt, CarryAt, BuryAt, PushAt, EngineAt, UnindexAt, RemapAt, IndexAt, LogAt

LEMMA AccessNames ==
  /\ \A n \in LookAt : Instr(n)[2] = "look"
  /\ \A n \in FindAt : Instr(n)[2] = "find"
  /\ \A n \in CarryAt : Instr(n)[2] = "carry"
  /\ \A n \in BuryAt : Instr(n)[2] = "bury"
  /\ \A n \in PushAt : Instr(n)[2] = "push"
  /\ \A n \in EngineAt : Instr(n)[2] = "insert"
  /\ \A n \in UnindexAt : Instr(n)[2] = "unindex"
  /\ \A n \in RemapAt : Instr(n)[2] = "remap"
  /\ \A n \in IndexAt : Instr(n)[2] = "index"
  /\ \A n \in LogAt : Instr(n)[2] = "log"
  /\ Instr(323)[2] = "rewrite" /\ Instr(405)[2] = "delete"
  /\ Instr(411)[2] = "drop" /\ Instr(413)[2] = "unlog"
  /\ Instr(704)[2] = "pack" /\ Instr(707)[2] = "replace"
  /\ Instr(708)[2] = "clear" /\ Instr(709)[2] = "fill"
  /\ Instr(711)[2] = "exhume" /\ Instr(713)[2] = "renumber"
  /\ Instr(716)[2] = "rebuild" /\ Instr(719)[2] = "forget"
  /\ Instr(723)[2] = "restore" /\ Instr(808)[2] = "save"
<1>1. \A n \in LookAt : Instr(n)[2] = "look"
  BY SetInstructions, BatchInstructions, UpdateInstructions, DeleteInstructions, ReadsInstructions DEF LookAt
<1>2. \A n \in FindAt : Instr(n)[2] = "find"
  BY SetInstructions, BatchInstructions DEF FindAt
<1>3. \A n \in CarryAt : Instr(n)[2] = "carry"
  BY SetInstructions, BatchInstructions DEF CarryAt
<1>4. \A n \in BuryAt : Instr(n)[2] = "bury"
  BY SetInstructions, BatchInstructions DEF BuryAt
<1>5. \A n \in PushAt : Instr(n)[2] = "push"
  BY SetInstructions, BatchInstructions DEF PushAt
<1>6. \A n \in EngineAt : Instr(n)[2] = "insert"
  BY SetInstructions, BatchInstructions DEF EngineAt
<1>7. \A n \in UnindexAt : Instr(n)[2] = "unindex"
  BY SetInstructions, BatchInstructions, UpdateInstructions, DeleteInstructions DEF UnindexAt
<1>8. \A n \in RemapAt : Instr(n)[2] = "remap"
  BY SetInstructions, BatchInstructions DEF RemapAt
<1>9. \A n \in IndexAt : Instr(n)[2] = "index"
  BY SetInstructions, BatchInstructions, UpdateInstructions DEF IndexAt
<1>10. \A n \in LogAt : Instr(n)[2] = "log"
  BY SetInstructions, UpdateInstructions DEF LogAt
<1> QED
  BY <1>1, <1>2, <1>3, <1>4, <1>5, <1>6, <1>7, <1>8, <1>9, <1>10,
     UpdateInstructions, DeleteInstructions, CompactInstructions, EndsInstructions

QuietName == {"nothing", "vector", "record", "id", "collect", "known?", "dead?", "live?", "buried?", "full?", "moved", "split", "checkpoint?"}

LEMMA QuietNames ==
  ASSUME NEW n \in QuietAt
  PROVE  Instr(n)[2] \in QuietName /\ (n \in {406, 407} => Instr(n)[2] \in {"nothing", "dead?"})
<1>1. CASE n \in {103, 112, 116, 117, 127, 129, 131, 132}
  BY <1>1, SetInstructions DEF QuietName
<1>2. CASE n \in {203, 205, 221, 242, 251, 256, 257} \cup 227..229
  BY <1>2, BatchInstructions DEF QuietName
<1>3. CASE n \in {303, 310, 313, 315, 317} \cup 306..308
  BY <1>3, UpdateInstructions DEF QuietName
<1>4. CASE n \in {403, 406, 407}
  BY <1>4, DeleteInstructions DEF QuietName
<1>5. CASE n \in {502, 504, 505, 507, 602, 604, 605, 607}
  BY <1>5, ReadsInstructions DEF QuietName
<1>6. CASE n \in {705, 717, 721, 724}
  BY <1>6, CompactInstructions DEF QuietName
<1>7. CASE n \in {803, 805, 809, 810} \cup 901..903
  BY <1>7, EndsInstructions DEF QuietName
<1> QED
  BY <1>1, <1>2, <1>3, <1>4, <1>5, <1>6, <1>7 DEF QuietAt

\* A step that changes no data goes from n to m, and leaves the call its local variables.
QuietGo(n, m) ==
  \/ n \in Straight /\ m = n + 1
  \/ n = 117 /\ m \in {118, 122}
  \/ n \in {132, 205} /\ m = 901
  \/ n = 203 /\ m \in {211, 241}
  \/ n \in {229, 257} /\ m \in {204, 901}
  \/ n \in {303, 403} /\ m \in {903, n + 1}
  \/ n = 308 /\ m \in {309, 903}
  \/ n = 310 /\ m \in {311, 318}
  \/ n = 407 /\ m \in {408, 903}
  \/ n = 801 /\ m \in {802, 810}
  \/ n \in {501, 502, 505, 507, 601, 602, 605, 607, 724, 810, 902, 903} /\ m \in {0, n + 1, 801}

QuietReg(n, m, o, r) ==
  /\ SameCall(o, r) /\ r.cur = o.cur /\ r.sparse = o.sparse /\ r.order = o.order
  /\ n \notin {501, 601} => r.old = o.old /\ r.slot = o.slot
  /\ n \in {406, 407} => r.ok = o.ok
  /\ n = 117 => (m = 118 <=> r.old # None)
  /\ n = 203 => (m = 241 <=> r.old = None)
  /\ n \in {303, 403} => (m = 903 <=> r.old = None)
  /\ n = 310 => (m = 318 <=> ~persistent)
  /\ n = 407 => (m = 903 <=> ~r.ok)

LEMMA LockingQuiet ==
  ASSUME NEW n \in Point \ {0}, n \notin DoAt, NEW o
  PROVE  QuietGo(n, Follow(n)) /\ QuietReg(n, Follow(n), o, o)
<1> DEFINE m == Follow(n)
<1>1. (n \in Straight /\ m = n + 1) \/ (n = 801 /\ m \in {802, 810})
  <2>1. n \in Straight \/ n = 801
    BY DEF Point, DoAt, Straight
  <2>2. n \in Straight => n \notin {105, 117, 123, 132, 203, 205, 214, 229, 244, 257, 310, 323, 411, 413,
                                   507, 607, 724, 801, 810, 902, 903}
    BY DEF Straight
  <2>3. n \in Straight => m = n + 1
    BY <2>2 DEF Follow
  <2>4. Follow(801) \in {802, 810}
    BY DEF Follow
  <2>5. CASE n \in Straight
    BY <2>3, <2>5
  <2>6. CASE n = 801
    BY <2>4, <2>6
  <2> QED
    BY <2>1, <2>5, <2>6
<1>2. n \notin {117, 203, 303, 403, 310, 407}
  BY DEF DoAt
<1> HIDE DEF m
<1>3. QuietGo(n, m)
  BY <1>1 DEF QuietGo
<1>4. QuietReg(n, m, o, o)
  BY <1>2 DEF QuietReg, SameCall
<1> QED
  BY <1>3, <1>4 DEF m

LEMMA QuietPasses ==
  ASSUME NEW n \in Point, NEW m, NEW o, NEW r, QuietGo(n, m), QuietReg(n, m, o, r)
  PROVE  /\ CalledPasses(n, m, o, r) /\ OldPasses(n, m, o, r) /\ SlotPasses(n, m, o, r)
         /\ IdsPass(n, m, o, r) /\ EnginePasses(n, m, o, r) /\ IndexPasses(n, m, o, r)
         /\ CompactPasses(n, m, o, r) /\ SolePasses(n, m, o, r) /\ CarriedPasses(n, m, o, r)
         /\ (n = 407 => r.ok) => /\ MetaPasses(n, m, o, r) /\ SparsePasses(n, m, o, r)
                                 /\ LogPasses(n, m, o, r)
<1>1. SameCall(o, r) /\ r.cur = o.cur /\ r.sparse = o.sparse /\ r.order = o.order
  BY DEF QuietReg, SameCall
<1>2. CASE n \in Straight /\ m = n + 1
  <2>1. /\ r.old = o.old /\ r.slot = o.slot /\ (n = 406 => r.ok = o.ok)
    BY <1>2 DEF QuietReg, Straight
  <2>2. CalledPasses(n, m, o, r)
    BY <1>1, <1>2, <2>1 DEF CalledPasses, OfSet, OfBatch, OfUpdate, OfDelete, Straight
  <2>3. OldPasses(n, m, o, r)
    BY <1>1, <1>2, <2>1 DEF OldPasses, LookedUp, Known, Unknown, InPlace, Carrying, Straight
  <2>4. SlotPasses(n, m, o, r)
    BY <1>1, <1>2, <2>1 DEF SlotPasses, Burying, AfterPush, Deleted, Straight
  <2>5. IdsPass(n, m, o, r)
    BY <1>1, <1>2, <2>1 DEF IdsPass, Replacing, Burying, Straight
  <2>6. EnginePasses(n, m, o, r)
    BY <1>1, <1>2, <2>1 DEF EnginePasses, Replacing, Inserting, Straight
  <2>7. IndexPasses(n, m, o, r)
    BY <1>1, <1>2, <2>1 DEF IndexPasses, Unindexed, Indexing, Straight
  <2>8. CompactPasses(n, m, o, r)
    BY <1>1, <1>2, <2>1 DEF CompactPasses, Packed, Replacing, Emptied, Refilled, Exhumed, Straight
  <2>9. SolePasses(n, m, o, r)
    BY <1>1, <1>2, <2>1 DEF SolePasses, Finding, Carrying, AfterPush, Deleted, Deciding, Straight
  <2>10. CarriedPasses(n, m, o, r)
    BY <1>1, <1>2, <2>1 DEF CarriedPasses, Plain, Laden, Landed, Relocating, Straight
  <2>11. (n = 407 => r.ok) => MetaPasses(n, m, o, r)
    BY <1>1, <1>2, <2>1 DEF MetaPasses, Unindexed, Unindexing, Rewriting, Indexing, Straight
  <2>12. (n = 407 => r.ok) => SparsePasses(n, m, o, r)
    BY <1>1, <1>2, <2>1 DEF SparsePasses, Renumbering, Dropping, Placing, Straight
  <2>13. (n = 407 => r.ok) => LogPasses(n, m, o, r)
    BY <1>1, <1>2, <2>1 DEF LogPasses, Cleared, Unlogged, LoggedFirst, Straight
  <2> QED
    BY <2>2, <2>3, <2>4, <2>5, <2>6, <2>7, <2>8, <2>9, <2>10, <2>11, <2>12, <2>13
<1>3. CASE \/ n = 117 /\ m \in {118, 122}
           \/ n \in {132, 205} /\ m = 901
           \/ n = 203 /\ m \in {211, 241}
           \/ n \in {229, 257} /\ m \in {204, 901}
           \/ n \in {303, 403} /\ m \in {903, n + 1}
           \/ n = 308 /\ m \in {309, 903}
           \/ n = 310 /\ m \in {311, 318}
           \/ n = 407 /\ m \in {408, 903}
           \/ n = 801 /\ m \in {802, 810}
  <2>1. /\ r.old = o.old /\ r.slot = o.slot /\ (n = 407 => r.ok = o.ok)
        /\ \/ n = 117 /\ (m = 118 \/ (m = 122 /\ r.old = None))
           \/ n \in {132, 205} /\ m = 901
           \/ n = 203 /\ (m = 211 \/ (m = 241 /\ r.old = None))
           \/ n \in {229, 257} /\ m \in {204, 901}
           \/ n = 303 /\ (m = 903 \/ (m = 304 /\ r.old # None))
           \/ n = 403 /\ (m = 903 \/ (m = 404 /\ r.old # None))
           \/ n = 308 /\ m \in {309, 903}
           \/ n = 310 /\ (m = 311 \/ (m = 318 /\ ~persistent))
           \/ n = 407 /\ (m = 408 \/ (m = 903 /\ ~r.ok))
           \/ n = 801 /\ m \in {802, 810}
    <3>1. n \notin {501, 601}
      BY <1>3
    <3>2. n \in {303, 403} => (m = n + 1 => m # 903)
      OBVIOUS
    <3>3. /\ n = 117 /\ m = 122 => r.old = None
          /\ n = 203 /\ m = 241 => r.old = None
          /\ n \in {303, 403} /\ m # 903 => r.old # None
          /\ n = 310 /\ m = 318 => ~persistent
          /\ n = 407 /\ m = 903 => ~r.ok
      BY DEF QuietReg
    <3>4. r.old = o.old /\ r.slot = o.slot /\ (n = 407 => r.ok = o.ok)
      BY <3>1 DEF QuietReg
    <3> QED
      BY <1>3, <3>2, <3>3, <3>4
  <2>2. CalledPasses(n, m, o, r)
    BY <1>1, <2>1 DEF CalledPasses, OfSet, OfBatch, OfUpdate, OfDelete
  <2>3. OldPasses(n, m, o, r)
    BY <1>1, <2>1 DEF OldPasses, LookedUp, Known, Unknown, InPlace, Carrying
  <2>4. SlotPasses(n, m, o, r)
    BY <1>1, <2>1 DEF SlotPasses, Burying, AfterPush, Deleted
  <2>5. IdsPass(n, m, o, r)
    BY <1>1, <2>1 DEF IdsPass, Replacing, Burying
  <2>6. EnginePasses(n, m, o, r)
    BY <1>1, <2>1 DEF EnginePasses, Replacing, Inserting
  <2>7. IndexPasses(n, m, o, r)
    BY <1>1, <2>1 DEF IndexPasses, Unindexed, Indexing
  <2>8. CompactPasses(n, m, o, r)
    BY <1>1, <2>1 DEF CompactPasses, Packed, Replacing, Emptied, Refilled, Exhumed
  <2>9. SolePasses(n, m, o, r)
    BY <1>1, <2>1 DEF SolePasses, Finding, Carrying, AfterPush, Deleted, Deciding
  <2>10. CarriedPasses(n, m, o, r)
    BY <1>1, <2>1 DEF CarriedPasses, Plain, Laden, Landed, Relocating
  <2>11. (n = 407 => r.ok) => MetaPasses(n, m, o, r)
    BY <1>1, <2>1 DEF MetaPasses, Unindexed, Unindexing, Rewriting, Indexing
  <2>12. (n = 407 => r.ok) => SparsePasses(n, m, o, r)
    BY <1>1, <2>1 DEF SparsePasses, Renumbering, Dropping, Placing
  <2>13. (n = 407 => r.ok) => LogPasses(n, m, o, r)
    BY <1>1, <2>1 DEF LogPasses, Cleared, Unlogged, LoggedFirst
  <2> QED
    BY <2>2, <2>3, <2>4, <2>5, <2>6, <2>7, <2>8, <2>9, <2>10, <2>11, <2>12, <2>13
<1>4. CASE n \in {501, 502, 505, 507, 601, 602, 605, 607, 724, 810, 902, 903} /\ m \in {0, n + 1, 801}
  <2>2. CalledPasses(n, m, o, r)
    BY <1>1, <1>4 DEF CalledPasses, OfSet, OfBatch, OfUpdate, OfDelete
  <2>3. OldPasses(n, m, o, r)
    BY <1>1, <1>4 DEF OldPasses, LookedUp, Known, Unknown, InPlace, Carrying
  <2>4. SlotPasses(n, m, o, r)
    BY <1>1, <1>4 DEF SlotPasses, Burying, AfterPush, Deleted
  <2>5. IdsPass(n, m, o, r)
    BY <1>1, <1>4 DEF IdsPass, Replacing, Burying
  <2>6. EnginePasses(n, m, o, r)
    BY <1>1, <1>4 DEF EnginePasses, Replacing, Inserting
  <2>7. IndexPasses(n, m, o, r)
    BY <1>1, <1>4 DEF IndexPasses, Unindexed, Indexing
  <2>8. CompactPasses(n, m, o, r)
    BY <1>1, <1>4 DEF CompactPasses, Packed, Replacing, Emptied, Refilled, Exhumed
  <2>9. SolePasses(n, m, o, r)
    BY <1>1, <1>4 DEF SolePasses, Finding, Carrying, AfterPush, Deleted, Deciding
  <2>10. CarriedPasses(n, m, o, r)
    BY <1>1, <1>4 DEF CarriedPasses, Plain, Laden, Landed, Relocating
  <2>11. (n = 407 => r.ok) => MetaPasses(n, m, o, r)
    BY <1>1, <1>4 DEF MetaPasses, Unindexed, Unindexing, Rewriting, Indexing
  <2>12. (n = 407 => r.ok) => SparsePasses(n, m, o, r)
    BY <1>1, <1>4 DEF SparsePasses, Renumbering, Dropping, Placing
  <2>13. (n = 407 => r.ok) => LogPasses(n, m, o, r)
    BY <1>1, <1>4 DEF LogPasses, Cleared, Unlogged, LoggedFirst
  <2> QED
    BY <2>2, <2>3, <2>4, <2>5, <2>6, <2>7, <2>8, <2>9, <2>10, <2>11, <2>12, <2>13
<1> QED
  BY <1>2, <1>3, <1>4 DEF QuietGo

-----------------------------------------------------------------------------
(* Steps that change no data.                                              *)

LEMMA CompactSame ==
  ASSUME NEW at, NEW bt, NEW t \in Thread, Goes(at, bt, t), Compacting(at),
         CompactPasses(at[t], bt[t], reg[t], reg'[t]), store' = store
  PROVE  Compacting(bt)'
<1>1. LiveSeq(store)' = LiveSeq(store)
  OBVIOUS
<1>2. ASSUME NEW u \in Thread
      PROVE  /\ bt[u] \in Packed => at[u] \in Packed /\ reg'[u].order = reg[u].order
             /\ bt[u] \in Replacing => at[u] \in Replacing
             /\ bt[u] \in Emptied => at[u] \in Emptied
             /\ bt[u] \in Refilled => at[u] \in Refilled
             /\ bt[u] \in Exhumed => at[u] \in Exhumed
  BY DEF Goes, CompactPasses
<1> HIDE DEF LiveSeq
<1> QED
  BY <1>1, <1>2 DEF Compacting

LEMMA KeptSame ==
  ASSUME NEW s
  PROVE  Kept(s, s)
  BY DEF Kept

LEMMA QuietKeeps ==
  ASSUME Typed, NEW at, NEW bt, NEW t \in Thread, Goes(at, bt, t), Consistent(at),
         QuietGo(at[t], bt[t]), QuietReg(at[t], bt[t], reg[t], reg'[t]),
         UNCHANGED <<store, log, persistent>>
  PROVE  Consistent(bt)' /\ (Unraced(at) => Unraced(bt)')
<1> DEFINE n == at[t]
           m == bt[t]
           o == reg[t]
           r == reg'[t]
<1>1. n \in Point /\ QuietGo(n, m) /\ QuietReg(n, m, o, r)
  BY DEF Goes
<1>2. store' = store /\ log' = log /\ UNCHANGED persistent
  OBVIOUS
<1>3. Kept(store'.slots, store.slots) /\ store.dead \subseteq store'.dead /\ store.sparse \subseteq store'.sparse
  BY <1>2, KeptSame
<1>4. /\ CalledPasses(n, m, o, r) /\ OldPasses(n, m, o, r) /\ SlotPasses(n, m, o, r)
      /\ IdsPass(n, m, o, r) /\ EnginePasses(n, m, o, r) /\ IndexPasses(n, m, o, r)
      /\ CompactPasses(n, m, o, r) /\ SolePasses(n, m, o, r) /\ CarriedPasses(n, m, o, r)
      /\ (n = 407 => r.ok) => MetaPasses(n, m, o, r) /\ SparsePasses(n, m, o, r) /\ LogPasses(n, m, o, r)
  <2> HIDE DEF n, m, o, r
  <2> QED
    BY <1>1, QuietPasses
<1>5. Consistent(bt)'
  <2>1. Called(bt)'
    BY <1>4, CalledFrame DEF Consistent
  <2>2. OldFits(bt)'
    BY <1>3, <1>4, OldFrame DEF Consistent
  <2>3. SlotFits(bt)'
    BY <1>2, <1>3, <1>4, SlotFrame DEF Consistent
  <2>4. IdsFit(bt)'
    BY <1>2, <1>3, <1>4, IdsFrame DEF Consistent
  <2>5. InEngine(bt)'
    BY <1>2, <1>3, <1>4, EngineFrame DEF Consistent
  <2>6. Indexed(bt)'
    BY <1>2, <1>3, <1>4, IndexFrame DEF Consistent
  <2>7. Compacting(bt)'
    BY <1>2, <1>4, CompactSame DEF Consistent
  <2> QED
    BY <2>1, <2>2, <2>3, <2>4, <2>5, <2>6, <2>7 DEF Consistent
<1>6. ASSUME Unraced(at)
      PROVE  Unraced(bt)'
  <2>1. n = 407 => r.ok
    <3>1. n = 407 => o.ok /\ r.ok = o.ok
      BY <1>1, <1>6 DEF Unraced, Sole, Deciding, QuietReg
    <3> QED
      BY <3>1
  <2>2. MetaPasses(n, m, o, r) /\ SparsePasses(n, m, o, r) /\ LogPasses(n, m, o, r)
    BY <1>4, <2>1
  <2>3. Apart(bt)'
    BY <1>4, <1>6, ApartFrame DEF Unraced
  <2>4. Sole(bt)'
    BY <1>2, <1>3, <1>4, <1>6, SoleFrame DEF Unraced, Consistent
  <2>5. Carried(bt)'
    BY <1>3, <1>4, <1>6, CarriedFrame DEF Unraced, Consistent
  <2>6. MetaExact(bt)'
    BY <1>2, <1>6, <2>2, MetaFrame DEF Unraced
  <2>7. SparseExact(bt)'
    BY <1>2, <1>3, <1>6, <2>2, SparseFrame DEF Unraced
  <2>8. LogExact(bt)'
    BY <1>2, <1>6, <2>2, LogFrame DEF Unraced
  <2> QED
    BY <2>3, <2>4, <2>5, <2>6, <2>7, <2>8 DEF Unraced
<1> QED
  BY <1>5, <1>6

-----------------------------------------------------------------------------
(* What keeps threads out of each other's way.                             *)

\* No compaction and no checkpoint runs while a thread has the gate shared.
LEMMA Gated ==
  ASSUME NEW at, Alone(at), NEW t \in Thread, at[t] \in GateReading
  PROVE  /\ NoneAt(at, Excluding) /\ NoneAt(at, Replacing) /\ NoneAt(at, Unindexed)
         /\ NoneAt(at, Renumbering) /\ NoneAt(at, Cleared) /\ NoneAt(at, Packed)
<1>1. NoneAt(at, Excluding)
  BY DEF Alone, NoneAt
<1>2. /\ Replacing \subseteq Excluding /\ Unindexed \subseteq Excluding /\ Renumbering \subseteq Excluding
      /\ Cleared \subseteq Excluding /\ Packed \subseteq Excluding
  BY DEF Replacing, Unindexed, Renumbering, Cleared, Packed, Excluding
<1> QED
  BY <1>1, <1>2 DEF NoneAt

\* And no other thread has the gate while one rewrites the store.
LEMMA Excluded ==
  ASSUME NEW at, Held(at), Alone(at), NEW t \in Thread, at[t] \in Excluding
  PROVE  NoneAt(at, GateReading) /\ \A u \in Thread : at[u] \in Excluding => u = t
<1>1. NoneAt(at, GateReading)
  BY DEF Alone, NoneAt
<1>2. Excluding \subseteq Owned("gate")
  BY DEF Excluding, Owned
<1>3. \A u \in Thread : at[u] \in Owned("gate") => locks["gate"].writer = u
  BY Locks DEF Held
<1> QED
  BY <1>1, <1>2, <1>3

\* One thread at a time is between bury and push, or deletes: it has the tombstones.
LEMMA OneBuries ==
  ASSUME NEW at, Held(at), NEW t \in Thread, at[t] \in Burying \cup {405}, NEW u \in Thread, at[u] \in Burying
  PROVE  u = t
<1>1. Burying \cup {405} \subseteq Owned("deleted")
  BY DEF Burying, Owned
<1>2. \A v \in Thread : at[v] \in Owned("deleted") => locks["deleted"].writer = v
  BY Locks DEF Held
<1> QED
  BY <1>1, <1>2

Modifying == OfSet \cup OfBatch \cup OfUpdate \cup OfDelete

LEMMA ModifyingPoints ==
  /\ LookedUp \subseteq Modifying /\ Burying \subseteq Modifying /\ AfterPush \subseteq Modifying
  /\ Deleted \subseteq Modifying /\ Finding \subseteq Modifying /\ Relocating \subseteq Modifying
  /\ Rewriting \subseteq Modifying /\ Indexing \subseteq Modifying /\ LoggedFirst \subseteq Modifying
  /\ Placing \subseteq AfterPush /\ Rewriting \subseteq InPlace /\ LoggedFirst \subseteq InPlace
  /\ Rewriting \subseteq Known /\ LoggedFirst \subseteq Known
  /\ InPlace \subseteq LookedUp /\ Known \subseteq LookedUp /\ AfterPush \subseteq LookedUp
  /\ Deleted \subseteq Known /\ Relocating \subseteq LookedUp
  /\ Indexing \subseteq AfterPush \cup InPlace
  /\ Carrying \subseteq Finding /\ Landed \subseteq AfterPush /\ Laden \subseteq LookedUp /\ 0 \notin Modifying
<1>1. /\ LookedUp \subseteq Modifying /\ Burying \subseteq Modifying /\ AfterPush \subseteq Modifying
      /\ Deleted \subseteq Modifying /\ Finding \subseteq Modifying /\ Relocating \subseteq Modifying
      /\ Rewriting \subseteq Modifying /\ Indexing \subseteq Modifying /\ LoggedFirst \subseteq Modifying
      /\ 0 \notin Modifying
  BY DEF LookedUp, Modifying, Burying, AfterPush, Deleted, Finding, Relocating, Rewriting, Indexing,
     LoggedFirst, OfSet, OfBatch, OfUpdate, OfDelete
<1>2. /\ Placing \subseteq AfterPush /\ Landed \subseteq AfterPush
      /\ Indexing \subseteq AfterPush \cup InPlace
  BY DEF Placing, Landed, Indexing, AfterPush, InPlace
<1>3. Rewriting \subseteq InPlace /\ LoggedFirst \subseteq InPlace /\ Deleted \subseteq Known
      /\ Rewriting \subseteq Known /\ LoggedFirst \subseteq Known
  BY DEF Rewriting, LoggedFirst, InPlace, Deleted, Known
<1>4. /\ InPlace \subseteq LookedUp /\ Known \subseteq LookedUp /\ AfterPush \subseteq LookedUp /\ Relocating \subseteq LookedUp
      /\ Laden \subseteq LookedUp
  BY DEF InPlace, Known, AfterPush, Relocating, Laden, LookedUp
<1>5. Carrying \subseteq Finding
  BY DEF Carrying, Finding
<1> QED
  BY <1>1, <1>2, <1>3, <1>4, <1>5

\* Two calls that write do not write the same id.
LEMMA Apartness ==
  ASSUME NEW at, Called(at), Apart(at), NEW t \in Thread, NEW u \in Thread,
         at[t] \in Modifying, at[u] \in Modifying, reg[t].id = reg[u].id
  PROVE  t = u
<1>1. ASSUME NEW v \in Thread, at[v] \in Modifying
      PROVE  at[v] # 0 /\ Writes(reg[v].call)
  BY <1>1, ModifyingPoints DEF Called, Writes, Modifying
<1> QED
  BY <1>1 DEF Apart

\* So the slot of an id that one call writes is live, but for the call that buries it.
LEMMA NotBuried ==
  ASSUME NEW at, Called(at), Apart(at), IdsFit(at), NoneAt(at, Replacing), NEW t \in Thread,
         at[t] \in Modifying \ Burying, reg[t].id \in Id, store.ids[reg[t].id] # None
  PROVE  store.ids[reg[t].id] \in LiveIn(store)
<1>1. /\ store.ids[reg[t].id] \in DOMAIN store.slots
      /\ store.ids[reg[t].id] \in store.dead => \E u \in Thread : at[u] \in Burying /\ reg[u].id = reg[t].id
  BY DEF IdsFit
<1>2. ASSUME NEW u \in Thread, at[u] \in Burying, reg[u].id = reg[t].id
      PROVE  FALSE
  BY <1>2, Apartness, ModifyingPoints
<1> QED
  BY <1>1, <1>2 DEF LiveIn

\* The ids and the local variables of the calls have their types.
LEMMA LocalTyped ==
  ASSUME Typed, NEW t \in Thread
  PROVE  /\ reg[t] \in Local /\ store \in Stores /\ log \in Logs
  BY DEF Typed

LEMMA BusyId ==
  ASSUME NEW at, Called(at), NEW t \in Thread, at[t] \in Modifying
  PROVE  reg[t].id \in Id
  BY ModifyingPoints DEF Called

\* Two threads after their lookup with one slot have one id.
LEMMA SameSlot ==
  ASSUME NEW at, OldFits(at), SlotFits(at), NEW t \in Thread, NEW u \in Thread,
         NEW k, k \in Nat,
         \/ at[t] \in LookedUp /\ reg[t].old = k
         \/ at[t] \in AfterPush \cup InPlace /\ reg[t].slot = k,
         \/ at[u] \in LookedUp /\ reg[u].old = k
         \/ at[u] \in AfterPush \cup InPlace /\ reg[u].slot = k
  PROVE  reg[t].id = reg[u].id
<1>1. ASSUME NEW v \in Thread,
             \/ at[v] \in LookedUp /\ reg[v].old = k
             \/ at[v] \in AfterPush \cup InPlace /\ reg[v].slot = k
      PROVE  store.slots[k].id = reg[v].id
  <2>1. k # None
    BY ConcurrencyAssumption
  <2>2. CASE at[v] \in LookedUp /\ reg[v].old = k
    BY <2>1, <2>2 DEF OldFits
  <2>3. CASE at[v] \in AfterPush /\ reg[v].slot = k
    BY <2>3 DEF SlotFits
  <2>4. CASE at[v] \in InPlace /\ reg[v].slot = k
    BY <2>1, <2>4, ModifyingPoints DEF OldFits
  <2> QED
    BY <1>1, <2>2, <2>3, <2>4
<1> QED
  BY <1>1

LEMMA SlotTyped ==
  ASSUME NEW s \in Stores, NEW k \in DOMAIN s.slots
  PROVE  /\ s.slots[k] \in SlotRecord /\ k \in Nat /\ s.slots[k].id \in Id
         /\ s.slots[k].sparse \in BOOLEAN /\ s.slots[k].meta \in Nat /\ s.slots[k].val \in [id : Id, by : Nat]
<1>1. s.slots \in Seq(SlotRecord)
  BY DEF Stores
<1>2. DOMAIN s.slots = 1..Len(s.slots) /\ s.slots \in [1..Len(s.slots) -> SlotRecord]
  BY <1>1
<1>3. s.slots[k] \in SlotRecord /\ k \in Nat
  BY <1>2
<1> QED
  BY <1>3 DEF SlotRecord
=============================================================================
