------------------------------- MODULE Dreaming -------------------------------
(***************************************************************************)
(* internal/memory's Store and internal/dreaming's Dreamer: the memory     *)
(* files of the agents of one name, written by the web application and by  *)
(* the dreams of the agent.                                                *)
(*                                                                         *)
(* Every Spawn of the name makes another Store on the same directory, with *)
(* a lock of its own; Stop does not wait for what still uses the old one.  *)
(* os.WriteFile truncates and then writes: two steps, with the lock of the *)
(* store held.                                                             *)
(*                                                                         *)
(* A text is a sequence of tokens: words, and the markers of the protocol  *)
(* between the dreamer and claude. Whitespace is left out. Claude is       *)
(* external, and free: it writes any texts into any files, in front of     *)
(* them whatever it likes, and breaks off where it likes; and its answer   *)
(* to one dream may come so late that it is taken for that to a later one. *)
(***************************************************************************)
EXTENDS Naturals, Sequences, FiniteSetsExt, Functions

CONSTANTS
  Names,        (* names of files that ValidateName accepts                *)
  DefaultFiles, (* those that Init creates                                 *)
  UserTexts,    (* what the user writes into a file                        *)
  ClaudeTexts,  (* what claude writes into a file                          *)
  Prefaces,     (* what claude writes in front of the start marker         *)
  Requests,     (* the requests to the web application                     *)
  Absent,       (* no such file                                            *)
  MaxSpawns,    (* bound of the model: how many stores there are           *)
  MaxDreams     (* bound of the model: how many dreams begin               *)

START == "<<<MEMORY_UPDATE>>>"
END == "<<<END_MEMORY_UPDATE>>>"
FILE == "<<<FILE:"
CLOSE == ">>>"
NONE == "<<<NO_CHANGES>>>"

Tokens == Names \cup {START, END, FILE, CLOSE, NONE}
                \cup UNION {Range(t) : t \in UserTexts \cup ClaudeTexts \cup Prefaces}

(* Names have at most 64 characters, and "<" and ">" are not among those   *)
(* that validate.go:8 allows. Texts are sequences, Absent is none, and     *)
(* nothing is both a request and a store.                                  *)
ASSUME DreamingAssumption ==
  /\ DefaultFiles \subseteq Names
  /\ IsFiniteSet(Names) /\ Names \cap {START, END, FILE, CLOSE, NONE} = {}
  /\ \A text \in UserTexts \cup ClaudeTexts \cup Prefaces : text \in Seq(Range(text))
  /\ Absent \notin Seq(Tokens)
  /\ Requests \cap (1..MaxSpawns) = {}
  /\ MaxSpawns \in Nat \ {0} /\ MaxDreams \in Nat

Stores == 1..MaxSpawns

-----------------------------------------------------------------------------
(* ParseDreamResponse.                                                     *)

Holds(text, token) == \E i \in DOMAIN text : text[i] = token
Index(text, token) == Min({i \in DOMAIN text : text[i] = token})

(* Between the first start marker and the first end marker.                *)
Body(text) == SubSeq(text, Index(text, START) + 1, Index(text, END) - 1)

(* strings.Split at the file markers: where parts begin, and a part.       *)
PartStarts(body) == {0} \cup {i \in DOMAIN body : body[i] = FILE}
Part(body, i) ==
  SubSeq(body, i + 1, Min({j \in PartStarts(body) : j > i} \cup {Len(body) + 1}) - 1)

(* A part without ">>>" is skipped; a start marker holds one, too.         *)
Closes(part) == {k \in DOMAIN part : part[k] \in {CLOSE, START}}
FileParts(body) == {i \in PartStarts(body) : Closes(Part(body, i)) # {}}
FileName(part) == SubSeq(part, 1, Min(Closes(part)) - 1)

(* Mutant: the content begins with the marker.                             *)
FromMarker(part) == SubSeq(part, Min(Closes(part)), Len(part))

Content(part) == SubSeq(part, Min(Closes(part)) + 1, Len(part))

ValidName(part) ==
  /\ part[Min(Closes(part))] = CLOSE
  /\ \E n \in Names : FileName(part) = <<n>>

(* Of two parts with one name the later counts.                            *)
Files(body) ==
  LET names == {FileName(Part(body, i))[1] : i \in FileParts(body)}
  IN [n \in names |->
        Content(Part(body, Max({i \in FileParts(body) : FileName(Part(body, i)) = <<n>>})))]

(* The slice from the start marker to an end marker in front of it.        *)
Panics(text) ==
  /\ ~Holds(text, NONE)
  /\ Holds(text, START) /\ Holds(text, END)
  /\ Index(text, END) < Index(text, START)

(* The files to save: none on an error or on NO_CHANGES.                   *)
NoFiles == [n \in {} |-> <<>>]

ParseDreamResponse(text) ==
  IF /\ ~Holds(text, NONE)
     /\ Holds(text, START) /\ Holds(text, END)
     /\ \A i \in FileParts(Body(text)) : ValidName(Part(Body(text), i))
  THEN Files(Body(text))
  ELSE NoFiles

-----------------------------------------------------------------------------
(* What claude may answer.                                                 *)

(* An answer that keeps the protocol.                                      *)
Sections(texts, names) ==
  FoldSet(LAMBDA n, text : text \o <<FILE, n, CLOSE>> \o texts[n], <<>>, names)
Render(texts) == <<START>> \o Sections(texts, DOMAIN texts) \o <<END>>
Beginnings(text) == {SubSeq(text, 1, k) : k \in 0..(Len(text) - 1)}

(* What claude may mean to save; and the answers that quote the protocol:  *)
(* its start in front of the answer, or any marker in a file.              *)
Rewrites == UNION {[names -> ClaudeTexts] : names \in SUBSET Names}
HasMarker(text) == \E i \in DOMAIN text : text[i] \in {START, END, FILE, NONE}
Quotes(preface, texts) == Holds(preface, START) \/ \E n \in DOMAIN texts : HasMarker(texts[n])

(* A whole answer; those that break off, which mean nothing; and the one   *)
(* that nothing changes.                                                   *)
Reply(preface, texts) ==
  [text |-> preface \o Render(texts), files |-> texts, quotes |-> Quotes(preface, texts)]
Broken(answer) ==
  {[answer EXCEPT !.text = b, !.files = NoFiles] : b \in Beginnings(answer.text)}

Answers ==
  LET wholes == {Reply(p, f) : p \in Prefaces, f \in Rewrites}
      none == [text |-> <<NONE>>, files |-> NoFiles, quotes |-> FALSE]
  IN wholes \cup {none} \cup UNION {Broken(a) : a \in wholes}

(* What the parser makes of an answer: a panic, or the files to save, here *)
(* beside what claude meant of them.                                       *)
MayPanic == \E a \in Answers : Panics(a.text)
Outcome(a) ==
  LET saved == ParseDreamResponse(a.text)
  IN [update |-> saved,
      files |-> Restrict(a.files, DOMAIN a.files \cap DOMAIN saved),
      quotes |-> a.quotes]
Parsed == {Outcome(a) : a \in {b \in Answers : ~Panics(b.text)}}

-----------------------------------------------------------------------------
VARIABLES
  file,     (* file[n]: the text of the file, or Absent                    *)
  spawned,  (* how many stores there are; the last is that of the pool     *)
  stopped,  (* stores whose agent was stopped                              *)
  at,       (* at[s]: where the loop of the agent of store s is            *)
  create,   (* create[s]: the files that Init found missing                *)
  update,   (* update[s]: what the dream still has to save                 *)
  dreams,   (* how many dreams have begun                                  *)
  writing,  (* writing[w]: the Save of writer w, which holds a store's mu  *)
  got,      (* got[r]: the store that the handler of request r has, or 0   *)
  served,   (* the requests that have returned                             *)
  meant,    (* history: meant[s] is what claude meant of that              *)
  quoting,  (* history: the stores whose dream saves an answer that quotes *)
  due,      (* history: due[n] is what was last to be written into n, by   *)
            (* the user or by a dream whose prompt was no older            *)
  asked,    (* history: asked[s], for each prompt that claude has not yet  *)
            (* answered to s, the files that the user has written since    *)
  older,    (* history: the same for the answer that s is saving           *)
  spoilt    (* history: files that a dream with an older prompt has saved, *)
            (* that were written through the store of a stopped agent, or  *)
            (* that a death or an error cut off                            *)

agentVars == <<spawned, stopped, at, create>>
answerVars == <<meant, quoting, asked, older>>
dreamVars == <<update, dreams, answerVars>>
webVars == <<got, served>>
memoryVars == <<file, agentVars, dreamVars, writing, webVars, due, spoilt>>

(* The dream of store s writes in the name of s.                           *)
Writers == Requests \cup Stores
NoWrite == [store |-> 0, name |-> Absent, text |-> <<>>]

Current(s) == s = spawned /\ s \notin stopped

(* Functions from some of the names to texts.                              *)
IsTexts(f) == DOMAIN f \subseteq Names /\ Range(f) \subseteq Seq(Tokens)

MemoryTypeOK ==
  /\ DOMAIN file = Names /\ \A n \in Names : file[n] = Absent \/ file[n] \in Seq(Tokens)
  /\ spawned \in 0..MaxSpawns /\ stopped \subseteq 1..spawned
  /\ at \in [Stores -> {"unborn", "init", "live", "loaded", "saving", "gone"}]
  /\ create \in [Stores -> SUBSET DefaultFiles]
  /\ \A s \in Stores : IsTexts(update[s]) /\ IsTexts(meant[s])
  /\ quoting \subseteq Stores
  /\ asked \in [Stores -> Seq(SUBSET Names)] /\ older \in [Stores -> SUBSET Names]
  /\ dreams \in 0..MaxDreams
  /\ \A v, w \in Writers :
       writing[v].store = writing[w].store => v = w \/ writing[v] = NoWrite
  /\ got \in [Requests -> {0} \cup Stores] /\ served \subseteq Requests
  /\ DOMAIN due = Names /\ Range(due) \subseteq Seq(Tokens)
  /\ spoilt \subseteq Names

MemoryInit ==
  /\ file \in [Names -> {<<>>, Absent}]
  /\ spawned = 0 /\ stopped = {}
  /\ at = [s \in Stores |-> "unborn"]
  /\ create = [s \in Stores |-> {}]
  /\ update = [s \in Stores |-> NoFiles]
  /\ meant = [s \in Stores |-> NoFiles] /\ quoting = {}
  /\ asked = [s \in Stores |-> <<>>] /\ older = [s \in Stores |-> {}]
  /\ dreams = 0
  /\ writing = [w \in Writers |-> NoWrite]
  /\ got = [r \in Requests |-> 0] /\ served = {}
  /\ due = [n \in Names |-> <<>>]
  /\ spoilt = {}

Goto(s, place) == at' = [at EXCEPT ![s] = place]

-----------------------------------------------------------------------------
(* The Store.                                                              *)

(* Mutant: no lock.                                                        *)
AlwaysFree(s) == TRUE

(* Nobody writes with the lock of the store held.                          *)
Free(s) == \A w \in Writers : writing[w].store # s

(* The first half of Save: the lock, and a file that is empty. What the    *)
(* user writes is newer than the prompts of the store.                     *)
Truncate(w, s, n, text) ==
  /\ Free(s)
  /\ file' = [file EXCEPT ![n] = <<>>]
  /\ writing' = [writing EXCEPT ![w] = [store |-> s, name |-> n, text |-> text]]
  /\ IF ~Current(s) \/ (w \in Stores /\ n \in older[w])
     THEN spoilt' = spoilt \cup {n} /\ UNCHANGED due
     ELSE due' = [due EXCEPT ![n] = text] /\ UNCHANGED spoilt

(* The second: the text, over what another store has put there since, or   *)
(* an error.                                                               *)
Write(w) ==
  LET n == writing[w].name
      text == writing[w].text
      rest == SubSeq(file[n], Len(text) + 1, Len(file[n]))
  IN
  /\ writing[w] # NoWrite
  /\ \/ file' = [file EXCEPT ![n] = text \o rest] /\ UNCHANGED spoilt
     \/ spoilt' = spoilt \cup {n} /\ UNCHANGED file
  /\ writing' = [writing EXCEPT ![w] = NoWrite]
  /\ IF w \in Requests THEN served' = served \cup {w} /\ got' = [got EXCEPT ![w] = 0]
                       ELSE UNCHANGED webVars
  /\ UNCHANGED <<agentVars, dreamVars, due>>

-----------------------------------------------------------------------------
(* Spawn and Stop of the agent.                                            *)

(* Init asks which default files are missing.                              *)
Spawn ==
  /\ spawned < MaxSpawns
  /\ spawned = 0 \/ spawned \in stopped
  /\ spawned' = spawned + 1
  /\ Goto(spawned + 1, "init")
  /\ create' = [create EXCEPT ![spawned + 1] = {n \in DefaultFiles : file[n] = Absent}]
  /\ spoilt' = spoilt \cup {n \in Names : \E w \in Writers : writing[w].name = n}
  /\ UNCHANGED <<file, stopped, dreamVars, writing, webVars, due>>

(* Init writes them, without the lock, and the agent is in the pool.       *)
Ready(s) ==
  /\ at[s] = "init"
  /\ Current(s)
  /\ file' = [n \in Names |-> IF n \in create[s] THEN <<>> ELSE file[n]]
  /\ create' = [create EXCEPT ![s] = {}]
  /\ Goto(s, "live")
  /\ UNCHANGED <<spawned, stopped, dreamVars, writing, webVars, due, spoilt>>

(* The pool forgets the agent, or Spawn fails.                             *)
Stop ==
  /\ spawned > 0 /\ spawned \notin stopped
  /\ stopped' = stopped \cup {spawned}
  /\ UNCHANGED <<file, spawned, at, create, dreamVars, writing, webVars, due, spoilt>>

(* The process dies, by itself or in ParseDreamResponse.                   *)
ProcessDies ==
  /\ spawned > 0
  /\ stopped' = 1..spawned
  /\ at' = [s \in Stores |-> IF s <= spawned THEN "gone" ELSE "unborn"]
  /\ update' = [s \in Stores |-> NoFiles]
  /\ meant' = [s \in Stores |-> NoFiles] /\ quoting' = {}
  /\ asked' = [s \in Stores |-> <<>>] /\ older' = [s \in Stores |-> {}]
  /\ served' = served \cup {r \in Requests : got[r] # 0} /\ got' = [r \in Requests |-> 0]
  /\ writing' = [w \in Writers |-> NoWrite]
  /\ spoilt' = spoilt \cup {n \in Names : \E w \in Writers : writing[w].name = n}
  /\ create' = [s \in Stores |-> {}]
  /\ UNCHANGED <<file, spawned, dreams, due>>

-----------------------------------------------------------------------------
(* The handlers of the web application: GetMemory, and then the store.     *)

WebGet(r) ==
  /\ got[r] = 0 /\ r \notin served
  /\ \E s \in Stores :
       /\ Current(s)
       /\ at[s] # "init"
       /\ got' = [got EXCEPT ![r] = s]
  /\ UNCHANGED <<file, agentVars, dreamVars, writing, served, due, spoilt>>

WebSave(r, n, text) ==
  /\ got[r] # 0 /\ writing[r] = NoWrite
  /\ Truncate(r, got[r], n, text)
  /\ asked' = [asked EXCEPT ![got[r]] = [i \in DOMAIN @ |-> @[i] \cup {n}]]
  /\ older' = [older EXCEPT ![got[r]] = IF n \in DOMAIN update[got[r]] THEN @ \cup {n} ELSE @]
  /\ UNCHANGED <<agentVars, update, dreams, meant, quoting, webVars>>

-----------------------------------------------------------------------------
(* Dream.                                                                  *)

(* LoadAll, and the prompt that is made of it. Dream is called by OnIdle,  *)
(* or by OnShutdown, whose context is another than that of the agent.      *)
DreamLoad(s) ==
  /\ at[s] = "live"
  /\ dreams < MaxDreams
  /\ Free(s)
  /\ asked' = [asked EXCEPT ![s] = Append(@, {})]
  /\ dreams' = dreams + 1
  /\ Goto(s, "loaded")
  /\ UNCHANGED <<file, spawned, stopped, create, update, meant, quoting, older, writing,
                 webVars, due, spoilt>>

(* The result that is received is the answer to this prompt, or to an      *)
(* earlier one whose Send had ended by its watchdog (session.go:144). An   *)
(* empty one stands for a stream that ends without a result, too, and for  *)
(* what is no answer to a dream.                                           *)
Receive(s) ==
  /\ at[s] = "loaded"
  /\ \E i \in DOMAIN asked[s], a \in Parsed :
       /\ asked' = [asked EXCEPT ![s] = SubSeq(@, i + 1, Len(@))]
       /\ older' = [older EXCEPT ![s] = asked[s][i] \cap DOMAIN a.update]
       /\ update' = [update EXCEPT ![s] = a.update]
       /\ IF a.update = NoFiles
          THEN Goto(s, "live") /\ UNCHANGED <<meant, quoting>>
          ELSE /\ Goto(s, "saving")
               /\ IF a.quotes THEN quoting' = quoting \cup {s} /\ UNCHANGED meant
                  ELSE meant' = [meant EXCEPT ![s] = a.files] /\ UNCHANGED quoting
  /\ UNCHANGED <<file, spawned, stopped, create, dreams, writing, webVars, due, spoilt>>

(* The watchdog, a death of claude or the context ends Send, and so Dream. *)
DreamFails(s) ==
  /\ at[s] = "loaded"
  /\ Goto(s, "live")
  /\ UNCHANGED <<file, spawned, stopped, create, dreamVars, writing, webVars, due, spoilt>>

(* The answer that makes the parser panic.                                 *)
ReceivePanic(s) ==
  /\ at[s] = "loaded"
  /\ MayPanic
  /\ ProcessDies

(* One Save after the other, in the order of a map; ctx is not asked.      *)
DreamSave(s) ==
  /\ at[s] = "saving"
  /\ writing[s] = NoWrite
  /\ \E n \in DOMAIN update[s] :
       /\ Truncate(s, s, n, update[s][n])
       /\ update' = [update EXCEPT ![s] = Restrict(@, DOMAIN @ \ {n})]
       /\ meant' = [meant EXCEPT ![s] = Restrict(@, DOMAIN @ \ {n})]
       /\ older' = [older EXCEPT ![s] = @ \ {n}]
  /\ UNCHANGED <<agentVars, dreams, quoting, asked, webVars>>

DreamReturn(s) ==
  /\ at[s] = "saving"
  /\ update[s] = NoFiles
  /\ writing[s] = NoWrite
  /\ Goto(s, "live")
  /\ quoting' = quoting \ {s}
  /\ UNCHANGED <<file, spawned, stopped, create, update, dreams, meant, asked, older, writing,
                 webVars, due, spoilt>>

-----------------------------------------------------------------------------
DreamGoesOn(s) == Receive(s) \/ DreamFails(s) \/ DreamSave(s) \/ Write(s) \/ DreamReturn(s)

MemoryNext ==
  \/ Spawn \/ Stop \/ ProcessDies
  \/ \E s \in Stores : Ready(s) \/ DreamLoad(s) \/ DreamGoesOn(s) \/ ReceivePanic(s)
  \/ \E r \in Requests : WebGet(r) \/ Write(r)
  \/ \E r \in Requests, n \in Names, text \in UserTexts : WebSave(r, n, text)

MemorySpec == MemoryInit /\ [][MemoryNext]_memoryVars

-----------------------------------------------------------------------------
(* "Conservative: omitted files are NOT deleted. Only explicit updates"    *)
(* (ADR-0004:48): a dream saves nothing but what claude meant to save,     *)
(* wherever the answer breaks off and whatever stands in front of it.      *)
(* Exception: the answer quotes the protocol. The parser takes the first   *)
(* of each marker (parser.go:34-44), also that of a quotation of the       *)
(* format that the prompt gives (dreamer.go:109-114), and saves what       *)
(* stands there for the contents.                                          *)
SavesWhatWasMeant ==
  \A s \in Stores \ quoting :
    at[s] = "saving" =>
      \A n \in DOMAIN update[s] : n \in DOMAIN meant[s] /\ update[s][n] = meant[s][n]

(* The prompt shows neither an absent nor an empty file (dreamer.go:97).   *)
Text(n) == IF file[n] = Absent THEN <<>> ELSE file[n]

(* "Memory persists across sessions" (ADR-0004:58): a file holds, whole,   *)
(* what the user last wrote into it, or what a dream, whose prompt is no   *)
(* older, has saved since (dreamer_test.go:56-74), also across deaths and  *)
(* agents that are fired and hired again. Exceptions: it has been saved by *)
(* a dream with an older prompt, be it that the user wrote beside the      *)
(* dream (dreamer.go:41-80) or that the answer to an earlier dream came as *)
(* late as in a later one (session.go:144); it was written through the     *)
(* store of an agent that was stopped, which has a lock of its own         *)
(* (store.go:24); or a death or an error cut it off.                       *)
NoWriteLost ==
  \A n \in Names \ spoilt :
    (\A w \in Writers : writing[w].name # n) => Text(n) = due[n]
=============================================================================
