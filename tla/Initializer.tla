---------------------------- MODULE Initializer ----------------------------
(***************************************************************************)
(* The D-Bus initializer (tools/actions/initializer.py): the window of     *)
(* waydroid first-launch asks the container service to Init, which runs    *)
(* init in a worker process watched by a monitor thread; Init and Cancel   *)
(* kill the worker there is.  What the worker does is in ImageStore.       *)
(*                                                                         *)
(* The service's methods run one at a time.  Signals are emitted by the    *)
(* same main loop, later: the monitor only asks it to.                     *)
(***************************************************************************)
EXTENDS ImageStore, Sequences

CONSTANTS NoWorker,   \* worker_thread is None
          Cancel,     \* the call of that method
          DefaultWant \* the channels of channels.cfg

ASSUME InitializerAssumption ==
  /\ Cardinality(Workers) \in Nat \ {0} /\ NoWorker \notin Workers
  /\ DefaultWant \in Request /\ Cancel \notin Request

VARIABLES current,    \* self.worker_thread
          reported,   \* workers whose monitor has asked for a signal
          idle,       \* the signals that the main loop has been asked to emit
          calls,      \* the window's method calls on their way to the service
          mail,       \* replies and signals on their way to the window
          window      \* the window

dbus == <<current, reported, idle, calls, mail>>
vars == <<faults, store, dbus, window>>

Signals == {"Finished", "Interrupted"}

TypeOK ==
  /\ StoreTypeOK
  /\ current \in Workers \cup {NoWorker}
  /\ reported \subseteq Workers
  /\ idle \in Seq(Signals)
  /\ calls \in Seq(Request \cup {Cancel})
  /\ mail \in Seq(Signals \cup {"reply", "error"})
  /\ window \in [open : BOOLEAN, initializing : BOOLEAN, sensitive : BOOLEAN,
                 clicks : 0..Cardinality(Workers)]

Init ==
  /\ StoreInit
  /\ current = NoWorker
  /\ reported = {}
  /\ idle = <<>>
  /\ calls = <<>>
  /\ mail = <<>>
  /\ window = [open |-> TRUE, initializing |-> FALSE, sensitive |-> TRUE, clicks |-> 0]

-----------------------------------------------------------------------------
(* The container service. *)

\* A slip: the worker there is runs on beside the new one.
KilledNever(w) == job

\* Kill, and join the monitor: it has asked for its signal when the method
\* goes on.
Killed(w) == IF w \in Workers /\ Alive(w) THEN Ended(w, 1) ELSE job
Joined(w) == /\ reported' = reported \cup ({w} \cap Workers)
             /\ idle' = IF w \notin Workers \/ w \in reported THEN idle
                        ELSE Append(idle, IF ~Alive(w) /\ job[w].code = 0
                                          THEN "Finished" ELSE "Interrupted")

\* polkit is asked when the channels are not the default ones; a refusal leaves
\* the killed worker where it was.
HandleInit ==
  /\ calls # <<>> /\ Head(calls) # Cancel
  /\ Joined(current)
  /\ \/ \E w \in Workers :
          /\ At(w, "idle")
          /\ job' = [Killed(current) EXCEPT ![w] = Begun(w, "init", Head(calls))]
          /\ current' = w
          /\ mail' = Append(mail, "reply")
     \/ /\ Head(calls) # DefaultWant
        /\ job' = Killed(current)
        /\ mail' = Append(mail, "error")
        /\ UNCHANGED current
  /\ calls' = Tail(calls)
  /\ UNCHANGED <<faults, conf, disk, overlay, rootfs, extra, published, window>>

HandleCancel ==
  /\ calls # <<>> /\ Head(calls) = Cancel
  /\ Joined(current)
  /\ job' = Killed(current)
  /\ calls' = Tail(calls)
  /\ UNCHANGED <<faults, conf, disk, overlay, rootfs, extra, published, current, mail, window>>

\* A slip: a worker that fails is not told from one that goes on.
MonitorSuccess(w) == /\ At(w, "done") /\ job[w].code = 0 /\ w \notin reported
                     /\ Joined(w)
                     /\ UNCHANGED <<faults, store, current, calls, mail, window>>

Monitor(w) == /\ At(w, "done") /\ w \notin reported
              /\ Joined(w)
              /\ UNCHANGED <<faults, store, current, calls, mail, window>>

\* Only a window that has clicked listens.
Emit == /\ idle # <<>>
        /\ idle' = Tail(idle)
        /\ mail' = IF window.open /\ window.clicks > 0 THEN Append(mail, Head(idle)) ELSE mail
        /\ UNCHANGED <<faults, store, current, reported, calls, window>>

-----------------------------------------------------------------------------
(* The window. *)

\* The button is insensitive from a click to the reply.
Click ==
  /\ window.open /\ window.sensitive
  /\ window.clicks < IF "again" \in faults THEN Cardinality(Workers) ELSE 1
  /\ "concurrent" \in faults \/ \A q \in Others : ~Alive(q)
  /\ \/ /\ \E want \in Request : calls' = Append(calls, want)
        /\ window' = [window EXCEPT !.initializing = TRUE, !.sensitive = FALSE,
                                    !.clicks = @ + 1]
     \/ /\ "bus" \in faults
        /\ window' = [window EXCEPT !.initializing = TRUE, !.clicks = @ + 1]
        /\ UNCHANGED calls
  /\ UNCHANGED <<faults, store, current, reported, idle, mail>>

\* A slip: the end of one part of the work passes for the end of it.
ReadForgetful ==
  /\ window.open /\ mail # <<>>
  /\ window' = [window EXCEPT !.sensitive = TRUE, !.initializing = FALSE]
  /\ mail' = Tail(mail)
  /\ UNCHANGED <<faults, store, current, reported, idle, calls>>

Read ==
  /\ window.open /\ mail # <<>>
  /\ window' = IF Head(mail) \in Signals
               THEN [window EXCEPT !.initializing = FALSE]
               ELSE [window EXCEPT !.sensitive = TRUE]
  /\ mail' = Tail(mail)
  /\ UNCHANGED <<faults, store, current, reported, idle, calls>>

\* A Cancel that fails is logged, and the window closes all the same.
Close == /\ window.open
         /\ window' = [open |-> FALSE, initializing |-> FALSE, sensitive |-> FALSE,
                       clicks |-> 0]
         /\ \/ calls' = IF window.initializing THEN Append(calls, Cancel) ELSE calls
            \/ "unheard" \in faults /\ window.initializing /\ UNCHANGED calls
         /\ mail' = <<>>
         /\ UNCHANGED <<faults, store, current, reported, idle>>

Next == \/ /\ StoreStep
           /\ "concurrent" \in faults \/ calls = <<>> \/ \A q \in Others : job'[q] = job[q]
           /\ UNCHANGED <<faults, dbus, window>>
        \/ HandleInit \/ HandleCancel \/ Emit
        \/ \E w \in Workers : Monitor(w)
        \/ Click \/ Read \/ Close

\* Processes and threads are scheduled, and the network answers or fails in the
\* end.  Nobody has to click, and no call has to be made.
WorkerStep == /\ \E w \in Workers : Step(w)
              /\ UNCHANGED <<faults, extra, published, dbus, window>>

Fairness == /\ WF_vars(WorkerStep)
            /\ WF_vars(\E w \in Workers : Monitor(w))
            /\ WF_vars(Emit)

Spec     == Init /\ [][Next]_vars
FairSpec == Spec /\ Fairness

-----------------------------------------------------------------------------
(* What the initializer promises.                                           *)

\* Init kills and joins before it starts another worker, whoever clicks what
\* when: two of them would extract over each other's images.
OneWorker == \A v, w \in Workers : (Alive(v) /\ Alive(w)) => v = w

\* Closing the window stops the installation it began, though the call that
\* begins it, its reply and the signal of its end may all be on their way, and
\* the window may have been told that its click failed.  Two things are excepted,
\* which the code does: after a second click, Interrupted of the killed worker makes
\* the window believe that the new one has ended ("again"), and a Cancel that fails
\* is dropped ("unheard"); the worker then goes on for nobody.
ClosedWindowStopsWork ==
  ~window.open /\ calls = <<>> /\ faults \cap {"again", "unheard"} = {}
    => \A w \in Workers : ~Alive(w)

\* A worker ends, and its end is announced by a signal: the window does not wait
\* for ever, whether the worker finishes, fails or is killed.
Unannounced == idle # <<>> \/ \E w \in Workers : job[w].pc # "idle" /\ w \notin reported
EndIsAnnounced == Unannounced ~> ~Unannounced
=============================================================================
