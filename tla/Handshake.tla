------------------------------ MODULE Handshake ------------------------------
(* Pairing and authentication between the extension and the broker's bridge: *)
(* #accept, #authenticate, #rotatePairingCode and #lockPairing of bridge.ts, *)
(* createPairingToken of state.ts, and the transport of background.js.       *)
(* Several profiles of the browser may have the extension; a token is known  *)
(* to one of them only.  The two ends take turns, so at most one message of  *)
(* a connection is under way.  Nonces and transcripts bind a message to its  *)
(* connection: here a message lives and dies with it.  A proof carries the   *)
(* key it was made with.                                                     *)
EXTENDS Integers, FiniteSets

CONSTANTS Profile,             \* profiles with the extension
          Token, Code,         \* values of randomBytes; a token or code is never its own successor
          None,
          MaxPairingAttempts,  \* MAX_PAIRING_ATTEMPTS
          MaxFaults            \* bound: lost connections and restarts

HandshakeAssumption ==
  /\ None \notin Token \cup Code \cup Profile
  /\ {MaxPairingAttempts, MaxFaults} \subseteq Nat /\ MaxPairingAttempts > 0

VARIABLES
  stored,    \* PAIRING_TOKEN_KEY of each profile
  ext,       \* transportHandshake of each profile: its phase, token and pairingCode
  srv,       \* the handshake of its connection at the bridge
  wire,      \* the message under way
  current,   \* #socket: the profile whose connection it is
  token,     \* #pairingToken
  file,      \* pairing.json
  temporary, \* its temporary file
  code,      \* #pairingCode
  fresh,     \* it has not expired
  attempts,  \* #pairingAttempts
  lock,      \* #pairingLockedUntil: "no", "locked", or "over" when it has passed
  guesses,   \* history: wrong guesses at this code
  faults     \* faults so far

pairingVars == <<token, file, temporary, code, fresh, attempts, lock, guesses>>
vars == <<stored, ext, srv, wire, current, pairingVars, faults>>

Tokens == Token \cup {None}
Codes == Code \cup {None}

ExtPhase == {"closed", "opening", "hello_sent", "pairing_required", "pairing_request_sent",
             "pairing_confirm_sent", "auth_response_sent", "auth_confirm_sent", "authenticated"}
(* writing, renaming: createPairingToken of a confirmed pairing is at work;  *)
(* it goes on when the connection is gone.                                   *)
SrvPhase == {"none", "connected", "pairing_required", "pairing_proof", "writing", "renaming",
             "paired", "auth_challenge", "auth_proof", "authenticated"}

Message == [kind : {"hello", "pairing_approve", "pairing_confirm", "auth_response", "auth_confirm",
                    "pairing_required", "pairing_approved", "pairing_complete", "auth_challenge",
                    "broker_proof", "ready"},
            key : Tokens \cup Codes]
NoMessage == [kind |-> "none", key |-> None]
Say(kind, key) == [kind |-> kind, key |-> key]

Closed == [phase |-> "closed", token |-> None, code |-> None]
Absent == [phase |-> "none", token |-> None, open |-> FALSE]

TypeOK ==
  /\ stored \in [Profile -> Tokens]
  /\ ext \in [Profile -> [phase : ExtPhase, token : Tokens, code : Codes]]
  /\ srv \in [Profile -> [phase : SrvPhase, token : Tokens, open : BOOLEAN]]
  /\ wire \in [Profile -> Message \cup {NoMessage}]
  /\ current \in Profile \cup {None}
  /\ {token, file, temporary} \subseteq Tokens
  /\ code \in Codes
  /\ fresh \in BOOLEAN
  /\ attempts \in 0..MaxPairingAttempts
  /\ lock \in {"no", "locked", "over"}
  /\ guesses \in Nat
  /\ faults \in 0..MaxFaults

Init ==
  /\ stored = [p \in Profile |-> None]
  /\ ext = [p \in Profile |-> Closed]
  /\ srv = [p \in Profile |-> Absent]
  /\ wire = [p \in Profile |-> NoMessage]
  /\ current = None
  /\ token = None /\ file = None /\ temporary = None
  /\ code = None /\ fresh = FALSE /\ attempts = 0 /\ lock = "no" /\ guesses = 0
  /\ faults = 0

-----------------------------------------------------------------------------
Creating(p) == srv[p].phase \in {"writing", "renaming"}

(* Both ends of a connection end; what the bridge writes goes on.            *)
Cut(P) ==
  /\ ext' = [p \in Profile |-> IF p \in P THEN Closed ELSE ext[p]]
  /\ srv' = [p \in Profile |-> IF p \notin P THEN srv[p]
                               ELSE IF Creating(p) THEN [srv[p] EXCEPT !.open = FALSE]
                               ELSE Absent]
  /\ wire' = [p \in Profile |-> IF p \in P THEN NoMessage ELSE wire[p]]
  /\ current' = IF current \in P THEN None ELSE current

Reply(p, m) == wire' = [wire EXCEPT ![p] = m]
Enter(p, phase) == srv' = [srv EXCEPT ![p].phase = phase]
Becomes(p, phase) == ext' = [ext EXCEPT ![p].phase = phase]

(* #rotatePairingCode: never the same code twice in a row.                   *)
rotatePairingCode ==
  /\ code' \in Code \ {code}
  /\ fresh' = TRUE
  /\ guesses' = 0

-----------------------------------------------------------------------------
(* The extension's side.                                                     *)

connectTransport(p) ==
  /\ ext[p].phase = "closed" /\ ~Creating(p)
  /\ Becomes(p, "opening")
  /\ srv' = [srv EXCEPT ![p] = [phase |-> "connected", token |-> None, open |-> TRUE]]
  /\ UNCHANGED <<stored, wire, current, pairingVars, faults>>

(* The open listener reads the token once, for the whole handshake.          *)
Opened(p) ==
  /\ ext[p].phase = "opening"
  /\ ext' = [ext EXCEPT ![p] = [phase |-> "hello_sent", token |-> stored[p], code |-> None]]
  /\ Reply(p, Say("hello", stored[p]))
  /\ UNCHANGED <<stored, srv, current, pairingVars, faults>>

(* The user types the code the broker shows, or something else; until the    *)
(* connection is gone the popup lets them do so again.                       *)
approvePairing(p) ==
  /\ ext[p].phase \in {"pairing_required", "pairing_request_sent"}
  /\ wire[p] = NoMessage
  /\ \E typed \in Code :
       /\ ext' = [ext EXCEPT ![p].phase = "pairing_request_sent", ![p].code = typed]
       /\ Reply(p, Say("pairing_approve", typed))
  /\ UNCHANGED <<stored, srv, current, pairingVars, faults>>

revokePairing(p) ==
  /\ stored[p] # None
  /\ stored' = [stored EXCEPT ![p] = None]
  /\ Cut({p})
  /\ UNCHANGED <<pairingVars, faults>>

(* handleTransportMessage: the steps of the handshake.                       *)
Received(p, kind, phase) == wire[p].kind = kind /\ ext[p].phase = phase

PairingRequired(p) ==
  /\ Received(p, "pairing_required", "hello_sent")
  /\ Becomes(p, "pairing_required") /\ Reply(p, NoMessage)
  /\ UNCHANGED <<srv, current>>

PairingApproved(p) ==
  /\ Received(p, "pairing_approved", "pairing_request_sent")
  /\ IF wire[p].key = ext[p].code
       THEN /\ Becomes(p, "pairing_confirm_sent")
            /\ Reply(p, Say("pairing_confirm", ext[p].code))
            /\ UNCHANGED <<srv, current>>
       ELSE Cut({p})

AuthChallenge(p) ==
  /\ Received(p, "auth_challenge", "hello_sent") /\ ext[p].token # None
  /\ Becomes(p, "auth_response_sent") /\ Reply(p, Say("auth_response", ext[p].token))
  /\ UNCHANGED <<srv, current>>

BrokerProof(p) ==
  /\ Received(p, "broker_proof", "auth_response_sent")
  /\ IF wire[p].key = ext[p].token
       THEN /\ Becomes(p, "auth_confirm_sent")
            /\ Reply(p, Say("auth_confirm", ext[p].token))
            /\ UNCHANGED <<srv, current>>
       ELSE Cut({p})

Ready(p) ==
  /\ Received(p, "ready", "auth_confirm_sent")
  /\ Becomes(p, "authenticated") /\ Reply(p, NoMessage)
  /\ UNCHANGED <<srv, current>>

(* The token is kept, and the connection made again with it.                 *)
PairingComplete(p) ==
  /\ Received(p, "pairing_complete", "pairing_confirm_sent")
  /\ stored' = [stored EXCEPT ![p] = wire[p].key]
  /\ Cut({p})

handleTransportMessage(p) ==
  /\ \/ PairingComplete(p)
     \/ /\ PairingRequired(p) \/ PairingApproved(p) \/ AuthChallenge(p) \/ BrokerProof(p) \/ Ready(p)
        /\ UNCHANGED stored
  /\ UNCHANGED <<pairingVars, faults>>

-----------------------------------------------------------------------------
(* The bridge's side: #authenticate.                                         *)

Asked(p, kind, phase) == wire[p].kind = kind /\ srv[p].phase = phase

(* The profile says it has a token; a lock of the pairing is none of its     *)
(* business.                                                                 *)
SaysPairedUnlessLocked(p) == wire[p].key # None /\ token # None /\ lock # "locked"
SaysPaired(p) == wire[p].key # None /\ token # None

(* What is counted outlives the connection.                                  *)
AttemptsOfConnection == 0
AttemptsSoFar == IF lock = "over" THEN 0 ELSE attempts

hello(p) ==
  /\ Asked(p, "hello", "connected")
  /\ \/ /\ SaysPaired(p)
        /\ Enter(p, "auth_challenge") /\ Reply(p, Say("auth_challenge", None))
        /\ UNCHANGED <<ext, current, code, fresh, guesses, attempts, lock>>
     \/ /\ ~SaysPaired(p)
        /\ IF lock = "locked"
             THEN Cut({p}) /\ UNCHANGED <<code, fresh, guesses, attempts, lock>>
             ELSE /\ Enter(p, "pairing_required") /\ Reply(p, Say("pairing_required", None))
                  /\ attempts' = AttemptsSoFar
                  /\ lock' = "no"
                  /\ IF code = None \/ ~fresh THEN rotatePairingCode
                     ELSE UNCHANGED <<code, fresh, guesses>>
                  /\ UNCHANGED <<ext, current>>
  /\ UNCHANGED <<token, file, temporary>>

(* An attempt is counted before it is judged; too many lock the pairing and  *)
(* change the code.  The count is only compared with MAX_PAIRING_ATTEMPTS,   *)
(* so it stops there.                                                        *)
pairing_approve(p) ==
  /\ Asked(p, "pairing_approve", "pairing_required")
  /\ attempts' = IF attempts < MaxPairingAttempts THEN attempts + 1 ELSE attempts
  /\ IF fresh /\ wire[p].key = code
       THEN /\ Enter(p, "pairing_proof") /\ Reply(p, Say("pairing_approved", code))
            /\ UNCHANGED <<ext, current, code, fresh, guesses, lock>>
       ELSE /\ Cut({p})
            /\ IF attempts' >= MaxPairingAttempts
                 THEN lock' = "locked" /\ rotatePairingCode
                 ELSE guesses' = guesses + 1 /\ UNCHANGED <<code, fresh, lock>>
  /\ UNCHANGED <<token, file, temporary>>

(* A second approval on one connection is an unexpected message.             *)
Unexpected(p) ==
  /\ Asked(p, "pairing_approve", "pairing_proof")
  /\ Cut({p})
  /\ UNCHANGED <<pairingVars>>

(* A new token is one that nobody has; which one makes no difference.        *)
Unused == Token \ ({token, file, temporary}
                    \cup {stored[q] : q \in Profile} \cup {ext[q].token : q \in Profile}
                    \cup {srv[q].token : q \in Profile} \cup {wire[q].key : q \in Profile})

pairing_confirm(p) ==
  /\ Asked(p, "pairing_confirm", "pairing_proof")
  /\ IF wire[p].key = code
       THEN /\ Unused # {}
            /\ srv' = [srv EXCEPT ![p].phase = "writing", ![p].token = CHOOSE new \in Unused : TRUE]
            /\ Reply(p, NoMessage) /\ UNCHANGED <<ext, current>>
       ELSE Cut({p})
  /\ UNCHANGED pairingVars

(* createPairingToken: one temporary file for all of them, then its rename,  *)
(* which fails when another rename has taken the file.                       *)
writeFile(p) ==
  /\ srv[p].phase = "writing"
  /\ temporary' = srv[p].token
  /\ Enter(p, "renaming")
  /\ UNCHANGED <<ext, wire, current, token, file, code, fresh, attempts, lock, guesses>>

Finished(p) == IF srv[p].open THEN [srv[p] EXCEPT !.phase = "paired", !.token = None] ELSE Absent

rename(p) ==
  /\ srv[p].phase = "renaming"
  /\ IF temporary = None
       THEN /\ IF srv[p].open
                 THEN /\ ext' = [ext EXCEPT ![p] = Closed]
                      /\ Reply(p, NoMessage)
                 ELSE UNCHANGED <<ext, wire>>
            /\ srv' = [srv EXCEPT ![p] = Absent]
            /\ UNCHANGED <<current, pairingVars>>
       ELSE /\ file' = temporary /\ temporary' = None
            /\ token' = srv[p].token
            /\ code' = None /\ fresh' = FALSE /\ guesses' = 0
            /\ attempts' = 0 /\ lock' = "no"
            /\ srv' = [srv EXCEPT ![p] = Finished(p)]
            /\ IF srv[p].open THEN Reply(p, Say("pairing_complete", srv[p].token))
               ELSE UNCHANGED wire
            /\ UNCHANGED <<ext, current>>

auth_response(p) ==
  /\ Asked(p, "auth_response", "auth_challenge")
  /\ IF wire[p].key = token
       THEN /\ Enter(p, "auth_proof") /\ Reply(p, Say("broker_proof", token))
            /\ UNCHANGED <<ext, current>>
       ELSE Cut({p})
  /\ UNCHANGED pairingVars

(* The connection replaces the one there was.                                *)
auth_confirm(p) ==
  /\ Asked(p, "auth_confirm", "auth_proof")
  /\ IF wire[p].key = token
       THEN LET replaced == {current} \ {p, None}
            IN /\ ext' = [q \in Profile |-> IF q \in replaced THEN Closed ELSE ext[q]]
               /\ srv' = [q \in Profile |-> IF q \in replaced THEN Absent
                                            ELSE IF q = p THEN [srv[p] EXCEPT !.phase = "authenticated"]
                                            ELSE srv[q]]
               /\ wire' = [q \in Profile |-> IF q \in replaced THEN NoMessage
                                             ELSE IF q = p THEN Say("ready", None) ELSE wire[q]]
               /\ current' = p
       ELSE Cut({p})
  /\ UNCHANGED pairingVars

authenticate(p) ==
  /\ hello(p) \/ pairing_approve(p) \/ Unexpected(p) \/ pairing_confirm(p) \/ writeFile(p) \/ rename(p)
     \/ auth_response(p) \/ auth_confirm(p)
  /\ UNCHANGED <<stored, faults>>

-----------------------------------------------------------------------------
(* Time.  The handshake timer runs out on a connection where nothing moves:  *)
(* the user has not typed the code.  (While messages move it would be a lost *)
(* connection.)                                                              *)
Waiting(p) ==
  /\ ext[p].phase \in {"pairing_required", "pairing_request_sent", "pairing_confirm_sent"}
  /\ wire[p] = NoMessage /\ ~Creating(p)

HandshakeTimeout(p) ==
  /\ Waiting(p)
  /\ Cut({p})
  /\ UNCHANGED <<stored, pairingVars, faults>>

CodeExpires ==
  /\ fresh /\ fresh' = FALSE
  /\ UNCHANGED <<stored, ext, srv, wire, current, token, file, temporary, code, attempts, lock, guesses, faults>>

LockPasses ==
  /\ lock = "locked" /\ lock' = "over"
  /\ UNCHANGED <<stored, ext, srv, wire, current, token, file, temporary, code, fresh, attempts, guesses, faults>>

(* Faults: a connection is lost (with it, the worker of the extension); the  *)
(* broker starts again from its file.                                        *)
ConnectionLost(p) ==
  /\ faults < MaxFaults /\ faults' = faults + 1
  /\ ext[p].phase # "closed"
  /\ Cut({p})
  /\ UNCHANGED <<stored, pairingVars>>

BrokerRestarts ==
  /\ faults < MaxFaults /\ faults' = faults + 1
  /\ ext' = [p \in Profile |-> Closed]
  /\ srv' = [p \in Profile |-> Absent]
  /\ wire' = [p \in Profile |-> NoMessage]
  /\ current' = None
  /\ token' = file
  /\ code' = None /\ fresh' = FALSE /\ attempts' = 0 /\ lock' = "no" /\ guesses' = 0
  /\ UNCHANGED <<stored, file, temporary>>

Next ==
  \/ \E p \in Profile :
       \/ connectTransport(p) \/ Opened(p) \/ approvePairing(p) \/ revokePairing(p)
       \/ handleTransportMessage(p) \/ authenticate(p)
       \/ HandshakeTimeout(p) \/ ConnectionLost(p)
  \/ CodeExpires \/ LockPasses \/ BrokerRestarts

(* Reconnection is a timer, messages arrive, timers run out: nobody is       *)
(* assumed to type a code.                                                   *)
Fairness ==
  \A p \in Profile :
    /\ WF_vars(connectTransport(p)) /\ WF_vars(Opened(p))
    /\ WF_vars(handleTransportMessage(p)) /\ WF_vars(authenticate(p))
    /\ WF_vars(HandshakeTimeout(p))

Spec == Init /\ [][Next]_vars
FairSpec == Spec /\ Fairness

-----------------------------------------------------------------------------
(* However connections, locks, expiries and pairings of several profiles     *)
(* interleave, no code outlives MAX_PAIRING_ATTEMPTS wrong guesses           *)
(* (security.md: a reconnect-resistant cooldown and code rotation).          *)
GuessesPerCode == guesses < MaxPairingAttempts

(* A profile that keeps the token of the broker gets its connection, in      *)
(* whatever phase its handshake, its timers and the other profiles were,     *)
(* once nothing breaks any more: no phase waits for something that will not  *)
(* come.                                                                     *)
Linked(p) == ext[p].phase = "authenticated" /\ current = p
Reconnects(p) == (stored[p] = token /\ token # None) ~> (Linked(p) \/ stored[p] # token)

PairedReconnects == \A p \in Profile : Reconnects(p)

=============================================================================
