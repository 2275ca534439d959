---------------------------- MODULE MCCommandLine ----------------------------
(***************************************************************************)
(* CommandLine for TLC: two commands at once, and sessions of a few kinds. *)
(***************************************************************************)
EXTENDS CommandLine, TLC

CONSTANTS p1, p2

age == "age_over_21"
paid == "order_paid"

MCDefinitions == [club |-> {age}, retail |-> {age, paid}]
MCRefs == {"old", "new"}
MCClaimed == {{age, paid}}
\* A kind of session, with the number of times a command of it is preempted.
Session(commands, most, preemptions_, path) ==
    [commands |-> commands, most |-> most, preemptions |-> preemptions_,
     storagePath |-> path, resends |-> FALSE]
\* One in which requests are sent again with something else to ask for; the
\* holder edits credentials, and these expire, in the others.
Resending(commands, most, preemptions_) ==
    [Session(commands, most, preemptions_, "cliTest") EXCEPT !.resends = TRUE]

\* Every kind of session.
MCSessions ==
    {Session({"demoPhase4", "deckInit", "deckAddSource", "proveInstance"}, 4, 0, "agilityData"),
     Resending({"request", "sdkGrant", "sdkGrantXaman", "sdkGrantLegacy", "sdkProve",
        "proverProve"}, 3, 0),
     Resending({"demoPhase2", "verifyGrant", "sdkGrant"}, 3, 0),
     Resending({"demoPhase6", "sdkGrant", "sdkCredentialProve"}, 3, 0),
     Session({"demoPhase6", "credentialIssue", "sdkCredentialProve"}, 3, 0, "cliTest"),
     Session({"proverInit", "run"}, 3, 1, "agilityData"),
     Session({"request", "proverGrant"}, 3, 2, "agilityData"),
     Session({"request", "grant", "prove"}, 3, 1, "agilityData"),
     Session({"request", "proverGrantXaman", "proverProve",
        "proverProveReal", "proveReal"}, 3, 1, "agilityData"),
     Session({"demoPhase2", "request", "proverProve"}, 3, 0, "agilityData"),
     Session({"demoPhase2", "verify"}, 3, 1, "agilityData"),
     Session({"demoPhase1", "verify"}, 2, 1, "agilityData"),
     Session({"demoPhase4", "demoPhase5", "demoPhase5Local", "demoOffline",
        "demoXrpl"},
        2, 1, "agilityData"),
     Session({"demoPhase6", "credentialVerify", "sdkStored"}, 2, 1,
        "cliTest"),
     Session({"credentialIssue", "credentialVerify"}, 3, 1, "agilityData"),
     Session({"demoPhase7", "midnightCredGet", "sdkDelete"}, 2, 1, "cliTest"),
     Resending({"demoPhase7"}, 2, 2),
     Session({"credentialIssue", "midnightCredPut", "midnightCredGet"}, 3, 0,
        "agilityData"),
     Session({"demoPhase6", "midnightCredPut", "midnightCredList",
        "sdkAnchor"}, 2, 1, "cliTest"),
     Session({"deckInit", "deckAddSource", "deckExport", "deckShow", "deckImport"}, 4, 1,
        "agilityData"),
     Session({"laceConnect", "laceAddresses", "laceSign", "sdkSign", "sdkDid",
        "midnightEncrypt", "midnightDecrypt", "midnightStatus",
        "credentialList", "laceStatus", "laceNetwork",
        "laceCapabilities", "deckList"}, 2, 2, "agilityData")}
Symmetry == Permutations(Procs)

\* Schedules with a bounded number of preemptions: a command gives way to the
\* other one, before it has ended, at most session.preemptions times.
VARIABLES current, preemptions
MCInit == Init /\ current = None /\ preemptions = 0
MCNext ==
    \/ /\ User
       /\ session.resends = \E d \in printed' \ printed : d.type = "request"
       /\ UNCHANGED <<current, preemptions>>
    \/ \E p \in Procs :
          /\ Step(p)
          /\ current' = IF proc'[p] = Idle THEN None ELSE p
          /\ preemptions' = IF current \in {None, p} THEN preemptions ELSE preemptions + 1
          /\ preemptions' <= session.preemptions
MCSpec == MCInit /\ [][MCNext]_<<vars, current, preemptions>>
=============================================================================
