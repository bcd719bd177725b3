-------------------------------- MODULE Cli --------------------------------
(***************************************************************************)
(* The command `receipt-verify verify', cli.py: it loads the receipts, the *)
(* key set and perhaps an anchor proof, in this order, and prints what     *)
(* verify() returns.  A file that does not load ends it.                   *)
(***************************************************************************)
EXTENDS Verifier, StrictJson

CONSTANTS ReceiptsFiles, KeysFiles, AnchorFiles     \* what the files may be

VARIABLES
    command,    \* what argparse makes of the arguments
    files,      \* the files: receipts, keys, anchor
    loaded,     \* receipts_data and keys_data, as far as they are loaded
    stage,      \* where main() is
    printed,    \* the results on the standard output
    status      \* the exit status, -1 before the exit

cli == <<command, files, loaded, stage, printed, status>>
allvars == <<vars, cli>>

(* The option --anchor-proof is absent or the empty string: both skip it.  *)
NoFile == [kind |-> "none", text |-> <<"garbage">>, extra |-> FALSE]

(* The options for the receipts and the keys are required.                 *)
AllFiles == ReceiptsFiles \cup KeysFiles \cup (AnchorFiles \ {NoFile})

ASSUME FilesAssumption ==
    \A file \in AllFiles :
        \/ file.kind = "unreadable"
        \/ file.kind = "text" /\ file.text \in Texts

(* A seq that is a numeral denotes an integer, in whatever is loaded.      *)
ASSUME LoadedAssumption == \A value \in Parsed : SeqDenotes(value)

CliInit ==
    /\ Init
    /\ arguments = "well typed"
    /\ command \in {"verify", "none", "help", "wrong"}
    /\ files \in [receipts : ReceiptsFiles, keys : KeysFiles,
                  anchor : AnchorFiles]
    /\ loaded = <<>>
    /\ stage = "arguments"
    /\ printed = <<>>
    /\ status = -1

Exit(code, results) ==
    /\ stage' = "exited"
    /\ status' = code
    /\ printed' = results
    /\ UNCHANGED <<vars, command, files, loaded>>

-----------------------------------------------------------------------------
(* argparse prints the help or the usage itself; without a command main()  *)
(* prints the help.                                                        *)
ParseArguments ==
    /\ stage = "arguments"
    /\ command = "verify"
    /\ stage' = "receipts"
    /\ UNCHANGED <<vars, command, files, loaded, printed, status>>

ShowHelp ==
    /\ stage = "arguments"
    /\ \/ command = "help"  /\ Exit(0, <<>>)
       \/ command = "none"  /\ Exit(1, <<>>)
       \/ command = "wrong" /\ Exit(2, <<>>)

(* Mutant: every parse error is one of the first layer.                    *)
LayerOfAny(name) == "receipt_integrity"

LayerOf(name) ==
    IF name = "anchor" THEN "anchor_validity" ELSE "receipt_integrity"

Result(l1, l2, l3, errs) ==
    [receipt_integrity |-> l1, anchor_validity |-> l2, completeness |-> l3,
     errors |-> errs]

(* _exit_with_parse_error                                                  *)
ParseErrorResult(codes, layer) ==
    LET fail(l) == IF l = layer THEN "FAIL" ELSE "INCONCLUSIVE"
    IN  Result(fail("receipt_integrity"), fail("anchor_validity"),
               "INCONCLUSIVE", Fatal(layer, codes))

(* What loading a file gives.                                              *)
Faults    == [file \in AllFiles |-> LoadErrors(file)]
Documents == [file \in {f \in AllFiles : Faults[f] = {}} |->
                 load_strict_json_file(file)]

Given     == {name \in DOMAIN files : files[name] # NoFile}
Bad(name) == name \in Given /\ Faults[files[name]] # {}

(* _load_json_arg for a file that does not load: any other exception than  *)
(* the two it handles ends the process with a traceback.                   *)
FailToLoad(name) ==
    /\ stage = name
    /\ Bad(name)
    /\ Exit(1, IF Faults[files[name]] = {"exception"} THEN <<>>
               ELSE <<ParseErrorResult(Faults[files[name]], LayerOf(name))>>)

LoadRequired(name, next) ==
    /\ stage = name
    /\ ~Bad(name)
    /\ loaded' = Append(loaded, Documents[files[name]])
    /\ stage' = next
    /\ UNCHANGED <<vars, command, files, printed, status>>

(* The call of verify(): a file that holds null is as good as no file.     *)
Call(anchor_proof_data) ==
    /\ receipts' = IF IsList(loaded[1]) THEN Items(loaded[1]) ELSE <<>>
    /\ keys' = IF IsObj(loaded[2]) THEN Members(loaded[2]) ELSE <<>>
    /\ arguments' = IF ~IsList(loaded[1]) THEN "receipts not an array"
                    ELSE IF ~IsObj(loaded[2]) THEN "keys not an object"
                    ELSE "well typed"
    /\ anchor' = anchor_proof_data
    /\ stage' = "verify"
    /\ UNCHANGED <<pc, pos, recorded, ri, errors, anchor_validity,
                   completeness, command, files, loaded, printed, status>>

CallWithoutAnchor ==
    stage = "anchor" /\ "anchor" \notin Given /\ Call(Null)

CallWithAnchor ==
    /\ stage = "anchor"
    /\ "anchor" \in Given /\ ~Bad("anchor")
    /\ Call(Documents[files.anchor])

-----------------------------------------------------------------------------
(* The status is 0 whatever the verdict; an exception is a traceback.      *)
PrintResult ==
    /\ stage = "verify" /\ pc = "done"
    /\ Exit(0, <<Result(ri, anchor_validity, completeness, errors)>>)

Traceback ==
    /\ stage = "verify" /\ pc = "raised"
    /\ Exit(1, <<>>)

CliNext ==
    \/ ParseArguments \/ ShowHelp
    \/ LoadRequired("receipts", "keys") \/ LoadRequired("keys", "anchor")
    \/ \E name \in {"receipts", "keys", "anchor"} : FailToLoad(name)
    \/ CallWithoutAnchor \/ CallWithAnchor
    \/ stage = "verify" /\ Next /\ UNCHANGED cli
    \/ PrintResult \/ Traceback

CliSpec == CliInit /\ [][CliNext]_allvars

(* One process that waits for nothing but its files.                       *)
CliFairSpec == CliSpec /\ WF_allvars(CliNext)

-----------------------------------------------------------------------------
Order == [receipts |-> 1, keys |-> 2, anchor |-> 3]

(* The first file that does not load, in the order of the loading, decides *)
(* the outcome: its error and no other is printed, for its layer and no    *)
(* other, the status is 1 and nothing was verified.                        *)
FirstBadFileDecides ==
    stage = "exited" /\ command = "verify" =>
        \A bad \in Given :
            Bad(bad) /\ (\A name \in Given :
                            Order[name] < Order[bad] => ~Bad(name)) =>
            /\ status = 1 /\ pos = 1 /\ errors = {}
            /\ \A i \in DOMAIN printed :
                  /\ {e.code : e \in printed[i].errors} = Faults[files[bad]]
                  /\ printed[i].completeness = "INCONCLUSIVE"
                  /\ printed[i].receipt_integrity = "FAIL" <=> bad # "anchor"
                  /\ printed[i].anchor_validity = "FAIL" <=> bad = "anchor"
            /\ printed = <<>> <=> files[bad].kind = "unreadable"

(* A printed result that is not a parse error is one of the whole files:   *)
(* verify() returned it, and what verify() was given tells everything that *)
(* every given file says, to the last member at every depth.               *)
ResultTellsFiles ==
    status = 0 /\ command = "verify" =>
        /\ pc = "done"
        /\ printed = <<Result(ri, anchor_validity, completeness, errors)>>
        /\ Tells(loaded[1], files.receipts.text)
        /\ Tells(loaded[2], files.keys.text)
        /\ "anchor" \in Given => Tells(anchor, files.anchor.text)

(* It is the verdict of the receipts in the file under the keys in the     *)
(* file: receipt_integrity is printed as ReceiptChain decides, and as FAIL *)
(* if the files hold no array and no object.                               *)
PrintedIsVerdict ==
    status = 0 /\ command = "verify" =>
        printed[1].receipt_integrity =
            IF IsList(loaded[1]) /\ IsObj(loaded[2])
            THEN Verdict(Items(loaded[1]), Members(loaded[2])) ELSE "FAIL"

(* The command ends, and no fatal error is lost on the way to the reader:  *)
(* its layer is printed as a failed one, or there is a traceback.          *)
CommandEnds ==
    /\ <>(stage = "exited")
    /\ \A layer \in {"receipt_integrity", "anchor_validity"} :
          HasFatal(errors, layer) ~>
              /\ stage = "exited"
              /\ \/ status = 1 /\ pc = "raised"
                 \/ printed # <<>> /\ printed[1][layer]
                                        \in {"FAIL", "UNSUPPORTED_VERSION"}
=============================================================================
