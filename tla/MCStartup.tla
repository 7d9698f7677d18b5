------------------------------ MODULE MCStartup ------------------------------
(* Command lines about the times, the solver, the inputs with their        *)
(* defaults, and the data file with two channels per direction.  The model *)
(* has the variables u, x and y, and a parameter b.                        *)
EXTENDS Startup

MCFMUTypes == {"fmi_1_0_me", "fmi_2_0_me_and_cs", "invalid"}
MCModelVariables == [name \in {"u", "b", "x", "y"} |-> IF name = "b" THEN 2 ELSE 0]

Mandatory == {Option(fmu("path"), "p"), Option(app("lookAheadTime"), "1")}
Singlestep == Option(app("simulationMethod"), "singlestep-delayed")

TimeOptions == Mandatory \cup
    {Singlestep, Option(app("lookAheadTime"), "0"),
     Option(app("lookAheadStepSize"), "1"), Option(app("lookAheadStepSize"), "2"),
     Option(app("integratorStepSize"), "1"), Option(app("integratorStepSize"), "2"),
     Option(StartTime, "0"), Option(StartTime, "-1"), Option(app("stopTime"), "x")}

SolverOptions == Mandatory \cup
    {Singlestep, Option(app("simulationMethod"), "euler"), Option(fmu("logging"), "x"),
     Option(integration("method"), "eu"), Option(integration("method"), "xx"),
     Option(integration("order"), "-1"), Option(integration("absoluteTolerance"), "0"),
     Option(app("logLevel"), "loud"), NoEqualsSign(app("logLevel")), Option(<<>>, "x"),
     Option(ProgramName, "x")}

InputOptions == Mandatory \cup
    {Singlestep, Option(<<"in", "0", "0">>, "u"), Option(<<"in", "0", "0", "type">>, "0"),
     Option(<<"in", "0", "1">>, "b"), Option(<<"in", "0", "1", "type">>, "2"),
     Option(default("u"), "3"), Option(default("u"), "x"), Option(default("b"), "0"),
     Option(default("superman"), "0"), Option(<<"in", "default", "motor", "u">>, "1")}

(* A variable in both directions, one on two channels, a type that is      *)
(* missing or does not exist, and a gap in the numbers.                    *)
PortOptions == Mandatory \cup
    {Option(<<"app", "dataFile">>, "out.csv"),
     Option(<<"out", "0", "0">>, "x"), Option(<<"out", "0", "0", "type">>, "0"),
     Option(<<"out", "0", "1">>, "y"), Option(<<"out", "0", "1", "type">>, "0"),
     Option(<<"out", "1", "0">>, "x"), Option(<<"out", "1", "0", "type">>, "0"),
     Option(<<"out", "1", "2">>, "u"),
     Option(<<"in", "0", "0">>, "x"), Option(<<"in", "0", "0", "type">>, "0"),
     Option(<<"in", "0", "1">>, "x"), Option(<<"in", "0", "1", "type">>, "0"),
     Option(<<"in", "0", "1", "type">>, "7")}

MCCommandLines == {TimeOptions, SolverOptions, InputOptions, PortOptions}

=============================================================================
