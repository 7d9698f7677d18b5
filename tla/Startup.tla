------------------------------ MODULE Startup ------------------------------
(***************************************************************************)
(* What main() does up to the first events: it reads the command line,     *)
(* sets the log level, makes the predictor of the simulation method, lets  *)
(* it add defaults of the model, initialises it, makes the dispatcher and  *)
(* the data logger, and runs.  Any of it may refuse the configuration      *)
(* (main.cpp, EventPredictor and OneStepEventPredictor with                *)
(* SolverConfiguration, ManagedLowLevelFMU and EventPredictorFactory).     *)
(*                                                                         *)
(* A check is the set of its possible outcomes: None, or the exception it  *)
(* throws.  A step performs its checks in the order of the code.           *)
(***************************************************************************)
EXTENDS CSVDataLogger

CONSTANTS
    FMUTypes,        \* the types the FMU may be found to have
    ModelVariables   \* the variables of the model, with their type codes

ASSUME StartupAssumption ==
    \A name \in DOMAIN ModelVariables : ModelVariables[name] \in 0..3

VARIABLES
    stage,      \* the next step of main()
    exception,  \* the exception that ended it
    method,     \* the predictor that was made
    fmuType,    \* ManagedLowLevelFMU::type_
    solver,     \* the integrator properties in use
    times,      \* the times and step sizes in use
    inputs      \* the value of each input variable before the first event

startupVars == <<contextVars, loggerVars, stage, exception, method, fmuType, solver,
                 times, inputs>>

None == "none"
SysConf == "SystemConfigurationException"
InvalidArgument == "invalid_argument"

(* The first check that does not pass decides.                             *)
outcomes(checks) ==
    LET reached == {i \in DOMAIN checks : \A j \in 1..(i - 1) : None \in checks[j]}
    IN  UNION {checks[i] \ {None} : i \in reached}
            \cup {ex \in {None} : \A i \in DOMAIN checks : ex \in checks[i]}

unless(ok, ex) == IF ok THEN {None} ELSE {ex}
mayThrow(ex) == {None, ex}

-----------------------------------------------------------------------------
(* Reading properties.  The number 1.0 has the value Unit, so that a tenth *)
(* of a tenth is a whole number.                                           *)

Unit == 100

app(name) == <<"app", name>>
fmu(name) == <<"fmu", name>>
integration(name) == <<"app", "integration", name>>

isNumber(text) == text \in Numerals

getProperty(path, def) == IF hasProperty(path) THEN config[path] ELSE def

(* The number of the property, or the default.                             *)
getDouble(path, def) ==
    IF hasProperty(path) /\ isNumber(config[path])
    THEN Unit * toInt(config[path]) ELSE def

getPositiveDoubleProperty(path) ==
    unless(/\ hasProperty(path)
           /\ isNumber(config[path])
           /\ getDouble(path, 0) >= 0, SysConf)

(* The overload with a default takes a missing property.                   *)
getRealPositiveDoubleProperty(path) ==
    unless(\/ ~hasProperty(path)
           \/ isNumber(config[path]) /\ getDouble(path, 0) > 0, SysConf)

presentRealPositive(path) ==
    unless(hasProperty(path) /\ getRealPositiveDoubleProperty(path) = {None}, SysConf)

(* getProperty<bool>.                                                      *)
flag(path) ==
    unless(getProperty(path, "0") \in {"0", "1", "true", "false"}, InvalidArgument)

(* getProperty<T> for the type of a variable.  An fmiBoolean is a char and *)
(* is read as one: the digit 0 becomes its character code.                 *)
readable(type, text) ==
    CASE type \in {0, 1} -> isNumber(text)
      [] type = 2 -> isNumber(text) /\ toInt(text) >= 0
      [] type = 3 -> TRUE

readAs(type, text) ==
    CASE type = 0 -> [number |-> Unit * toInt(text), text |-> ""]
      [] type = 1 -> [number |-> toInt(text), text |-> ""]
      [] type = 2 -> [number |-> 48 + toInt(text), text |-> ""]
      [] type = 3 -> [number |-> 0, text |-> text]

Zero == [number |-> 0, text |-> ""]

-----------------------------------------------------------------------------
(* SolverConfiguration.                                                    *)

IntegratorTypes == {"eu", "rk", "abm", "ck", "dp", "fe", "bs", "ro"}

getDefaultOrder(type) ==
    CASE type = "eu" -> 1
      [] type \in {"rk", "ro"} -> 4
      [] type \in {"abm", "ck", "dp"} -> 5
      [] type = "fe" -> 8
      [] type = "bs" -> 0

isAdaptive(type) == type \notin {"eu", "rk", "abm"}

integratorType == getProperty(integration("method"), "dp")

(* The order, and whether an absolute and a relative tolerance is set.     *)
makeIntegratorProperties ==
    [type |-> integratorType,
     order |-> IF hasProperty(integration("order"))
               THEN toInt(config[integration("order")])
               ELSE getDefaultOrder(integratorType),
     abstol |-> isAdaptive(integratorType) \/ hasProperty(integration("absoluteTolerance")),
     reltol |-> isAdaptive(integratorType) \/ hasProperty(integration("relativeTolerance"))]

SolverConfiguration ==
    LET order == getProperty(integration("order"), "0")
    IN  <<flag(fmu("logging")),
          getRealPositiveDoubleProperty(app("eventSearchPrecision")),
          unless(integratorType \in IntegratorTypes, SysConf),
          getRealPositiveDoubleProperty(integration("absoluteTolerance")),
          getRealPositiveDoubleProperty(integration("relativeTolerance")),
          unless(isNumber(order), InvalidArgument),
          unless(order # "-1", SysConf)>>

-----------------------------------------------------------------------------
(* The constructors of the predictors.                                     *)

LockableTypes == {"fmi_1_0_cs", "fmi_1_0_me", "fmi_2_0_cs", "fmi_2_0_me",
                  "fmi_2_0_me_and_cs"}

(* The path must be given, the files must load, and the type be known.     *)
ManagedLowLevelFMU(type) ==
    <<unless(hasProperty(fmu("path")), InvalidArgument),
      mayThrow(InvalidArgument),
      unless(type \in LockableTypes, InvalidArgument)>>

(* FMI++ may fail to load the model, or change the integrator properties.  *)
EventPredictor(type) ==
    ManagedLowLevelFMU(type) \o SolverConfiguration \o <<mayThrow(InvalidArgument)>>

(* loadModel() compares with fmi_2_0_me twice.                             *)
loadableTypes == {"fmi_1_0_me", "fmi_2_0_me"}

(* FMI++ may fail to create the model or change the integrator properties. *)
loadModel(type) ==
    SolverConfiguration \o <<unless(type \in loadableTypes, SysConf), mayThrow(SysConf)>>

instantiateModel == <<mayThrow(SysConf)>>

OneStepEventPredictor(type) ==
    ManagedLowLevelFMU(type) \o loadModel(type) \o instantiateModel

predictorName == getProperty(app("simulationMethod"), "multistep-prediction")

makeEventPredictorChecks(type) ==
    CASE predictorName = "multistep-prediction" -> EventPredictor(type)
      [] predictorName = "singlestep-delayed" -> OneStepEventPredictor(type)
      [] OTHER -> <<{SysConf}>>

-----------------------------------------------------------------------------
(* init() of the predictors.  Both build the output mapping first.         *)

default(name) == <<"in", "default", name>>

ports(mapping) ==
    {<<type, name>> \in TypeCodes \X Range(getAllVariableNames(mapping)) :
        name \in Range(mapping.names[type])}

noUnknown(mapping) == unless(mapping.names[fmiTypeUnknown] = <<>>, SysConf)

(* The step sizes; a singlestep predictor takes one step of lookAheadTime. *)
stepSizes ==
    LET horizon == getDouble(app("lookAheadTime"), 0)
        step == IF method = "singlestep-delayed" THEN horizon
                ELSE getDouble(app("lookAheadStepSize"), horizon \div 10)
    IN  [start |-> getDouble(StartTime, 0), horizon |-> horizon, step |-> step,
         integrator |-> getDouble(app("integratorStepSize"), step \div 10)]

(* Mutant: the step size is not compared with the horizon.                 *)
checkStepSizesLower == <<unless(stepSizes.step >= stepSizes.integrator, SysConf)>>

checkStepSizes ==
    <<unless(stepSizes.horizon >= stepSizes.step, SysConf),
      unless(stepSizes.step >= stepSizes.integrator, SysConf)>>

(* The input image: the default of each input, or zero.                    *)
defineInputs ==
    [port \in ports(inMapping.mapping) |->
        IF hasProperty(default(port[2]))
        THEN readAs(port[1], config[default(port[2])]) ELSE Zero]

readableDefaults ==
    \A port \in ports(inMapping.mapping) :
        port[1] # fmiTypeUnknown /\ hasProperty(default(port[2])) =>
            readable(port[1], config[default(port[2])])

EventPredictorInit ==
    <<getPositiveDoubleProperty(StartTime),
      presentRealPositive(app("lookAheadTime")),
      getRealPositiveDoubleProperty(app("lookAheadStepSize")),
      getRealPositiveDoubleProperty(app("integratorStepSize")),
      flag(app("directOutputDependency"))>>
    \o checkStepSizes
    \o <<unless(~outMapping.thrown, SysConf),
         noUnknown(outMapping.mapping),
         unless(~inMapping.thrown, SysConf),
         unless(readableDefaults, InvalidArgument),
         noUnknown(inMapping.mapping),
         mayThrow("runtime_error")>>

(* getValueRef() knows the name.                                           *)
defined(mapping, types) ==
    unless(\A port \in ports(mapping) :
             port[1] \in types => port[2] \in DOMAIN ModelVariables, SysConf)

(* The children of in.default.                                             *)
defaultNames ==
    {path[3] : path \in {p \in DOMAIN config : Len(p) = 3 /\ p = default(p[3])}}

setDefaultValue(name) ==
    IF name \notin DOMAIN ModelVariables THEN {SysConf}
    ELSE IF ~readable(ModelVariables[name], config[default(name)])
    THEN {InvalidArgument}
    ELSE mayThrow(SysConf)

(* In the order of the options, which is left open.                        *)
setDefaultValues ==
    UNION {setDefaultValue(name) \ {None} : name \in defaultNames}
        \cup {ex \in {None} : \A name \in defaultNames : ex \in setDefaultValue(name)}

(* Values that are set in the model itself.                                *)
modelDefaults ==
    [port \in {<<ModelVariables[name], name>> : name \in defaultNames} |->
        readAs(port[1], config[default(port[2])])]

(* The model may refuse to initialise, or to handle its first event.       *)
initModel == <<setDefaultValues, mayThrow(SysConf)>>

(* The unknown type is refused among the outputs only.  The outputs are     *)
(* fetched for the first time in the end.                                  *)
OneStepInit ==
    <<getPositiveDoubleProperty(StartTime),
      unless(~outMapping.thrown, SysConf),
      defined(outMapping.mapping, 0..3),
      noUnknown(outMapping.mapping),
      unless(~inMapping.thrown, SysConf),
      defined(inMapping.mapping, TypeCodes),
      presentRealPositive(app("lookAheadTime")),
      getRealPositiveDoubleProperty(app("integratorStepSize"))>>
    \o checkStepSizes
    \o <<flag(app("variableStepSize"))>>
    \o initModel
    \o <<mayThrow("SolverException")>>

-----------------------------------------------------------------------------
(* main().                                                                 *)

Init ==
    /\ ContextInit
    /\ LoggerInit
    /\ stage = "options"
    /\ exception = None
    /\ method = NULL
    /\ fmuType = NULL
    /\ solver = NULL
    /\ times = NULL
    /\ inputs = NULL

(* The step throws.                                                        *)
fails(ex) ==
    /\ ex # None
    /\ exception' = ex
    /\ phase' = "failed"
    /\ UNCHANGED <<config, given, portIDSource, outputChannelMap, inputChannelMap,
                   loggerVars, stage, method, fmuType, solver, times, inputs>>

readOption(opt) ==
    /\ stage = "options"
    /\ addCommandlineOption(opt)
    /\ exception' = IF phase' = "failed" THEN InvalidArgument ELSE None
    /\ UNCHANGED <<loggerVars, stage, method, fmuType, solver, times, inputs>>

endOfOptions ==
    /\ optionsAdded
    /\ stage' = "logger"
    /\ UNCHANGED <<loggerVars, exception, method, fmuType, solver, times, inputs>>

LogLevels == {"trace", "debug", "info", "warning", "error"}

configureLogger ==
    /\ phase = "ready" /\ stage = "logger"
    /\ IF getProperty(app("logLevel"), "debug") \in LogLevels
       THEN /\ stage' = "make"
            /\ UNCHANGED <<contextVars, loggerVars, exception, method, fmuType, solver, times,
                           inputs>>
       ELSE fails(SysConf)

makeEventPredictor(type) ==
    /\ phase = "ready" /\ stage = "make"
    /\ \E ex \in outcomes(makeEventPredictorChecks(type)) :
         \/ fails(ex)
         \/ /\ ex = None
            /\ stage' = "configure"
            /\ method' = predictorName
            /\ fmuType' = type
            /\ solver' = makeIntegratorProperties
            /\ UNCHANGED <<contextVars, loggerVars, exception, times, inputs>>

configureDefaultApplicationContext(start) ==
    /\ stage = "configure"
    /\ addSensitiveDefaultProperties(start)
    /\ stage' = "init"
    /\ UNCHANGED <<loggerVars, exception, method, fmuType, solver, times, inputs>>

initPredictor ==
    /\ phase = "ready" /\ stage = "init"
    /\ \E ex \in outcomes(IF method = "multistep-prediction"
                          THEN EventPredictorInit ELSE OneStepInit) :
         \/ fails(ex)
         \/ /\ ex = None
            /\ stage' = "dispatcher"
            /\ portIDSource' = inMapping.next
            /\ outputChannelMap' = outMapping.mapping
            /\ inputChannelMap' = inMapping.mapping
            /\ times' = stepSizes
            /\ inputs' = IF method = "multistep-prediction"
                         THEN defineInputs ELSE modelDefaults
            /\ UNCHANGED <<phase, config, given, loggerVars, exception, method,
                           fmuType, solver>>

(* The dispatcher reads app.stopTime, which may be any number.             *)
createDispatcher ==
    /\ phase = "ready" /\ stage = "dispatcher"
    /\ IF isNumber(getProperty(app("stopTime"), "9"))
       THEN /\ stage' = "dataLogger"
            /\ UNCHANGED <<contextVars, loggerVars, exception, method, fmuType, solver, times,
                           inputs>>
       ELSE fails(InvalidArgument)

(* The data logger; a file that cannot be opened is an error of the        *)
(* configuration.                                                          *)
createDataLogger ==
    /\ phase = "ready" /\ stage = "dataLogger"
    /\ \/ hasProperty(DataFile) /\ fails(SysConf)
       \/ /\ create
          /\ stage' = "run"
          /\ UNCHANGED <<contextVars, exception, method, fmuType, solver, times,
                         inputs>>

(* The dispatcher distributes an event.                                    *)
processEvent(variables) ==
    /\ phase = "ready" /\ stage = "run"
    /\ Len(rows) < MaxRows
    /\ eventTriggered(variables)
    /\ UNCHANGED <<contextVars, stage, exception, method, fmuType, solver, times,
                   inputs>>

Next ==
    \/ \E opt \in Options : readOption(opt)
    \/ endOfOptions
    \/ configureLogger
    \/ \E type \in FMUTypes : makeEventPredictor(type)
    \/ \E start \in DefaultStarts : configureDefaultApplicationContext(start)
    \/ initPredictor
    \/ createDispatcher
    \/ createDataLogger
    \/ stage = "run" /\ \E variables \in Events : processEvent(variables)

Spec == Init /\ [][Next]_startupVars

-----------------------------------------------------------------------------
(* Properties.                                                             *)

(* "assert(lookAheadHorizon >= lookAheadStepSize)" and the next line of    *)
(* initSolver(), for both methods and whichever of the three sizes were    *)
(* given and which are a tenth of the one above: every step is positive    *)
(* and fits into the step it is part of.                                   *)
StepsNested ==
    times # NULL =>
        /\ times.start >= 0
        /\ 0 < times.integrator
        /\ times.integrator <= times.step
        /\ times.step <= times.horizon

(* The dispatcher starts only with what the documentation calls mandatory: *)
(* the model's path, a look ahead time and a start time, from the command  *)
(* line or the model, and ports that have a type.  The one exception is    *)
(* the input of a singlestep simulation: its predictor refuses an unknown  *)
(* type among the outputs only, but asks the model for the name.           *)
AcceptedIsComplete ==
    LET types(mapping) ==
            UNION {{channel[i].id[1] : i \in DOMAIN channel} :
                        channel \in Range(mapping.channels)}
    IN  stage = "run" =>
            /\ {fmu("path"), app("lookAheadTime")} \subseteq {opt.key : opt \in given}
            /\ hasProperty(StartTime)
            /\ fmiTypeUnknown \notin types(outputChannelMap)
            /\ \/ fmiTypeUnknown \notin types(inputChannelMap)
               \/ /\ method = "singlestep-delayed"
                  /\ Range(inputChannelMap.names[fmiTypeUnknown])
                        \subseteq DOMAIN ModelVariables

(* The initial value of an input, written back as a text, is the one that  *)
(* the command line has for it, whether the method keeps an image of the   *)
(* inputs or sets them in the model.  This is not said of Booleans, which  *)
(* are read as characters: the digit 0 becomes a number other than zero.   *)
DefaultsApplied ==
    LET written(type, value) ==
            CASE type = 0 -> <<value.number % Unit, ToString(value.number \div Unit)>>
              [] type = 1 -> <<0, ToString(value.number)>>
              [] type = 3 -> <<0, value.text>>
    IN  inputs # NULL =>
            \A port \in ports(inputChannelMap) : \A opt \in given :
                /\ opt.key = default(port[2])
                /\ port[1] \in {0, 1, 3}
                /\ port[2] \in DOMAIN ModelVariables
                /\ port[1] = ModelVariables[port[2]]
                => written(port[1], inputs[port]) = <<0, opt.value>>

(* What holds of a configuration that main() accepts: it is the one that   *)
(* was given, nothing mandatory is missing, the step sizes fit and the     *)
(* defaults are where they belong.                                         *)
ConfigurationSound ==
    TreeFollowsOptions /\ AcceptedIsComplete /\ StepsNested /\ DefaultsApplied

=============================================================================
