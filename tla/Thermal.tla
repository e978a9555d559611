-------------------------------- MODULE Thermal --------------------------------
(***************************************************************************)
(* thermal/: the monitor reads the temperatures, the regulator turns the   *)
(* distance of the GPU from its target into a power limit and a clock by a *)
(* PID controller, and applies the limit through NVML.  Control values are *)
(* twentieths, so that all of them are integers.                           *)
(***************************************************************************)
EXTENDS Integers, Sequences, FiniteSetsExt

CONSTANTS
    GPUTemps,     \* readings of the GPU, 0 when there is none
    CPUTemps,     \* readings of the CPU
    Gaps,         \* seconds between two cycles, such that all values are whole twentieths
    MaxCycles     \* bound: cycles of the monitor, and uses of the optimizer

ASSUME ThermalAssumption ==
    /\ GPUTemps \union CPUTemps \subseteq 0..150 /\ MaxCycles \in Nat
    /\ Gaps \subseteq {0, 1, 2, 5, 10}

VARIABLES
    limits,       \* _current_power and _current_clock
    device,       \* the power limit the GPU really has
    pid,          \* integral, previous_error, and whether there was a cycle before
    status,       \* get_status: the last cycle
    paced,        \* history: each cycle came an interval after the one before
    optimized     \* how often the optimizer was used

thermalVars == <<limits, device, pid, status, paced, optimized>>

Target == 72
CycleLength == 10
MinPower == 200
OptimalPower == 400
MinClock == 1950
OptimalClock == 2250
IntegralLimit == 50
DerivativeLimit == 10

Limits == [power |-> OptimalPower, clock |-> OptimalClock]
FreshPID == [integral |-> 0, error |-> 0, began |-> FALSE]
Abs(n) == IF n < 0 THEN -n ELSE n
Between(low, n, high) == Max({low, Min({n, high})})

ThermalInit ==
    /\ limits = Limits /\ device = OptimalPower /\ pid = FreshPID
    /\ status = [gpu |-> 0, cpu |-> "unknown", action |-> "none", count |-> 0, history |-> 0]
    /\ paced = TRUE /\ optimized = 0

(***************************************************************************)
(* ThermalRegulator.                                                       *)
(***************************************************************************)

\* Mutant: the integral is not limited.
IntegralUnlimited(error, dt) == pid.integral + error * dt

\* The integral, with anti-windup.
Integral(error, dt) == Between(-IntegralLimit, pid.integral + error * dt, IntegralLimit)

\* The time since the cycle before: an interval, unless the monitor was started twice, and two
\* loops share the controller, or was stopped and started again.  The first step is a second.
Step(gap) == IF pid.began THEN gap ELSE 1

Control(error, dt) ==
    LET derivative == Between(-DerivativeLimit * dt, error - pid.error, DerivativeLimit * dt)
    IN  40 * error + 2 * Integral(error, dt) + (IF dt > 0 THEN (10 * derivative) \div dt ELSE 0)

\* Mutant: the limits are not clamped to what the GPU allows.
RegulatedUnclamped(control) ==
    [limits |-> [power |-> (2 * limits.power - control) \div 2,
                 clock |-> (4 * limits.clock - control) \div 4],
     action |-> IF control > 0 THEN "throttle" ELSE "relax"]

\* _regulate_gpu: int() cuts what is left of a watt or a megahertz.
Regulated(control) ==
    LET size == Abs(control) IN
    IF size < 10 THEN [limits |-> limits, action |-> "stable"]
    ELSE IF control > 0
    THEN [limits |-> [power |-> Max({MinPower, (2 * limits.power - size) \div 2}),
                      clock |-> Max({MinClock, (4 * limits.clock - size) \div 4})], action |-> "throttle"]
    ELSE [limits |-> [power |-> Min({OptimalPower, (2 * limits.power + size) \div 2}),
                      clock |-> Min({OptimalClock, (4 * limits.clock + size) \div 4})], action |-> "relax"]

CPUStatus(temp) ==
    IF temp = 0 THEN "unknown" ELSE IF temp >= 90 THEN "critical"
    ELSE IF temp >= 80 THEN "warning" ELSE IF temp >= 70 THEN "elevated" ELSE "normal"

\* _regulate_once: the status is made anew, and so its history has one entry.  apply: a
\* library that is missing changes nothing, and one that fails leaves the GPU as it was
\* while the regulator goes on from what it wanted.
Regulate(gpu, cpu, nvml, gap) ==
    LET error == gpu - Target  did == Regulated(Control(error, Step(gap))) IN
    /\ status.count + optimized < MaxCycles
    /\ pid' = [integral |-> Integral(error, Step(gap)), error |-> error, began |-> TRUE]
    /\ paced' = (paced /\ (pid.began => gap = CycleLength))
    /\ UNCHANGED optimized
    /\ limits' = IF nvml = "missing" THEN limits ELSE did.limits
    /\ device' = IF nvml = "works" THEN did.limits.power ELSE device
    /\ status' = [gpu |-> gpu, cpu |-> CPUStatus(cpu), action |-> did.action,
                  count |-> status.count + 1, history |-> 1]

\* reset: the GPU keeps its limit until the next cycle.
ResetThermal ==
    /\ limits' = Limits /\ pid' = FreshPID /\ paced' = TRUE
    /\ UNCHANGED <<device, status, optimized>>

(***************************************************************************)
(* PowerOptimizer: the step-wise alternative, in halves of a degree.       *)
(***************************************************************************)

\* The number of steps of a loop that ends when either is used up.
Steps(a, stepA, b, stepB) == Max({0, Min({(a + stepA - 1) \div stepA, (b + stepB - 1) \div stepB})})

Optimized(temp) ==
    LET over == 10 * (temp - Target)  under == 10 * (Target - 5 - temp)
        reduced == Max({MinPower, limits.power - 25 * Steps(limits.power - MinPower, 25, over, 20)})
        raised == Min({OptimalPower, limits.power + 25 * Steps(OptimalPower - limits.power, 25, under, 15)})
    IN  IF temp > Target
        THEN [power |-> reduced,
              clock |-> IF reduced > MinPower THEN limits.clock
                        ELSE Max({MinClock, limits.clock - 50 * Steps(limits.clock - MinClock, 50, over, 10)})]
        ELSE IF temp < Target - 5
        THEN [power |-> raised,
              clock |-> IF raised = OptimalPower THEN limits.clock
                        ELSE Min({OptimalClock, limits.clock + 50 * Steps(OptimalClock - limits.clock, 50, under, 8)})]
        ELSE limits

\* optimize, and apply.
Optimize(temp, nvml) ==
    /\ status.count + optimized < MaxCycles /\ optimized' = optimized + 1
    /\ limits' = Optimized(temp)
    /\ device' = IF nvml = "works" THEN Optimized(temp).power ELSE device
    /\ UNCHANGED <<pid, status, paced>>

ThermalNext ==
    \/ \E gpu \in GPUTemps, cpu \in CPUTemps, nvml \in {"works", "fails", "missing"}, gap \in Gaps :
          Regulate(gpu, cpu, nvml, gap)
    \/ \E temp \in GPUTemps, nvml \in {"works", "fails"} : Optimize(temp, nvml)
    \/ ResetThermal

ThermalSpec == ThermalInit /\ [][ThermalNext]_thermalVars

-----------------------------------------------------------------------------
\* get_health_score, in tenths.
HealthScore ==
    LET t == status.gpu IN
    IF t < 60 THEN 10 ELSE IF t < 70 THEN 9 ELSE IF t < 72 THEN 8 ELSE IF t < 75 THEN 7
    ELSE IF t < 80 THEN 5 ELSE IF t < 85 THEN 3 ELSE 1

ThermalTypeOK ==
    /\ limits.power \in MinPower..OptimalPower /\ limits.clock \in MinClock..OptimalClock
    /\ device \in MinPower..OptimalPower
    /\ pid.integral \in Int
    /\ HealthScore \in 1..10 /\ status.count + optimized \in 0..MaxCycles

\* A GPU that is three degrees too hot is throttled at once, however long it was cold and
\* however fast it cools, while the cycles are an interval apart: neither the integral of a
\* cold time nor a falling temperature outweighs the distance from the target.  When two
\* loops share the controller both together can; from six degrees on they cannot.
HotIsThrottled ==
    [][status'.count > status.count /\ (pid'.error >= 6 \/ (paced' /\ pid'.error >= 3))
       => status'.action = "throttle" /\ limits'.power <= limits.power]_thermalVars

\* thermal/regulator.py:153: "Over target — need more cooling".  The same of two loops.
HotIsAlwaysThrottled ==
    [][status'.count > status.count /\ pid'.error >= 3 => status'.action = "throttle"]_thermalVars

\* monitor.py:134: the last 100 entries of the history are kept.
HistoryIsKept == status.count > 1 /\ status.history > 0 => status.history > 1

\* A reading that is missing counts as 0 degrees, and lets a hot GPU have more power.
LostReadingKeepsLimits ==
    [][status'.count > status.count /\ status'.gpu = 0 => limits'.power <= limits.power]_thermalVars
=============================================================================
