---------------------------- MODULE TokenBudget ----------------------------
(* The thresholds a token budget derives from its window and buffers, and    *)
(* the pressure of a number of tokens. Pure functions of usize values, none  *)
(* of whose operations can wrap: subtractions saturate at zero.              *)
EXTENDS Integers

MinEffectiveWindow == 1000
MinPromptBudget == 8000

AtLeast(a, b) == IF a >= b THEN a ELSE b
AtMost(a, b) == IF a <= b THEN a ELSE b
SaturatingSub(a, b) == AtLeast(a - b, 0)

Budgets == [contextWindow : Nat, reservedOutput : Nat,
            warningBuffer : Nat, compactBuffer : Nat, blockingBuffer : Nat]

\* At least half the window, or MinPromptBudget, stays for the prompt.
EffectiveReservedOutput(contextWindow, reservedOutput) ==
    LET window == AtLeast(contextWindow, 1)
        minPrompt == AtMost(AtLeast(window \div 2, 1), MinPromptBudget)
    IN  AtMost(reservedOutput, SaturatingSub(window, minPrompt))

EffectiveWindow(b) ==
    AtLeast(SaturatingSub(b.contextWindow, EffectiveReservedOutput(b.contextWindow, b.reservedOutput)),
            MinEffectiveWindow)

CompactThreshold(b) ==
    LET effective == EffectiveWindow(b)
    IN  AtLeast(SaturatingSub(effective, AtMost(b.compactBuffer, effective \div 3)), 1)

WarningThreshold(b) ==
    LET compact == CompactThreshold(b)
    IN  AtMost(AtLeast(SaturatingSub(compact, AtMost(b.warningBuffer, EffectiveWindow(b) \div 3)), 1), compact)

BlockingThreshold(b) ==
    LET effective == EffectiveWindow(b)
        buffer == AtLeast(AtMost(b.blockingBuffer, effective \div 10), 1)
    IN  AtMost(AtLeast(SaturatingSub(effective, buffer), CompactThreshold(b)), effective)

\* PressureLevel in its order: 0 Normal, 1 Warning, 2 Compact, 3 Blocking.
Pressure(b, tokens) ==
    IF tokens >= BlockingThreshold(b) THEN 3
    ELSE IF tokens >= CompactThreshold(b) THEN 2
    ELSE IF tokens >= WarningThreshold(b) THEN 1
    ELSE 0
=============================================================================
