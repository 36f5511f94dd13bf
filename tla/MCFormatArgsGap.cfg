CONSTANTS
    Formats <- MCFormats
    Sizes = {0, 1, 3}
    Emit = {0, 2}
SPECIFICATION FormatSpec
INVARIANTS ConvertsBehindGaps
CHECK_DEADLOCK FALSE
