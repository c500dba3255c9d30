\* Four attempts; Gemini's five redirects.
SPECIFICATION Spec
CONSTANTS
    Attempts = 4
    Latencies = {40, 300, 1200}
    MaxRedirects = 5
INVARIANTS
    TypeOK
    StatusIsOfProbes
    MetricsInRange
    GeminiVerdict
